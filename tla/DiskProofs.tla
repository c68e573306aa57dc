------------------------------ MODULE DiskProofs ------------------------------
(***************************************************************************)
(* What processes that meet on the disk keep of it.  Trash: Put, Restore   *)
(* and Empty keep the trash together, for any number of processes, names   *)
(* and files and wherever they die.  Thumbs: a thumbnail that counts is of *)
(* the file as it is.  Shell: launches leave running instances their       *)
(* trees.  MimeApps: what was set is what is found, and what a writer      *)
(* renders reads as it was meant, whatever stood in the file.              *)
(***************************************************************************)
EXTENDS MCDisk, Recursion, TLAPS, FiniteSetTheorems

-----------------------------------------------------------------------------
\* Trash.
\* The bounds are numbers, and what stands for "nothing" is nothing else.
Distinct ==
  /\ MaxFiles \in Nat /\ MaxCalls \in Nat
  /\ Blank \notin Paths \cup {None}
  /\ None \notin Paths \cup Nat \cup [file : Nat, from : Paths]

Sweeping(p) == proc[p].at \in {"files", "info"}

\* What a call has found out before it is where it is.
Fits ==
  \A p \in Procs :
    /\ proc[p].at \in {"pick", "claim", "write", "move", "undo", "check", "back", "drop"}
         => proc[p].name \in Names /\ proc[p].path \in Paths
    /\ Sweeping(p) => proc[p].op = "empty"

Own == \A p, q \in Procs : Holds(p) /\ Holds(q) /\ p # q => proc[p].name # proc[q].name

\* The name a call holds has its info file and not yet, or no longer, its file.
Claimed ==
  \A p \in Procs : Holds(p) =>
    /\ files[proc[p].name] = None /\ info[proc[p].name] # None
    /\ proc[p].at = "move" => info[proc[p].name] = proc[p].path

Lists == \A n \in Names : files[n] # None => info[n] = files[n].from

Alone == \A p, q \in Procs : p # q /\ Sweeping(p) => proc[q].at \in {"idle", "dead"}

\* What Empty has not removed is on its list.
Swept ==
  \A p \in Procs, n \in Names :
    /\ proc[p].at = "files" /\ files[n] # None => n \in proc[p].todo
    /\ proc[p].at = "info" =>
         files[n] = None /\ (info[n] # None => n \in proc[p].todo \/ proc[p].failed)

Has(f) == \/ \E path \in Paths : fs[path] = f
          \/ \E n \in Names : files[n] # None /\ files[n].file = f
          \/ f \in replaced \/ f \in cleared
Kept   == \A f \in 1..created : Has(f)

Shape == TypeOK /\ Fits
Safe  == Own /\ Claimed /\ Lists /\ Alone /\ Swept /\ Kept
IInv  == Shape /\ (~spoiled => Safe)

-----------------------------------------------------------------------------
Calls == [op : {"none", "put", "restore", "empty"}, path : Paths \cup {None}, name : Names \cup {0},
          at : {"idle", "pick", "claim", "write", "move", "undo", "check", "back", "drop",
                "files", "info", "dead"},
          todo : SUBSET Names, failed : BOOLEAN]

Fit(c) == /\ c.at \in {"pick", "claim", "write", "move", "undo", "check", "back", "drop"}
               => c.name \in Names /\ c.path \in Paths
          /\ c.at \in {"files", "info"} => c.op = "empty"

\* One process changes.
LEMMA Replaced ==
  ASSUME Shape, NEW p \in Procs, NEW c \in Calls, Fit(c), proc' = [proc EXCEPT ![p] = c]
  PROVE  proc' \in [Procs -> Calls] /\ Fits'
BY DEF Shape, TypeOK, Calls, Fits, Fit, Sweeping

\* It goes on to its next system call.
LEMMA Moved ==
  ASSUME Shape, NEW p \in Procs,
         proc[p].at \in {"pick", "claim", "write", "move", "undo", "check", "back", "drop"},
         NEW at \in {"pick", "claim", "write", "move", "undo", "check", "back", "drop"}, Goto(p, at)
  PROVE  proc' \in [Procs -> Calls] /\ Fits'
<1> DEFINE c == [proc[p] EXCEPT !.at = at]
<1>1. proc[p] \in Calls /\ Fit(proc[p])
  BY DEF Shape, TypeOK, Calls, Fits, Fit, Sweeping
<1>2. c \in Calls /\ Fit(c)
  BY <1>1 DEF Calls, Fit
<1>3. proc' = [proc EXCEPT ![p] = c]
  BY DEF Goto
<1> QED BY <1>2, <1>3, Replaced

LEMMA Ended ==
  ASSUME Shape, NEW p \in Procs,
         \/ Returns(p) \/ Fails(p)
         \/ \E f \in BOOLEAN : proc' = [proc EXCEPT ![p] = [Idle EXCEPT !.failed = f]]
         \/ proc' = [proc EXCEPT ![p] = [Idle EXCEPT !.at = "dead"]]
  PROVE  proc' \in [Procs -> Calls] /\ Fits'
<1>1. PICK c : /\ proc' = [proc EXCEPT ![p] = c]
               /\ \/ c = Idle \/ \E f \in BOOLEAN : c = [Idle EXCEPT !.failed = f]
                  \/ c = [Idle EXCEPT !.at = "dead"]
  BY DEF Returns, Fails
<1>2. Idle \in Calls
  BY DEF Idle, Calls
<1>3. ASSUME NEW f \in BOOLEAN, c = [Idle EXCEPT !.failed = f] PROVE c \in Calls
  BY <1>3 DEF Idle, Calls
<1>4. [Idle EXCEPT !.at = "dead"] \in Calls
  BY DEF Idle, Calls
<1>5. c.at \in {"idle", "dead"}
  BY <1>1 DEF Idle
<1>6. c \in Calls /\ Fit(c)
  BY <1>1, <1>2, <1>3, <1>4, <1>5 DEF Fit
<1> QED BY <1>1, <1>6, Replaced

\* Empty takes the whole directory or nothing.
LEMMA Listing ==
  ASSUME NEW names \in SUBSET Names, NEW dir \in ReadDir(names)
  PROVE  /\ dir.list \subseteq Names /\ dir.harm \in BOOLEAN
         /\ ~dir.harm => dir.list = names
<1>1. dir = [list |-> names, harm |-> FALSE] \/ dir = [list |-> {}, harm |-> TRUE]
  BY DEF ReadDir
<1>2. CASE dir = [list |-> names, harm |-> FALSE]
  <2>1. dir.list = names /\ dir.harm = FALSE
    BY <1>2
  <2> QED BY <2>1
<1>3. CASE dir = [list |-> {}, harm |-> TRUE]
  <2>1. dir.list = {} /\ dir.harm = TRUE
    BY <1>3
  <2> QED BY <2>1
<1> QED BY <1>1, <1>2, <1>3

LEMMA InitShape == ASSUME Distinct PROVE Init => Shape
<1> SUFFICES ASSUME Init PROVE Shape
  OBVIOUS
<1>1. Idle \in Calls
  BY DEF Idle, Calls
<1>2. proc \in [Procs -> Calls] /\ Fits
  BY <1>1 DEF Init, Fits, Sweeping, Idle
<1>3. TypeOK
  BY <1>2, 0 \in 0..MaxFiles, 0 \in 0..MaxCalls DEF Init, TypeOK, Calls, Distinct
<1> QED BY <1>2, <1>3 DEF Shape

LEMMA NextShape == ASSUME Distinct, Shape, [Next]_vars PROVE Shape'
<1> DEFINE Rest == /\ proc' \in [Procs -> Calls] /\ Fits'
<1> USE DEF Local, disk, history
<1>0. ASSUME Rest,
             fs' \in [Paths -> 1..MaxFiles \cup {None}],
             files' \in [Names -> [file : 1..MaxFiles, from : Paths] \cup {None}],
             info' \in [Names -> Paths \cup {None, Blank}],
             created' \in 0..MaxFiles, calls' \in 0..MaxCalls,
             spoiled' \in BOOLEAN, (replaced \cup cleared)' \subseteq 1..MaxFiles
      PROVE Shape'
  BY <1>0 DEF Shape, TypeOK, Calls
<1>a. /\ fs \in [Paths -> 1..MaxFiles \cup {None}]
      /\ files \in [Names -> [file : 1..MaxFiles, from : Paths] \cup {None}]
      /\ info \in [Names -> Paths \cup {None, Blank}]
      /\ created \in 0..MaxFiles /\ calls \in 0..MaxCalls
      /\ spoiled \in BOOLEAN /\ replaced \cup cleared \subseteq 1..MaxFiles
      /\ proc \in [Procs -> Calls] /\ Fits
  BY DEF Shape, TypeOK, Calls
<1>1. ASSUME NEW p \in Procs, NEW path \in Paths, PutBegin(p, path) PROVE Shape'
  <2> DEFINE c == [Idle EXCEPT !.op = "put", !.at = "pick", !.path = path, !.name = 1]
  <2>1. proc' = [proc EXCEPT ![p] = c] /\ calls' = calls + 1 /\ calls < MaxCalls
    BY <1>1 DEF PutBegin, Begin
  <2>0. 1 \in Names
    BY <1>a, <2>1 DEF Names, Distinct
  <2>2. c \in Calls /\ Fit(c)
    BY <2>0 DEF Idle, Calls, Fit
  <2>3. Rest
    BY <2>1, <2>2, Replaced
  <2> QED BY <1>0, <1>a, <1>1, <2>1, <2>3 DEF PutBegin, Begin, Distinct
<1>2. ASSUME NEW p \in Procs, PickName(p) PROVE Shape'
  <2>1. CASE Goto(p, "claim")
    BY <1>0, <1>a, <1>2, <2>1, Moved DEF PickName
  <2>2. CASE /\ proc[p].name + 1 \in Names
             /\ proc' = [proc EXCEPT ![p] = [proc[p] EXCEPT !.name = @ + 1]]
    <3>1. [proc[p] EXCEPT !.name = @ + 1] \in Calls /\ Fit([proc[p] EXCEPT !.name = @ + 1])
      BY <1>a, <2>2 DEF Calls, Fit, Fits, Sweeping
    <3>2. Rest
      BY <2>2, <3>1, Replaced
    <3> QED BY <1>0, <1>a, <1>2, <3>2 DEF PickName
  <2> QED BY <1>2, <2>1, <2>2 DEF PickName
<1>3. ASSUME NEW p \in Procs, CreateInfo(p) PROVE Shape'
  <2>1. CASE Goto(p, "write")
    BY <1>0, <1>a, <1>3, <2>1, Moved DEF CreateInfo
  <2>2. CASE Fails(p)
    BY <1>0, <1>a, <1>3, <2>2, Ended DEF CreateInfo
  <2> QED BY <1>3, <2>1, <2>2 DEF CreateInfo
<1>4. ASSUME NEW p \in Procs, WriteInfo(p) \/ WriteInfoFails(p) PROVE Shape'
  <2>1. CASE WriteInfo(p)
    <3>1. Rest
      BY <2>1, Moved DEF WriteInfo
    <3>2. proc[p].name \in Names /\ proc[p].path \in Paths
      BY <1>a, <2>1 DEF WriteInfo, Fits
    <3> QED BY <1>0, <1>a, <2>1, <3>1, <3>2 DEF WriteInfo
  <2>2. CASE WriteInfoFails(p)
    BY <1>0, <1>a, <2>2, Ended DEF WriteInfoFails
  <2> QED BY <1>4, <2>1, <2>2
<1>5. ASSUME NEW p \in Procs, MoveIn(p) \/ MoveInFails(p) PROVE Shape'
  <2>1. CASE MoveIn(p)
    <3>1. Rest
      BY <2>1, Ended DEF MoveIn
    <3>2. proc[p].name \in Names /\ proc[p].path \in Paths
      BY <1>a, <2>1 DEF MoveIn, Fits
    <3>3. fs[proc[p].path] \in 1..MaxFiles
      BY <1>a, <2>1, <3>2 DEF MoveIn
    <3> QED BY <1>0, <1>a, <2>1, <3>1, <3>2, <3>3 DEF MoveIn
  <2>2. CASE MoveInFails(p)
    BY <1>0, <1>a, <2>2, Moved DEF MoveInFails
  <2> QED BY <1>5, <2>1, <2>2
<1>6. ASSUME NEW p \in Procs, UndoInfo(p) \/ DropInfo(p) PROVE Shape'
  <2>1. Rest
    BY <1>6, Ended DEF UndoInfo, DropInfo
  <2> QED BY <1>0, <1>a, <1>6, <2>1 DEF UndoInfo, DropInfo, RemoveInfo
<1>7. ASSUME NEW p \in Procs, NEW n \in Names, RestoreBegin(p, n) PROVE Shape'
  <2> DEFINE c == [Idle EXCEPT !.op = "restore", !.at = "check", !.path = info[n], !.name = n]
  <2>1. proc' = [proc EXCEPT ![p] = c] /\ calls' = calls + 1 /\ calls < MaxCalls /\ info[n] \in Paths
    BY <1>a, <1>7 DEF RestoreBegin, Begin
  <2>2. c \in Calls /\ Fit(c)
    BY <2>1 DEF Idle, Calls, Fit
  <2>3. Rest
    BY <2>1, <2>2, Replaced
  <2> QED BY <1>0, <1>a, <1>7, <2>1, <2>3 DEF RestoreBegin, Begin, Distinct
<1>8. ASSUME NEW p \in Procs, CheckTarget(p) PROVE Shape'
  <2>1. Rest
    BY <1>8, Moved, Ended DEF CheckTarget
  <2> QED BY <1>0, <1>a, <1>8, <2>1 DEF CheckTarget
<1>9. ASSUME NEW p \in Procs, MoveBack(p) \/ MoveBackFails(p) PROVE Shape'
  <2>1. CASE MoveBack(p)
    <3>1. Rest
      BY <2>1, Moved DEF MoveBack
    <3>2. proc[p].name \in Names /\ proc[p].path \in Paths
      BY <1>a, <2>1 DEF MoveBack, Fits
    <3>3. files[proc[p].name].file \in 1..MaxFiles
      BY <1>a, <2>1, <3>2 DEF MoveBack
    <3> QED BY <1>0, <1>a, <2>1, <3>1, <3>2, <3>3 DEF MoveBack
  <2>2. CASE MoveBackFails(p)
    BY <1>0, <1>a, <2>2, Ended DEF MoveBackFails
  <2> QED BY <1>9, <2>1, <2>2
<1>10. ASSUME NEW p \in Procs, EmptyBegin(p) PROVE Shape'
  <2>1. PICK dir \in ReadDir(WithFile) :
          Begin(p, [Idle EXCEPT !.op = "empty", !.at = "files", !.todo = dir.list], dir.harm)
    BY <1>10 DEF EmptyBegin
  <2> DEFINE c == [Idle EXCEPT !.op = "empty", !.at = "files", !.todo = dir.list]
  <2>2. dir.list \subseteq Names /\ dir.harm \in BOOLEAN
    BY Listing DEF WithFile
  <2>3. c \in Calls /\ Fit(c)
    BY <2>2 DEF Idle, Calls, Fit
  <2>4. Rest
    BY <2>1, <2>3, Replaced DEF Begin
  <2> QED BY <1>0, <1>a, <2>1, <2>2, <2>4 DEF Begin, Distinct
<1>11. ASSUME NEW p \in Procs, NextPass(p) \/ EmptyEnds(p) PROVE Shape'
  <2>1. CASE NextPass(p)
    <3>1. PICK dir \in ReadDir(WithInfo) :
            /\ proc' = [proc EXCEPT ![p] = [proc[p] EXCEPT !.at = "info", !.todo = dir.list]]
            /\ spoiled' = (spoiled \/ dir.harm)
      BY <2>1 DEF NextPass
    <3> DEFINE c == [proc[p] EXCEPT !.at = "info", !.todo = dir.list]
    <3>2. dir.list \subseteq Names /\ dir.harm \in BOOLEAN
      BY Listing DEF WithInfo
    <3>3. c \in Calls /\ Fit(c)
      BY <1>a, <2>1, <3>2 DEF NextPass, Calls, Fit, Fits, Sweeping
    <3>4. Rest
      BY <3>1, <3>3, Replaced
    <3> QED BY <1>0, <1>a, <2>1, <3>1, <3>2, <3>4 DEF NextPass
  <2>2. CASE EmptyEnds(p)
    <3>1. proc[p].failed \in BOOLEAN
      BY <1>a DEF Calls
    <3>2. Rest
      BY <2>2, <3>1, Ended DEF EmptyEnds
    <3> QED BY <1>0, <1>a, <2>2, <3>2 DEF EmptyEnds
  <2> QED BY <1>11, <2>1, <2>2
<1>12. ASSUME NEW p \in Procs, NEW n \in Names, RemoveOne(p, n) \/ RemoveFails(p, n) PROVE Shape'
  <2>1. PICK f \in BOOLEAN : proc' = [proc EXCEPT ![p] = [proc[p] EXCEPT !.todo = @ \ {n}, !.failed = f]]
    <3>1. CASE RemoveOne(p, n)
      <4>1. proc[p].failed \in BOOLEAN
        BY <1>a DEF Calls
      <4>2. [proc[p] EXCEPT !.todo = @ \ {n}] = [proc[p] EXCEPT !.todo = @ \ {n}, !.failed = proc[p].failed]
        BY <1>a DEF Calls
      <4> QED BY <3>1, <4>1, <4>2 DEF RemoveOne
    <3>2. CASE RemoveFails(p, n)
      BY <1>a, <3>2 DEF RemoveFails
    <3> QED BY <1>12, <3>1, <3>2
  <2> DEFINE c == [proc[p] EXCEPT !.todo = @ \ {n}, !.failed = f]
  <2>2. c \in Calls /\ Fit(c)
    BY <1>a DEF Calls, Fit, Fits, Sweeping
  <2>3. Rest
    BY <2>1, <2>2, Replaced
  <2>4. files[n] # None => files[n].file \in 1..MaxFiles
    BY <1>a
  <2> QED BY <1>0, <1>a, <1>12, <2>3, <2>4 DEF RemoveOne, RemoveFails
<1>13. ASSUME NEW p \in Procs, Die(p) PROVE Shape'
  BY <1>0, <1>a, <1>13, Ended DEF Die
<1>14. ASSUME NEW path \in Paths, UserCreates(path) PROVE Shape'
  BY <1>0, <1>a, <1>14 DEF UserCreates, Fits, Sweeping, Distinct
<1>15. CASE UNCHANGED vars
  BY <1>0, <1>a, <1>15 DEF vars, Fits, Sweeping
<1> QED BY <1>1, <1>2, <1>3, <1>4, <1>5, <1>6, <1>7, <1>8, <1>9, <1>10, <1>11, <1>12, <1>13, <1>14, <1>15
        DEF Next, Step

-----------------------------------------------------------------------------
\* What each process is after one of them moved.
LEMMA Others ==
  ASSUME Shape, NEW p \in Procs, NEW c, proc' = [proc EXCEPT ![p] = c]
  PROVE  proc'[p] = c /\ \A q \in Procs \ {p} : proc'[q] = proc[q]
BY DEF Shape, TypeOK

\* Empty has the trash for itself.
LEMMA Busy ==
  ASSUME Safe, NEW p \in Procs, proc[p].at \notin {"idle", "dead"}
  PROVE  \A q \in Procs \ {p} : ~Sweeping(q)
BY DEF Safe, Alone

LEMMA BeginsAlone ==
  ASSUME Shape, NEW p \in Procs, NEW call, NEW harm, Begin(p, call, harm), ~spoiled'
  PROVE  \A q \in Procs : /\ ~Sweeping(q)
                          /\ call.op = "empty" => proc[q].at \in {"idle", "dead"}
<1>1. Running = {} \/ "empty" \notin {call.op} \cup {proc[q].op : q \in Running}
  BY DEF Begin
<1>2. \A q \in Procs : Sweeping(q) => q \in Running /\ proc[q].op = "empty"
  BY DEF Sweeping, Running, Shape, Fits
<1> QED BY <1>1, <1>2 DEF Running

\* A step that changes nothing in the trash and claims nothing.
LEMMA Quiet ==
  ASSUME Shape, Safe, NEW p \in Procs, NEW c, proc' = [proc EXCEPT ![p] = c],
         c.at \notin {"write", "move", "undo", "drop", "files", "info"},
         c.at \in {"idle", "dead"} \/ \A q \in Procs \ {p} : ~Sweeping(q),
         UNCHANGED <<fs, files, info, created, replaced, cleared>>
  PROVE  Safe'
<1>1. proc'[p] = c /\ \A q \in Procs \ {p} : proc'[q] = proc[q]
  BY Others
<1>2. \A q \in Procs : Holds(q)' => q # p /\ Holds(q)
  BY <1>1 DEF Holds
<1>3. Own' /\ Claimed'
  BY <1>1, <1>2 DEF Safe, Own, Claimed
<1>4. Lists' /\ Kept'
  BY DEF Safe, Lists, Kept, Has
<1>5. Alone'
  BY <1>1 DEF Safe, Alone, Sweeping
<1>6. Swept'
  BY <1>1 DEF Safe, Swept
<1> QED BY <1>3, <1>4, <1>5, <1>6 DEF Safe

\* A holder goes on, with the same name.
LEMMA HoldsOn ==
  ASSUME Shape, Safe, NEW p \in Procs, Holds(p), NEW at \in {"move", "undo"}, Goto(p, at)
  PROVE  /\ proc'[p].name = proc[p].name /\ proc'[p].path = proc[p].path /\ proc'[p].at = at
         /\ \A q \in Procs \ {p} : proc'[q] = proc[q]
         /\ Own' /\ Alone' /\ \A q \in Procs : ~Sweeping(q) /\ ~Sweeping(q)'
<1>1. proc[p] \in Calls /\ proc' = [proc EXCEPT ![p] = [proc[p] EXCEPT !.at = at]]
  BY DEF Goto, Shape, TypeOK, Calls
<1>2. /\ proc'[p].name = proc[p].name /\ proc'[p].path = proc[p].path /\ proc'[p].at = at
      /\ \A q \in Procs \ {p} : proc'[q] = proc[q]
  <2>1. proc'[p] = [proc[p] EXCEPT !.at = at] /\ \A q \in Procs \ {p} : proc'[q] = proc[q]
    BY <1>1, Others
  <2> QED BY <1>1, <2>1 DEF Calls
<1>3. \A q \in Procs : Holds(q)' => Holds(q)
  BY <1>2 DEF Holds
<1>4. Own'
  BY <1>2, <1>3 DEF Safe, Own
<1>5. \A q \in Procs : ~Sweeping(q) /\ ~Sweeping(q)'
  BY <1>2, Busy DEF Sweeping, Holds
<1> QED BY <1>2, <1>4, <1>5 DEF Alone

\* A call that gives up its name takes the info file with it.
LEMMA LetsGo ==
  ASSUME Distinct, Shape, Safe, NEW p \in Procs, RemoveInfo(p, proc[p].at), proc[p].at \in {"undo", "drop"},
         Returns(p) \/ Fails(p), UNCHANGED <<created, replaced, cleared>>
  PROVE  Safe'
<1> DEFINE n == proc[p].name
<1>1. /\ proc'[p].at = "idle" /\ \A q \in Procs \ {p} : proc'[q] = proc[q]
  BY Others DEF Returns, Fails, Idle
<1>2. /\ n \in Names /\ files[n] = None /\ files' = files /\ fs' = fs
      /\ info'[n] = None /\ \A m \in Names \ {n} : info'[m] = info[m]
  BY DEF RemoveInfo, Shape, TypeOK, Fits, Safe, Claimed, Holds
<1>3. \A q \in Procs : Holds(q)' => q # p /\ Holds(q) /\ proc[q].name # n /\ proc[q].name \in Names
  BY <1>1 DEF Holds, Safe, Own, Shape, Fits
<1>4. \A q \in Procs : ~Sweeping(q)' /\ ~Sweeping(q)
  BY <1>1, Busy DEF Sweeping
<1>5. Own' /\ Claimed'
  BY <1>1, <1>2, <1>3 DEF Own, Claimed, Safe
<1>6. Lists' /\ Kept'
  BY <1>2 DEF Lists, Kept, Has, Safe
<1>7. Alone' /\ Swept'
  BY <1>4 DEF Alone, Swept, Sweeping
<1> QED BY <1>5, <1>6, <1>7 DEF Safe

-----------------------------------------------------------------------------
LEMMA PutSafe ==
  ASSUME Distinct, Shape, Safe, NEW p \in Procs,
         CreateInfo(p) \/ WriteInfo(p) \/ MoveIn(p) \/ MoveInFails(p)
  PROVE  Safe'
<1> USE DEF Local, disk, history
<1> DEFINE n == proc[p].name
<1>1. /\ proc \in [Procs -> Calls] /\ n \in Names /\ proc[p].path \in Paths
      /\ files \in [Names -> [file : 1..MaxFiles, from : Paths] \cup {None}]
      /\ info \in [Names -> Paths \cup {None, Blank}]
      /\ fs \in [Paths -> 1..MaxFiles \cup {None}]
      /\ \A q \in Procs : Holds(q) => proc[q].name \in Names
  BY DEF CreateInfo, WriteInfo, MoveIn, MoveInFails, Shape, TypeOK, Fits, Calls, Holds
<1>2. CASE CreateInfo(p) /\ ClaimFree(n)
  <2>1. /\ proc'[p].at = "write" /\ proc'[p].name = n
        /\ \A q \in Procs \ {p} : proc'[q] = proc[q]
    <3>1. proc'[p] = [proc[p] EXCEPT !.at = "write"] /\ \A q \in Procs \ {p} : proc'[q] = proc[q]
      BY <1>2, Others DEF CreateInfo, Goto
    <3> QED BY <1>1, <3>1 DEF Calls
  <2>2. /\ info[n] = None /\ files[n] = None /\ info'[n] = Blank /\ files' = files /\ fs' = fs
        /\ \A m \in Names \ {n} : info'[m] = info[m]
    BY <1>1, <1>2 DEF CreateInfo, ClaimFree, Safe, Lists, Distinct
  <2>3. \A q \in Procs \ {p} : Holds(q) => proc[q].name # n
    BY <2>2 DEF Safe, Claimed
  <2>4. \A q \in Procs : ~Sweeping(q) /\ ~Sweeping(q)'
    BY <1>2, <2>1, Busy DEF CreateInfo, Sweeping
  <2>5. Own'
    BY <2>1, <2>3 DEF Own, Safe, Holds
  <2>6. Claimed'
    BY <1>1, <2>1, <2>2, <2>3 DEF Claimed, Safe, Holds, Distinct
  <2>7. Lists' /\ Kept'
    BY <1>2, <2>2 DEF Lists, Kept, Has, Safe, CreateInfo
  <2>8. Alone' /\ Swept'
    BY <2>4 DEF Alone, Swept, Sweeping
  <2> QED BY <2>5, <2>6, <2>7, <2>8 DEF Safe
<1>3. CASE CreateInfo(p) /\ Fails(p) /\ UNCHANGED info
  <2>1. [Idle EXCEPT !.failed = TRUE].at = "idle"
    BY DEF Idle
  <2> QED BY <1>3, <2>1, Quiet DEF CreateInfo, Fails
<1>4. CASE WriteInfo(p)
  <2>1. /\ proc'[p].name = n /\ proc'[p].path = proc[p].path /\ proc'[p].at = "move"
        /\ \A q \in Procs \ {p} : proc'[q] = proc[q]
        /\ Own' /\ Alone' /\ \A q \in Procs : ~Sweeping(q) /\ ~Sweeping(q)'
    BY <1>4, HoldsOn DEF WriteInfo, Holds
  <2>2. info[n] # None /\ files[n] = None
    BY <1>4 DEF WriteInfo, Holds, Safe, Claimed
  <2>3. /\ info'[n] = proc[p].path /\ files' = files /\ fs' = fs
        /\ \A m \in Names \ {n} : info'[m] = info[m]
    BY <1>1, <1>4, <2>2 DEF WriteInfo
  <2>4. \A q \in Procs \ {p} : Holds(q) => proc[q].name # n
    BY <1>4 DEF Safe, Own, WriteInfo, Holds
  <2>5. Claimed'
    BY <1>1, <2>1, <2>2, <2>3, <2>4 DEF Claimed, Safe, Holds, Distinct
  <2>6. Lists' /\ Kept'
    BY <1>4, <2>2, <2>3 DEF Lists, Kept, Has, Safe, WriteInfo
  <2>7. Swept'
    BY <2>1 DEF Swept, Sweeping
  <2> QED BY <2>1, <2>5, <2>6, <2>7 DEF Safe
<1>5. CASE MoveIn(p)
  <2>1. proc'[p].at = "idle" /\ \A q \in Procs \ {p} : proc'[q] = proc[q]
    BY <1>5, Others, Idle.at = "idle" DEF MoveIn, Returns, Idle
  <2>2. files[n] = None /\ info[n] = proc[p].path
    BY <1>5 DEF MoveIn, Holds, Safe, Claimed
  <2>3. /\ files'[n] = [file |-> fs[proc[p].path], from |-> proc[p].path] /\ info' = info
        /\ \A m \in Names \ {n} : files'[m] = files[m]
        /\ \A path \in Paths \ {proc[p].path} : fs'[path] = fs[path]
    BY <1>1, <1>5 DEF MoveIn
  <2>4. \A q \in Procs \ {p} : Holds(q) => proc[q].name # n
    BY <1>5 DEF Safe, Own, MoveIn, Holds
  <2>5. \A q \in Procs : ~Sweeping(q) /\ ~Sweeping(q)'
    BY <1>5, <2>1, Busy DEF MoveIn, Sweeping
  <2>6. Own' /\ Claimed'
    BY <1>1, <2>1, <2>3, <2>4 DEF Own, Claimed, Safe, Holds
  <2>7. Lists'
    BY <2>2, <2>3 DEF Lists, Safe
  <2>8. files'[n] # None /\ files'[n].file = fs[proc[p].path]
    <3>1. files'[n] \in [file : Nat, from : Paths]
      BY <1>1, <1>5, <2>3 DEF MoveIn, Distinct
    <3> QED BY <2>3, <3>1 DEF Distinct
  <2>9. Kept'
    <3>1. ASSUME NEW f \in 1..created, Has(f) PROVE Has(f)'
      <4>1. CASE f = fs[proc[p].path]
        BY <1>1, <2>8, <4>1 DEF Has
      <4>2. CASE \E path \in Paths \ {proc[p].path} : fs[path] = f
        BY <2>3, <4>2 DEF Has
      <4>3. CASE \E m \in Names : files[m] # None /\ files[m].file = f
        BY <2>2, <2>3, <4>3 DEF Has
      <4>4. CASE f \in replaced \/ f \in cleared
        BY <1>5, <4>4 DEF Has, MoveIn
      <4> QED BY <3>1, <4>1, <4>2, <4>3, <4>4 DEF Has
    <3> QED BY <1>5, <3>1 DEF Kept, Safe, MoveIn
  <2>10. Alone' /\ Swept'
    BY <2>5 DEF Alone, Swept, Sweeping
  <2> QED BY <2>6, <2>7, <2>9, <2>10 DEF Safe
<1>6. CASE MoveInFails(p)
  <2>1. /\ proc'[p].name = n /\ proc'[p].at = "undo" /\ \A q \in Procs \ {p} : proc'[q] = proc[q]
        /\ Own' /\ Alone' /\ \A q \in Procs : ~Sweeping(q) /\ ~Sweeping(q)'
    BY <1>6, HoldsOn DEF MoveInFails, Holds
  <2>2. Claimed'
    BY <1>6, <2>1 DEF Claimed, Safe, Holds, MoveInFails
  <2>3. Lists' /\ Kept' /\ Swept'
    BY <1>6, <2>1 DEF Lists, Kept, Has, Swept, Sweeping, Safe, MoveInFails
  <2> QED BY <2>1, <2>2, <2>3 DEF Safe
<1> QED BY <1>2, <1>3, <1>4, <1>5, <1>6 DEF CreateInfo

LEMMA RestoreSafe ==
  ASSUME Distinct, Shape, Safe, NEW p \in Procs, MoveBack(p)
  PROVE  Safe'
<1> USE DEF Local, disk, history
<1> DEFINE n == proc[p].name  to == proc[p].path
<1>1. /\ proc \in [Procs -> Calls] /\ n \in Names /\ to \in Paths
      /\ files \in [Names -> [file : 1..MaxFiles, from : Paths] \cup {None}]
      /\ fs \in [Paths -> 1..MaxFiles \cup {None}]
      /\ \A q \in Procs : Holds(q) => proc[q].name \in Names
  BY DEF MoveBack, Shape, TypeOK, Fits, Calls, Holds
<1>2. /\ proc'[p].at = "drop" /\ proc'[p].name = n /\ \A q \in Procs \ {p} : proc'[q] = proc[q]
  <2>1. proc'[p] = [proc[p] EXCEPT !.at = "drop"] /\ \A q \in Procs \ {p} : proc'[q] = proc[q]
    BY Others DEF MoveBack, Goto
  <2> QED BY <1>1, <2>1 DEF Calls
<1>3. /\ files[n] # None /\ files'[n] = None /\ info' = info
      /\ \A m \in Names \ {n} : files'[m] = files[m]
      /\ fs'[to] = files[n].file /\ \A path \in Paths \ {to} : fs'[path] = fs[path]
      /\ replaced' = replaced \cup ({fs[to]} \ {None})
      /\ created' = created /\ cleared' = cleared
  BY <1>1 DEF MoveBack
<1>4. info[n] \in Paths /\ None \notin Paths
  BY <1>1, <1>3 DEF Safe, Lists, Distinct
<1>5. \A q \in Procs : Holds(q) => proc[q].name # n
  BY <1>3 DEF Safe, Claimed
<1>6. \A q \in Procs : ~Sweeping(q) /\ ~Sweeping(q)'
  BY <1>2, Busy DEF MoveBack, Sweeping
<1>7. Own' /\ Claimed'
  BY <1>1, <1>2, <1>3, <1>4, <1>5 DEF Own, Claimed, Safe, Holds
<1>8. Lists'
  BY <1>3 DEF Lists, Safe
<1>9. ASSUME NEW f \in 1..created, Has(f) PROVE Has(f)'
  <2>1. f # None
    BY <1>9 DEF Distinct, Shape, TypeOK
  <2>2. CASE f = fs[to]
    BY <1>3, <2>1, <2>2 DEF Has
  <2>3. CASE \E path \in Paths \ {to} : fs[path] = f
    BY <1>3, <2>3 DEF Has
  <2>4. CASE f = files[n].file
    BY <1>1, <1>3, <2>4 DEF Has
  <2>5. CASE \E m \in Names \ {n} : files[m] # None /\ files[m].file = f
    BY <1>3, <2>5 DEF Has
  <2>6. CASE f \in replaced \/ f \in cleared
    BY <1>3, <2>6 DEF Has
  <2> QED BY <1>9, <2>2, <2>3, <2>4, <2>5, <2>6 DEF Has
<1>10. Kept'
  BY <1>3, <1>9 DEF Kept, Safe
<1>11. Alone' /\ Swept'
  BY <1>6 DEF Alone, Swept, Sweeping
<1> QED BY <1>7, <1>8, <1>10, <1>11 DEF Safe

-----------------------------------------------------------------------------
\* While p sweeps, nobody else is at work.
LEMMA SweepsAlone ==
  ASSUME Safe, NEW p \in Procs, Sweeping(p), NEW c, proc'[p] = c,
         \A q \in Procs \ {p} : proc'[q] = proc[q], c.at \in {"files", "info", "idle"}
  PROVE  /\ \A q \in Procs \ {p} : ~Sweeping(q) /\ ~Sweeping(q)'
         /\ \A q \in Procs : ~Holds(q) /\ ~Holds(q)'
         /\ Alone' /\ Own'
BY DEF Safe, Alone, Own, Sweeping, Holds

LEMMA EmptySafe ==
  ASSUME Distinct, Shape, Safe, NEW p \in Procs, ~spoiled, ~spoiled',
         \/ EmptyBegin(p) \/ NextPass(p) \/ EmptyEnds(p)
         \/ \E n \in Names : RemoveOne(p, n) \/ RemoveFails(p, n)
  PROVE  Safe'
<1> USE DEF Local, disk, history
<1>1. /\ proc \in [Procs -> Calls] /\ proc[p] \in Calls
      /\ files \in [Names -> [file : 1..MaxFiles, from : Paths] \cup {None}]
      /\ info \in [Names -> Paths \cup {None, Blank}]
  BY DEF Shape, TypeOK, Calls
<1>2. CASE EmptyBegin(p)
  <2>1. PICK dir \in ReadDir(WithFile) :
          Begin(p, [Idle EXCEPT !.op = "empty", !.at = "files", !.todo = dir.list], dir.harm)
    BY <1>2 DEF EmptyBegin
  <2> DEFINE c == [Idle EXCEPT !.op = "empty", !.at = "files", !.todo = dir.list]
  <2>2. c.op = "empty" /\ c.at = "files" /\ c.todo = dir.list
    BY DEF Idle
  <2> HIDE DEF c
  <2>3. proc'[p] = c /\ \A q \in Procs \ {p} : proc'[q] = proc[q]
    BY <2>1, Others DEF Begin, c
  <2>4. \A q \in Procs : ~Sweeping(q) /\ proc[q].at \in {"idle", "dead"}
    BY <2>1, <2>2, BeginsAlone DEF c
  <2>5. dir.list = {n \in Names : files[n] # None}
    BY <2>1, Listing DEF Begin, WithFile
  <2>6. Own' /\ Claimed' /\ Alone'
    BY <2>2, <2>3, <2>4 DEF Own, Claimed, Alone, Holds, Sweeping
  <2>7. Lists' /\ Kept'
    BY <2>1 DEF Begin, Lists, Kept, Has, Safe
  <2>8. Swept'
    BY <2>1, <2>2, <2>3, <2>4, <2>5 DEF Begin, Swept, Safe
  <2> QED BY <2>6, <2>7, <2>8 DEF Safe
<1>3. CASE NextPass(p)
  <2>1. PICK dir \in ReadDir(WithInfo) :
          /\ proc' = [proc EXCEPT ![p] = [proc[p] EXCEPT !.at = "info", !.todo = dir.list]]
          /\ spoiled' = (spoiled \/ dir.harm)
    BY <1>3 DEF NextPass
  <2>2. dir.list = {n \in Names : info[n] # None}
    BY <2>1, Listing DEF WithInfo
  <2> DEFINE c == [proc[p] EXCEPT !.at = "info", !.todo = dir.list]
  <2>3. c.at = "info" /\ c.todo = dir.list
    BY <1>1 DEF Calls
  <2> HIDE DEF c
  <2>4. proc'[p] = c /\ \A q \in Procs \ {p} : proc'[q] = proc[q]
    BY <2>1, Others DEF c
  <2>5. /\ \A q \in Procs \ {p} : ~Sweeping(q) /\ ~Sweeping(q)'
        /\ \A q \in Procs : ~Holds(q) /\ ~Holds(q)'
        /\ Alone' /\ Own'
    BY <1>3, <2>3, <2>4, SweepsAlone DEF NextPass, Sweeping
  <2>6. \A n \in Names : files[n] = None
    BY <1>3 DEF NextPass, Safe, Swept
  <2>7. Claimed' /\ Lists' /\ Kept'
    BY <1>3, <2>5 DEF NextPass, Claimed, Lists, Kept, Has, Safe
  <2>8. Swept'
    BY <1>3, <2>2, <2>3, <2>4, <2>5, <2>6 DEF NextPass, Swept, Sweeping
  <2> QED BY <2>5, <2>7, <2>8 DEF Safe
<1>4. CASE EmptyEnds(p)
  <2>1. [Idle EXCEPT !.failed = proc[p].failed].at = "idle"
    BY DEF Idle
  <2> QED BY <1>4, <2>1, Quiet DEF EmptyEnds
<1>5. ASSUME NEW n \in Names, RemoveOne(p, n) \/ RemoveFails(p, n) PROVE Safe'
  <2>1. PICK c : /\ proc' = [proc EXCEPT ![p] = c]
                 /\ c.at = proc[p].at /\ c.todo = proc[p].todo \ {n} /\ (proc[p].failed => c.failed)
                 /\ RemoveOne(p, n) \/ (RemoveFails(p, n) /\ c.failed)
    <3>1. CASE RemoveOne(p, n)
      <4> DEFINE d == [proc[p] EXCEPT !.todo = @ \ {n}]
      <4>1. proc' = [proc EXCEPT ![p] = d]
        BY <1>1, <3>1 DEF RemoveOne
      <4>2. d.at = proc[p].at /\ d.todo = proc[p].todo \ {n} /\ d.failed = proc[p].failed
        BY <1>1 DEF Calls
      <4> QED BY <3>1, <4>1, <4>2
    <3>2. CASE RemoveFails(p, n)
      <4> DEFINE d == [proc[p] EXCEPT !.todo = @ \ {n}, !.failed = TRUE]
      <4>1. proc' = [proc EXCEPT ![p] = d]
        BY <1>1, <3>2 DEF RemoveFails
      <4>2. d.at = proc[p].at /\ d.todo = proc[p].todo \ {n} /\ d.failed
        BY <1>1 DEF Calls
      <4> QED BY <3>2, <4>1, <4>2
    <3> QED BY <1>5, <3>1, <3>2
  <2>2. proc'[p] = c /\ \A q \in Procs \ {p} : proc'[q] = proc[q]
    BY <2>1, Others
  <2>3. Sweeping(p)
    BY <1>5 DEF RemoveOne, RemoveFails, Sweeping
  <2>4. /\ \A q \in Procs \ {p} : ~Sweeping(q) /\ ~Sweeping(q)'
        /\ \A q \in Procs : ~Holds(q) /\ ~Holds(q)'
        /\ Alone' /\ Own'
    BY <2>1, <2>2, <2>3, SweepsAlone DEF Sweeping
  <2>5. Claimed'
    BY <2>4 DEF Claimed
  <2>6. CASE proc[p].at = "files"
    <3>1. /\ files'[n] = None /\ \A m \in Names \ {n} : files'[m] = files[m]
          /\ cleared' = cleared \cup (IF files[n] = None THEN {} ELSE {files[n].file})
          /\ UNCHANGED <<fs, info, created, replaced>>
      BY <1>1, <1>5, <2>6 DEF RemoveOne, RemoveFails
    <3>2. Lists'
      BY <3>1 DEF Lists, Safe
    <3>3. ASSUME NEW f \in 1..created, Has(f) PROVE Has(f)'
      <4>1. CASE files[n] # None /\ files[n].file = f
        BY <3>1, <4>1 DEF Has
      <4>2. CASE \E m \in Names \ {n} : files[m] # None /\ files[m].file = f
        BY <3>1, <4>2 DEF Has
      <4> QED BY <3>1, <3>3, <4>1, <4>2 DEF Has
    <3>4. Kept'
      BY <3>1, <3>3 DEF Kept, Safe
    <3>5. \A m \in Names : files'[m] # None => m \in c.todo
      BY <2>1, <2>6, <3>1 DEF Swept, Safe
    <3>6. Swept'
      BY <2>1, <2>2, <2>4, <2>6, <3>5 DEF Swept, Sweeping
    <3> QED BY <2>4, <2>5, <3>2, <3>4, <3>6 DEF Safe
  <2>7. CASE proc[p].at = "info"
    <3>1. /\ UNCHANGED <<fs, files, created, replaced, cleared>>
          /\ \A m \in Names \ {n} : info'[m] = info[m]
          /\ info'[n] = None \/ c.failed
      BY <1>1, <1>5, <2>1, <2>7 DEF RemoveOne, RemoveFails
    <3>2. \A m \in Names : files[m] = None
      BY <2>7 DEF Swept, Safe
    <3>3. Lists' /\ Kept'
      BY <3>1, <3>2 DEF Lists, Kept, Has, Safe
    <3>4. \A m \in Names : info'[m] # None => m \in c.todo \/ c.failed
      BY <2>1, <2>7, <3>1 DEF Swept, Safe
    <3>5. Swept'
      BY <2>1, <2>2, <2>4, <2>7, <3>1, <3>2, <3>4 DEF Swept, Sweeping
    <3> QED BY <2>4, <2>5, <3>3, <3>5 DEF Safe
  <2> QED BY <2>3, <2>6, <2>7 DEF Sweeping
<1> QED BY <1>2, <1>3, <1>4, <1>5

-----------------------------------------------------------------------------
LEMMA InitSafe == ASSUME Distinct PROVE Init => Safe
BY DEF Init, Safe, Own, Claimed, Lists, Alone, Swept, Kept, Has, Holds, Sweeping, Idle, Distinct

\* What is spoiled stays so.
LEMMA Spoiled == ASSUME [Next]_vars, spoiled PROVE spoiled'
<1> USE DEF Local, disk, history
<1>1. ASSUME NEW p \in Procs, Step(p) PROVE spoiled'
  BY <1>1 DEF Step, Begin, PutBegin, PickName, CreateInfo, WriteInfo, WriteInfoFails, MoveIn, MoveInFails,
              UndoInfo, RestoreBegin, CheckTarget, MoveBack, MoveBackFails, DropInfo, EmptyBegin, NextPass,
              EmptyEnds, RemoveOne, RemoveFails, Die
<1>2. ASSUME NEW path \in Paths, UserCreates(path) PROVE spoiled'
  BY <1>2 DEF UserCreates
<1> QED BY <1>1, <1>2 DEF Next, vars

LEMMA NextSafe == ASSUME Distinct, Shape, Safe, [Next]_vars, ~spoiled, ~spoiled' PROVE Safe'
<1> USE DEF Local, disk, history
<1>1. ASSUME NEW p \in Procs, NEW path \in Paths, PutBegin(p, path) PROVE Safe'
  <2> DEFINE c == [Idle EXCEPT !.op = "put", !.at = "pick", !.path = path, !.name = 1]
  <2>1. c.at = "pick"
    BY DEF Idle
  <2>2. \A q \in Procs \ {p} : ~Sweeping(q)
    BY <1>1, BeginsAlone DEF PutBegin
  <2> HIDE DEF c
  <2>3. proc' = [proc EXCEPT ![p] = c] /\ UNCHANGED <<fs, files, info, created, replaced, cleared>>
    BY <1>1 DEF PutBegin, Begin, c
  <2> QED BY <2>1, <2>2, <2>3, Quiet
<1>2. ASSUME NEW p \in Procs, NEW n \in Names, RestoreBegin(p, n) PROVE Safe'
  <2> DEFINE c == [Idle EXCEPT !.op = "restore", !.at = "check", !.path = info[n], !.name = n]
  <2>1. c.at = "check"
    BY DEF Idle
  <2>2. \A q \in Procs \ {p} : ~Sweeping(q)
    BY <1>2, BeginsAlone DEF RestoreBegin
  <2> HIDE DEF c
  <2>3. proc' = [proc EXCEPT ![p] = c] /\ UNCHANGED <<fs, files, info, created, replaced, cleared>>
    BY <1>2 DEF RestoreBegin, Begin, c
  <2> QED BY <2>1, <2>2, <2>3, Quiet
\* A step of a call on the way to a name or to a free path.
<1>3. ASSUME NEW p \in Procs, PickName(p) \/ CheckTarget(p) \/ WriteInfoFails(p) \/ MoveBackFails(p) \/ Die(p)
      PROVE  Safe'
  <2>1. PICK c : /\ proc' = [proc EXCEPT ![p] = c]
                 /\ c.at \in {"idle", "dead", "pick", "claim", "back"}
    <3>1. proc[p] \in Calls
      BY DEF Shape, TypeOK, Calls
    <3>2. \A at \in {"claim", "back"} : [proc[p] EXCEPT !.at = at].at = at
      BY <3>1 DEF Calls
    <3>3. [proc[p] EXCEPT !.name = @ + 1].at = proc[p].at
      BY <3>1 DEF Calls
    <3>4. [Idle EXCEPT !.failed = TRUE].at = "idle" /\ [Idle EXCEPT !.at = "dead"].at = "dead"
      BY DEF Idle
    <3> QED BY <1>3, <3>2, <3>3, <3>4
            DEF PickName, CheckTarget, WriteInfoFails, MoveBackFails, Die, Goto, Fails
  <2>2. proc[p].at \notin {"idle", "dead"}
    BY <1>3 DEF PickName, CheckTarget, WriteInfoFails, MoveBackFails, Die, Running
  <2>3. UNCHANGED <<fs, files, info, created, replaced, cleared>>
    BY <1>3 DEF PickName, CheckTarget, WriteInfoFails, MoveBackFails, Die
  <2> QED BY <2>1, <2>2, <2>3, Busy, Quiet
<1>4. ASSUME NEW p \in Procs, UndoInfo(p) \/ DropInfo(p) PROVE Safe'
  <2>1. RemoveInfo(p, proc[p].at) /\ proc[p].at \in {"undo", "drop"}
    BY <1>4 DEF UndoInfo, DropInfo, RemoveInfo
  <2> QED BY <1>4, <2>1, LetsGo DEF UndoInfo, DropInfo
<1>5. ASSUME NEW path \in Paths, UserCreates(path) PROVE Safe'
  <2>1. Own' /\ Claimed' /\ Lists' /\ Alone' /\ Swept'
    BY <1>5 DEF UserCreates, Safe, Own, Claimed, Lists, Alone, Swept, Holds, Sweeping
  <2>2. fs'[path] = created + 1 /\ fs[path] = None /\ \A to \in Paths \ {path} : fs'[to] = fs[to]
    BY <1>5 DEF UserCreates, Shape, TypeOK
  <2>3. ASSUME NEW f \in 1..created PROVE Has(f)'
    <3>1. f # None /\ Has(f)
      BY <2>3 DEF Distinct, Shape, TypeOK, Safe, Kept
    <3> QED BY <1>5, <2>2, <3>1 DEF Has, UserCreates
  <2>4. ASSUME NEW f, f = created + 1 PROVE Has(f)'
    BY <1>5, <2>2, <2>4 DEF Has, UserCreates
  <2>5. created' = created + 1 /\ created \in Nat
    BY <1>5 DEF UserCreates, Shape, TypeOK, Distinct
  <2>6. Kept'
    BY <2>3, <2>4, <2>5 DEF Kept
  <2> QED BY <2>1, <2>6 DEF Safe
<1>6. CASE UNCHANGED vars
  BY <1>6 DEF vars, Safe, Own, Claimed, Lists, Alone, Swept, Kept, Has, Holds, Sweeping
<1> QED BY <1>1, <1>2, <1>3, <1>4, <1>5, <1>6, PutSafe, RestoreSafe, EmptySafe DEF Next, Step

LEMMA Inductive == ASSUME Distinct PROVE Spec => []IInv
<1>1. Init => IInv
  BY InitShape, InitSafe DEF IInv
<1>2. IInv /\ [Next]_vars => IInv'
  BY NextShape, NextSafe, Spoiled DEF IInv
<1> QED BY <1>1, <1>2, PTL DEF Spec

-----------------------------------------------------------------------------
\* The state keeps its shape: no call of trash.go works on a name or a path it
\* has not looked up.
THEOREM TypeCorrect == ASSUME Distinct PROVE Spec => []TypeOK
<1>1. IInv => TypeOK
  BY DEF IInv, Shape
<1> QED BY <1>1, Inductive, PTL

\* Two calls of Put and Restore never work on one name: the exclusive creation
\* of the info file decides.
THEOREM OwnNamesCorrect == ASSUME Distinct PROVE Spec => []OwnNames
<1>1. IInv => OwnNames
  BY DEF IInv, Safe, Own, OwnNames
<1> QED BY <1>1, Inductive, PTL

\* Every file in the trash can be restored to where it came from, wherever
\* Puts, Restores and Emptys failed or died (no Empty beside another call).
THEOREM RecoverableCorrect == ASSUME Distinct PROVE Spec => []Recoverable
<1>1. ASSUME IInv PROVE Recoverable
  <2>1. ASSUME ~spoiled, NEW n \in Names, files[n] # None PROVE n \in Listed /\ info[n] = files[n].from
    <3>1. info[n] = files[n].from
      BY <1>1, <2>1 DEF IInv, Safe, Lists
    <3>2. files[n].from \in Paths
      BY <1>1, <2>1 DEF IInv, Shape, TypeOK
    <3> QED BY <3>1, <3>2 DEF Listed, Distinct
  <2> QED BY <2>1 DEF Recoverable
<1> QED BY <1>1, Inductive, PTL

\* No file is lost but by Empty or by a Restore whose target was taken after
\* it had looked.
THEOREM NothingLostCorrect == ASSUME Distinct PROVE Spec => []NothingLost
<1>1. ASSUME IInv PROVE NothingLost
  <2>1. ASSUME ~spoiled, NEW f \in 1..created
        PROVE  f \in {fs[path] : path \in Paths} \cup {files[n].file : n \in {m \in Names : files[m] # None}}
                      \cup replaced \cup cleared
    <3>1. Has(f)
      BY <1>1, <2>1 DEF IInv, Safe, Kept
    <3> QED BY <3>1 DEF Has
  <2> QED BY <2>1 DEF NothingLost
<1> QED BY <1>1, Inductive, PTL

\* An Empty that had the trash for itself and reports no error leaves nothing.
THEOREM EmptyClearsCorrect == ASSUME Distinct PROVE Spec => EmptyClears
<1>1. ASSUME IInv, [Next]_vars, NEW p \in Procs,
             proc[p].at = "info", proc'[p].at = "idle", ~proc'[p].failed, ~spoiled
      PROVE  \A n \in Names : files'[n] = None /\ info'[n] = None
  <2> USE DEF Local, disk, history
  <2>1. /\ proc \in [Procs -> Calls] /\ proc[p] \in Calls
        /\ \A n \in Names : files[n] = None /\ (info[n] # None => n \in proc[p].todo \/ proc[p].failed)
    BY <1>1 DEF IInv, Shape, TypeOK, Calls, Safe, Swept
  <2>2. ASSUME NEW q \in Procs \ {p} PROVE ~Step(q)
    <3>1. proc[q].at \in {"idle", "dead"}
      BY <1>1 DEF IInv, Safe, Alone, Sweeping
    <3>2. ~Step(q) \/ \E call : proc' = [proc EXCEPT ![q] = call]
      BY <3>1 DEF Step, Begin, PutBegin, PickName, CreateInfo, WriteInfo, WriteInfoFails, MoveIn,
                  MoveInFails, UndoInfo, RestoreBegin, RemoveInfo, CheckTarget, MoveBack, MoveBackFails, DropInfo,
                  EmptyBegin, NextPass, EmptyEnds, RemoveOne, RemoveFails, Die, Running
    <3> QED BY <1>1, <2>1, <3>2
  <2>3. Step(p)
    BY <1>1, <2>2 DEF Next, UserCreates, vars
  <2>4. EmptyEnds(p)
    <3>1. \A n \in Names : ~RemoveOne(p, n) /\ ~RemoveFails(p, n)
      BY <1>1, <2>1 DEF RemoveOne, RemoveFails, Calls
    <3>2. ~Die(p)
      BY <1>1, <2>1 DEF Die, Idle
    <3> QED BY <1>1, <2>3, <3>1, <3>2
            DEF Step, Begin, PutBegin, PickName, CreateInfo, WriteInfo, WriteInfoFails, MoveIn,
                MoveInFails, UndoInfo, RestoreBegin, RemoveInfo, CheckTarget, MoveBack, MoveBackFails, DropInfo,
                EmptyBegin, NextPass
  <2>5. proc[p].todo = {} /\ ~proc[p].failed /\ UNCHANGED <<files, info>>
    BY <1>1, <2>1, <2>4 DEF EmptyEnds, Idle
  <2> QED BY <2>1, <2>5
<1>2. IInv /\ [Next]_vars =>
        [\A p \in Procs :
           proc[p].at = "info" /\ proc'[p].at = "idle" /\ ~proc'[p].failed /\ ~spoiled
             => \A n \in Names : files'[n] = None /\ info'[n] = None]_vars
  BY <1>1
<1>3. Spec => [][Next]_vars
  BY DEF Spec
<1> QED BY <1>2, <1>3, Inductive, PTL DEF EmptyClears

-----------------------------------------------------------------------------
\* Thumbs.

\* What goes by the second the entry has now, for the first time, is of the
\* content it has now.
Current(sec, content) == sec = picture.sec /\ picture.sec \notin picture.past => content = picture.content

\* A request goes by a second the entry has had, and the image it has made was
\* read after it had it; so was what lies in the cache.
Had == picture.past \cup {picture.sec}
JobRule  == \A j \in Jobs : /\ job[j].at # "idle" => job[j].sec \in Had
                            /\ job[j].at = "write" => Current(job[j].sec, job[j].image)
MadeRule == \A s \in H!Slots : made[s] # None =>
              made[s].sec \in Had /\ Current(made[s].sec, made[s].content)

ThumbSteps == {"idle", "lookup", "failed", "generate", "render", "write"}

ThumbInv ==
  /\ picture \in [content : Nat, sec : Nat, past : SUBSET Nat] /\ listed \in Had
  /\ made \in [H!Slots -> {None} \cup [sec : Nat, content : Nat]]
  /\ job \in [Jobs -> [at : ThumbSteps, slot : H!Slots \cup {None}, sec : Nat, image : Nat]]
  /\ JobRule /\ MadeRule

LEMMA GroupThumbs == MCSpec => H!Spec
<1>1. MCInit => H!Init
  BY DEF MCInit
<1>2. [MCNext]_<<which, vars, shellvars, mimevars, thumbvars>> => [H!Next]_H!vars
  BY DEF MCNext, thumbvars, H!vars
<1> QED
  BY <1>1, <1>2, PTL DEF MCSpec, H!Spec

LEMMA ThumbInit == H!Init => ThumbInv
BY ThumbAssumption DEF H!Init, ThumbInv, JobRule, MadeRule, Current, Had, H!Idle, ThumbSteps, H!Slots

LEMMA FileStep ==
  ASSUME ThumbInv, H!FileChanges \/ H!WatchReads
  PROVE  ThumbInv'
<1>1. CASE H!WatchReads
  BY <1>1 DEF H!WatchReads, ThumbInv, JobRule, MadeRule, Current, Had
<1>2. CASE H!FileChanges
  <2>1. PICK sec \in 1..MaxTime :
          /\ picture' = [content |-> picture.content + 1, sec |-> sec, past |-> Had]
          /\ UNCHANGED <<listed, made, job>>
    BY <1>2 DEF H!FileChanges, Had
  <2>2. /\ picture.past \in SUBSET Nat /\ picture.sec \in Nat /\ picture.content \in Nat
        /\ sec \in Nat
    BY <2>1 DEF ThumbInv
  \* Every second the entry has had is one it had with an earlier content.
  <2>3. picture'.past = Had /\ picture'.sec = sec /\ Had' = Had \cup {sec}
    BY <2>1 DEF Had
  <2>4. picture' \in [content : Nat, sec : Nat, past : SUBSET Nat] /\ listed' \in Had'
    <3>1. Had \in SUBSET Nat /\ picture.content + 1 \in Nat
      BY <2>2 DEF Had
    <3>2. listed \in Had
      BY DEF ThumbInv
    <3> QED BY <2>1, <2>2, <2>3, <3>1, <3>2
  <2>5. JobRule'
    <3> SUFFICES ASSUME NEW j \in Jobs
                 PROVE  /\ job[j].at # "idle" => job[j].sec \in Had'
                        /\ job[j].at = "write" => Current(job[j].sec, job[j].image)'
      BY <2>1 DEF JobRule, Current, Had
    <3>1. job[j].at # "idle" => job[j].sec \in Had
      BY DEF ThumbInv, JobRule
    <3> QED BY <2>1, <2>3, <3>1 DEF Current
  <2>6. MadeRule'
    <3> SUFFICES ASSUME NEW s \in H!Slots, made[s] # None
                 PROVE  made[s].sec \in Had' /\ Current(made[s].sec, made[s].content)'
      BY <2>1 DEF MadeRule, Current, Had
    <3>1. made[s].sec \in Had
      BY DEF ThumbInv, MadeRule
    <3> QED BY <2>1, <2>3, <3>1 DEF Current
  <2> QED
    BY <2>1, <2>4, <2>5, <2>6 DEF ThumbInv
<1> QED
  BY <1>1, <1>2

\* A step of a request sets its own record, within the rule, and leaves the rest.
LEMMA RequestStep ==
  ASSUME ThumbInv, NEW j \in Jobs,
         NEW one \in [at : ThumbSteps, slot : H!Slots \cup {None}, sec : Nat, image : Nat],
         one.at # "idle" => one.sec \in Had, one.at = "write" => Current(one.sec, one.image),
         job' = [job EXCEPT ![j] = one], UNCHANGED <<picture, listed>>,
         made' \in [H!Slots -> {None} \cup [sec : Nat, content : Nat]], MadeRule'
  PROVE  ThumbInv'
<1>1. JobRule'
  BY DEF ThumbInv, JobRule, Current, Had
<1> QED
  BY <1>1 DEF ThumbInv, Had

LEMMA ThumbStep ==
  ASSUME ThumbInv, [H!Next]_H!vars
  PROVE  ThumbInv'
<1>1. CASE H!FileChanges \/ H!WatchReads
  BY <1>1, FileStep
<1>2. ASSUME NEW j \in Jobs,
             \/ H!ThumbEntry(j) \/ H!Lookup(j) \/ H!Failed(j) \/ H!Generate(j) \/ H!Render(j)
             \/ H!Write(j) \/ H!WriteFails(j)
      PROVE  ThumbInv'
  <2> DEFINE Requests == [at : ThumbSteps, slot : H!Slots \cup {None}, sec : Nat, image : Nat]
  <2>1. /\ job[j] \in Requests /\ (job[j].at # "idle" => job[j].sec \in Had)
        /\ job[j].at = "write" => Current(job[j].sec, job[j].image)
        /\ made \in [H!Slots -> {None} \cup [sec : Nat, content : Nat]] /\ MadeRule
        /\ listed \in Had /\ picture.sec \in Had /\ Had \subseteq Nat /\ picture.content \in Nat
    BY DEF ThumbInv, JobRule, Had
  <2>2. UNCHANGED <<picture, made>> => MadeRule'
    BY <2>1 DEF MadeRule, Current, Had
  <2>3. H!Idle \in Requests /\ H!Idle.at = "idle"
    BY <2>1 DEF H!Idle, ThumbSteps
  <2>4. CASE H!Answered(j) /\ UNCHANGED <<picture, listed, made>>
    BY <2>1, <2>2, <2>3, <2>4, RequestStep DEF H!Answered
  <2>5. CASE job[j].at # "idle" /\ \E at \in ThumbSteps \ {"write"} : H!Goto(j, at) /\ UNCHANGED <<picture, listed, made>>
    <3>1. PICK at \in ThumbSteps \ {"write"} : H!Goto(j, at) /\ UNCHANGED <<picture, listed, made>>
      BY <2>5
    <3>2. PICK one \in Requests : one = [job[j] EXCEPT !.at = at]
      BY <2>1
    <3>3. job' = [job EXCEPT ![j] = one] /\ one.sec = job[j].sec /\ one.at # "write"
      BY <2>1, <3>1, <3>2 DEF H!Goto
    <3> QED BY <2>1, <2>2, <2>5, <3>1, <3>3, RequestStep
  <2>6. CASE H!ThumbEntry(j)
    <3>1. PICK size \in Sizes, sec \in {listed, picture.sec} :
            job' = [job EXCEPT ![j] = [at |-> "lookup", slot |-> size, sec |-> sec, image |-> 0]]
      BY <2>6 DEF H!ThumbEntry
    <3>2. PICK one \in Requests : one = [at |-> "lookup", slot |-> size, sec |-> sec, image |-> 0]
      BY <2>1 DEF ThumbSteps, H!Slots
    <3>3. job' = [job EXCEPT ![j] = one] /\ one.sec \in Had /\ one.at # "write"
      BY <2>1, <3>1, <3>2
    <3> QED BY <2>1, <2>2, <2>6, <3>3, RequestStep DEF H!ThumbEntry
  <2>7. CASE H!Render(j)
    <3>1. PICK slot \in {job[j].slot, H!Fail} :
            job' = [job EXCEPT ![j] = [at |-> "write", slot |-> slot, sec |-> job[j].sec, image |-> picture.content]]
      BY <2>7 DEF H!Render
    <3>2. PICK one \in Requests :
            one = [at |-> "write", slot |-> slot, sec |-> job[j].sec, image |-> picture.content]
      BY <2>1 DEF ThumbSteps, H!Slots
    <3>3. job' = [job EXCEPT ![j] = one]
      BY <3>1, <3>2
    <3>4. one.sec \in Had /\ Current(one.sec, one.image)
      BY <2>1, <2>7, <3>2 DEF Current, H!Render
    <3> QED BY <2>1, <2>2, <2>7, <3>3, <3>4, RequestStep DEF H!Render
  <2>8. CASE H!Write(j)
    <3>1. PICK thumb \in [sec : Nat, content : Nat] : thumb = [sec |-> job[j].sec, content |-> job[j].image]
      BY <2>1
    <3>2. made' = [made EXCEPT ![job[j].slot] = thumb] /\ UNCHANGED <<picture, listed>>
          /\ H!Answered(j) /\ thumb.sec \in Had /\ Current(thumb.sec, thumb.content)
      BY <2>1, <2>8, <3>1 DEF H!Write, H!Second
    <3>3. made' \in [H!Slots -> {None} \cup [sec : Nat, content : Nat]]
      BY <2>1, <3>2
    <3>4. \A s \in H!Slots : made'[s] = made[s] \/ made'[s] = thumb
      BY <2>1, <3>2
    <3>5. MadeRule'
      BY <2>1, <3>2, <3>4 DEF MadeRule, Current, Had
    <3> QED BY <2>3, <3>2, <3>3, <3>5, RequestStep DEF H!Answered
  <2>9. CASE H!Lookup(j) \/ H!Failed(j) \/ H!Generate(j) \/ H!WriteFails(j)
    BY <2>4, <2>5, <2>9 DEF H!Lookup, H!Failed, H!Generate, H!WriteFails, ThumbSteps
  <2> QED
    BY <1>2, <2>6, <2>7, <2>8, <2>9
<1>3. CASE UNCHANGED H!vars
  BY <1>3 DEF H!vars, ThumbInv, JobRule, MadeRule, Current, Had
<1> QED
  BY <1>1, <1>2, <1>3 DEF H!Next

\* thumbs.go: what would be shown for the file as it is was made of the file as
\* it is, however many requests overlap with its changes, unless the entry had
\* the same second with an earlier content.
THEOREM ThumbsTrueCorrect == MCSpec => []ThumbsTrue
<1>1. ThumbInv => ThumbsTrue
  BY DEF ThumbInv, MadeRule, Current, ThumbsTrue, H!ThumbsTrue, H!Valid
<1> QED
  BY <1>1, ThumbInit, ThumbStep, GroupThumbs, PTL DEF H!Spec

-----------------------------------------------------------------------------
\* Shell.

Walking  == {"state", "check", "extract", "remove", "publish", "count", "prune",
             "show", "session", "boot", "start"}
Resolved == {"count", "prune", "show", "session", "boot", "start"}   \* has a tree to run on
Standing == {"up", "down", "gone"}

Launches ==
  [job : {"none", "run", "kill", "restart"}, rev : Revs \cup {None},
   disp : Displays \cup {None}, cfg : Revs \cup {None}, child : BOOLEAN,
   victims : SUBSET Procs, known : SUBSET Procs,
   at : {"off", "gone", "state", "check", "extract", "remove", "publish", "count", "prune",
         "show", "session", "boot", "start", "create", "write", "up", "down",
         "list", "kill", "wipe"}]

\* A process that launches has a revision, and once it has resolved it a tree.
Fitted(q) ==
  /\ q.at \in Walking \/ (q.at \in {"list", "kill", "wipe"} /\ q.job # "kill") => q.rev \in Revs
  /\ q.at \in Resolved \cup {"check"} => q.cfg \in Revs
  /\ q.at \in {"count", "prune"} => q.cfg = q.rev
Equipped == \A p \in Procs : Fitted(launch[p])

\* A PID file with a pid in it is of an instance that has started; so are the
\* instances others go by.
StandRule ==
  /\ \A t \in Procs : pidf[t] = "pid" => launch[t].at \in Standing
  /\ \A p \in Procs : \A t \in launch[p].known \cup launch[p].victims : launch[t].at \in Standing

\* The tree of an instance that was established when a process began is there,
\* and nobody is about to remove it.
KnownRule ==
  \A p \in Procs : \A t \in launch[p].known : U!Live(t) =>
    /\ ui[t] \in tree
    /\ \A q \in Procs : /\ launch[q].at # "prune"
                        /\ launch[q].at = "remove" => launch[q].rev # ui[t]

\* When all processes are of one revision, its tree is there as soon as one of
\* them has found it, unless it is being extracted again or a process ended
\* over that.
OnlyRev(r) == \A p \in Procs : launch[p].rev \in {r, None}
HasTree(r) == torn \/ r \in tree \/ \E q \in Procs : launch[q].at = "publish"
OneRule ==
  \A r \in Revs : OnlyRev(r) =>
    /\ tree \subseteq {r} /\ state \in {r, None}
    /\ \A p \in Procs : /\ ui[p] \in {r, None} /\ launch[p].cfg \in {r, None}
                        /\ ui[p] # None \/ launch[p].at \in Resolved => HasTree(r)

ShellInv == U!TypeOK /\ Equipped /\ StandRule /\ KnownRule /\ OneRule

\* A process goes on to `one`: what its step may do, whichever it is, but for
\* the first of a process and the KillAll of a restart.
Moves(p, one) ==
  /\ one \in Launches /\ launch' = [launch EXCEPT ![p] = one]
  /\ pidf' \in [Procs -> {None, "empty", "pid"}] /\ sess' \in [Procs -> Displays \cup {None}]
  /\ ui' \in [Procs -> Revs \cup {None}] /\ state' \in Revs \cup {None}
  /\ tree' \subseteq Revs /\ tmp' \subseteq Procs /\ kills' = kills /\ torn' \in BOOLEAN
  /\ Fitted(one) /\ one.rev = launch[p].rev /\ one.cfg \in {None, launch[p].rev, launch[p].cfg, state}
  /\ one.known \subseteq launch[p].known
  /\ \A t \in one.victims : launch[t].at \in Standing
  /\ launch[p].at \in Standing => one.at \in Standing
  /\ \A t \in Procs : pidf'[t] = "pid" => pidf[t] = "pid" \/ (t = p /\ launch[p].at = "write" /\ one.at = "up")
  /\ \A t \in Procs : ui'[t] \in {ui[t], None}
                        \/ (t = p /\ launch[p].at = "start" /\ ui'[t] = launch[p].cfg)
  /\ state' \in {state, None, launch[p].cfg}
  /\ \A r \in tree' : r \in tree \/ (launch[p].at = "publish" /\ r = launch[p].rev)
  /\ \A r \in tree : \/ r \in tree'
                     \/ launch[p].at = "remove" /\ r = launch[p].rev /\ one.at = "publish"
                     \/ launch[p].at = "prune" /\ r # launch[p].cfg
  /\ one.at = "remove" => launch[p].at = "remove" \/ launch[p].rev \notin tree
  /\ one.at = "prune" => launch[p].at = "prune" \/ U!NoneLive
  /\ one.at \in Resolved => \/ launch[p].at \in Resolved
                            \/ one.cfg \in tree'
  /\ (torn => torn') /\ (launch[p].at = "publish" => one.at = "publish" \/ torn' \/ launch[p].rev \in tree')

LEMMA GroupShell == MCSpec => U!Spec
<1>1. MCInit => U!Init
  BY DEF MCInit
<1>2. [MCNext]_<<which, vars, shellvars, mimevars, thumbvars>> => [U!Next]_U!vars
  BY DEF MCNext, shellvars, U!vars, U!records, U!trees
<1> QED
  BY <1>1, <1>2, PTL DEF MCSpec, U!Spec

LEMMA ShellInit == U!Init => ShellInv
<1> SUFFICES ASSUME U!Init PROVE ShellInv
  OBVIOUS
<1>1. U!Off \in Launches
  BY DEF U!Off, Launches
<1>2. U!TypeOK
  <2>1. launch \in [Procs -> Launches]
    BY <1>1 DEF U!Init
  <2>2. pidf \in [Procs -> {None, "empty", "pid"}] /\ sess \in [Procs -> Displays \cup {None}]
        /\ ui \in [Procs -> Revs \cup {None}] /\ state \in Revs \cup {None}
        /\ tree \subseteq Revs /\ tmp \subseteq Procs /\ torn \in BOOLEAN
    BY DEF U!Init
  <2>3. kills \in 0..MaxKills
    BY ShellAssumption DEF U!Init
  <2> QED BY <2>1, <2>2, <2>3 DEF U!TypeOK, Launches
<1>3. Equipped /\ StandRule /\ KnownRule /\ OneRule
  BY ShellAssumption DEF U!Init, U!Off, Equipped, Fitted, Walking, Resolved, StandRule, KnownRule, OneRule, HasTree
<1> QED
  BY <1>2, <1>3 DEF ShellInv

LEMMA MoveKeeps ==
  ASSUME ShellInv, NEW p \in Procs, NEW one, Moves(p, one)
  PROVE  ShellInv'
<1>0. launch \in [Procs -> Launches] /\ one \in Launches /\ pidf \in [Procs -> {None, "empty", "pid"}]
      /\ ui \in [Procs -> Revs \cup {None}] /\ launch' = [launch EXCEPT ![p] = one] /\ tree \subseteq Revs
  BY DEF ShellInv, U!TypeOK, Launches, Moves
<1>a. /\ launch'[p] = one /\ \A q \in Procs : q # p => launch'[q] = launch[q]
      /\ launch' \in [Procs -> Launches]
  BY <1>0
<1>b. /\ one.known \in SUBSET Procs /\ one.victims \in SUBSET Procs
      /\ \A q \in Procs : launch[q].known \in SUBSET Procs /\ launch[q].victims \in SUBSET Procs
  BY <1>0 DEF Launches
<1>1. U!TypeOK'
  <2>1. kills' \in 0..MaxKills
    BY DEF ShellInv, U!TypeOK, Moves
  <2>2. pidf' \in [Procs -> {None, "empty", "pid"}] /\ sess' \in [Procs -> Displays \cup {None}]
        /\ ui' \in [Procs -> Revs \cup {None}] /\ state' \in Revs \cup {None}
        /\ tree' \subseteq Revs /\ tmp' \subseteq Procs /\ torn' \in BOOLEAN
    BY DEF Moves
  <2> QED BY <1>a, <2>1, <2>2 DEF U!TypeOK, Launches
<1>2. Equipped'
  BY <1>a DEF ShellInv, Equipped, Fitted, Moves
<1>c. \A t \in Procs : launch[t].at \in Standing => launch'[t].at \in Standing
  BY <1>a DEF Moves
<1>3. StandRule'
  <2>1. \A t \in Procs : pidf'[t] = "pid" => launch'[t].at \in Standing
    BY <1>a, <1>c DEF Moves, ShellInv, StandRule, Standing
  <2>2. \A q \in Procs : \A t \in launch'[q].known \cup launch'[q].victims : launch'[t].at \in Standing
    BY <1>a, <1>b, <1>c DEF Moves, ShellInv, StandRule
  <2> QED BY <2>1, <2>2 DEF StandRule
<1>4. KnownRule'
  <2> SUFFICES ASSUME NEW q \in Procs, NEW t \in launch'[q].known, U!Live(t)'
               PROVE  /\ ui'[t] \in tree'
                      /\ \A s \in Procs : /\ launch'[s].at # "prune"
                                          /\ launch'[s].at = "remove" => launch'[s].rev # ui'[t]
    BY DEF KnownRule
  <2>1. t \in launch[q].known /\ t \in Procs
    BY <1>a, <1>b DEF Moves
  <2>2. launch[t].at \in Standing
    BY <2>1 DEF ShellInv, StandRule
  <2>3. U!Live(t) /\ ui'[t] = ui[t]
    <3>1. pidf'[t] = "pid" /\ ui'[t] # None
      BY DEF U!Live
    <3>2. launch[t].at \notin {"write", "start"}
      BY <2>2 DEF Standing
    <3> QED BY <2>1, <3>1, <3>2 DEF U!Live, Moves
  <2>4. /\ ui[t] \in tree
        /\ \A s \in Procs : /\ launch[s].at # "prune"
                            /\ launch[s].at = "remove" => launch[s].rev # ui[t]
    BY <2>1, <2>3 DEF ShellInv, KnownRule
  <2>5. ui'[t] \in tree'
    BY <2>3, <2>4 DEF Moves
  <2>6. ~U!NoneLive
    BY <2>1, <2>3 DEF U!NoneLive
  <2>7. one.at # "prune" /\ (one.at = "remove" => one.rev # ui[t])
    BY <2>4, <2>6 DEF Moves
  <2> QED BY <1>a, <2>3, <2>4, <2>5, <2>7
<1>5. OneRule'
  <2> SUFFICES ASSUME NEW r \in Revs, OnlyRev(r)'
               PROVE  /\ tree' \subseteq {r} /\ state' \in {r, None}
                      /\ \A q \in Procs : /\ ui'[q] \in {r, None} /\ launch'[q].cfg \in {r, None}
                                          /\ ui'[q] # None \/ launch'[q].at \in Resolved => HasTree(r)'
    BY DEF OneRule
  <2>1. OnlyRev(r) /\ launch[p].rev \in {r, None}
    BY <1>a DEF OnlyRev, Moves
  <2>2. /\ tree \subseteq {r} /\ state \in {r, None}
        /\ \A q \in Procs : /\ ui[q] \in {r, None} /\ launch[q].cfg \in {r, None}
                            /\ ui[q] # None \/ launch[q].at \in Resolved => HasTree(r)
    BY <2>1 DEF ShellInv, OneRule
  <2>3. tree' \subseteq {r}
    BY <2>1, <2>2, ShellAssumption DEF Moves
  <2>4. state' \in {r, None} /\ one.cfg \in {r, None}
    BY <2>1, <2>2 DEF Moves
  <2>5. \A q \in Procs : ui'[q] \in {r, None} /\ launch'[q].cfg \in {r, None}
    BY <1>a, <2>2, <2>4 DEF Moves
  <2>6. HasTree(r) => HasTree(r)'
    <3>1. CASE torn
      BY <3>1 DEF HasTree, Moves
    <3>2. CASE r \in tree
      <4>1. launch[p].at = "prune" => launch[p].cfg = r
        BY <2>1, ShellAssumption DEF ShellInv, Equipped, Fitted, Walking
      <4> QED BY <1>a, <3>2, <4>1 DEF HasTree, Moves
    <3>3. ASSUME NEW q \in Procs, launch[q].at = "publish"
          PROVE  HasTree(r)'
      <4>1. CASE q # p
        BY <1>a, <3>3, <4>1 DEF HasTree
      <4>2. CASE q = p
        <5>1. launch[p].rev = r
          BY <2>1, <3>3, <4>2, ShellAssumption DEF ShellInv, Equipped, Fitted, Walking
        <5> QED BY <1>a, <3>3, <4>2, <5>1 DEF HasTree, Moves
      <4> QED BY <4>1, <4>2
    <3> QED BY <3>1, <3>2, <3>3 DEF HasTree
  <2>7. ASSUME NEW q \in Procs, ui'[q] # None \/ launch'[q].at \in Resolved
        PROVE  HasTree(r)'
    <3>1. CASE ui[q] # None \/ launch[q].at \in Resolved
      BY <2>2, <2>6, <3>1
    <3>2. CASE ~(ui[q] # None \/ launch[q].at \in Resolved)
      <4>1. q = p /\ launch'[q].at \in Resolved
        BY <1>a, <2>7, <3>2 DEF Moves, Resolved
      <4>2. one.cfg \in tree'
        BY <1>a, <3>2, <4>1 DEF Moves
      <4> QED BY <2>3, <4>2 DEF HasTree
    <3> QED BY <3>1, <3>2
  <2> QED BY <2>3, <2>4, <2>5, <2>7
<1> QED
  BY <1>1, <1>2, <1>3, <1>4, <1>5 DEF ShellInv

LEMMA ReapStep ==
  ASSUME ShellInv, U!Reap
  PROVE  /\ pidf' \in [Procs -> {None, "empty", "pid"}] /\ UNCHANGED <<sess, ui>>
         /\ \A t \in Procs : pidf'[t] = "pid" => pidf[t] = "pid"
BY ShellAssumption DEF U!Reap, U!Reaped, U!Live, ShellInv, U!TypeOK

\* Most steps leave the trees alone.
LEMMA PlainMove ==
  ASSUME ShellInv, NEW p \in Procs, NEW one \in Launches, launch' = [launch EXCEPT ![p] = one],
         Fitted(one), one.rev = launch[p].rev, one.cfg \in {None, launch[p].rev, launch[p].cfg, state},
         one.known \subseteq launch[p].known, \A t \in one.victims : launch[t].at \in Standing,
         launch[p].at \in Standing => one.at \in Standing,
         launch[p].at = "publish" => one.at = "publish",
         one.at = "remove" => launch[p].at = "remove" \/ launch[p].rev \notin tree,
         one.at = "prune" => launch[p].at = "prune" \/ U!NoneLive,
         one.at \in Resolved => launch[p].at \in Resolved \/ one.cfg \in tree,
         pidf' \in [Procs -> {None, "empty", "pid"}],
         \A t \in Procs : pidf'[t] = "pid" => pidf[t] = "pid" \/ (t = p /\ launch[p].at = "write" /\ one.at = "up"),
         sess' \in [Procs -> Displays \cup {None}],
         ui' \in [Procs -> Revs \cup {None}],
         \A t \in Procs : ui'[t] \in {ui[t], None}
                            \/ (t = p /\ launch[p].at = "start" /\ ui'[t] = launch[p].cfg),
         state' \in Revs \cup {None}, state' \in {state, None, launch[p].cfg},
         UNCHANGED <<tree, tmp, kills, torn>>
  PROVE  Moves(p, one)
BY DEF ShellInv, U!TypeOK, Moves

\* What is known of a process before its step.
LEMMA Before ==
  ASSUME ShellInv, NEW p \in Procs
  PROVE  /\ launch \in [Procs -> Launches] /\ launch[p] \in Launches /\ Fitted(launch[p])
         /\ pidf \in [Procs -> {None, "empty", "pid"}] /\ sess \in [Procs -> Displays \cup {None}]
         /\ ui \in [Procs -> Revs \cup {None}] /\ state \in Revs \cup {None}
         /\ tree \subseteq Revs /\ tmp \subseteq Procs /\ torn \in BOOLEAN
         /\ \A t \in launch[p].victims : launch[t].at \in Standing
BY DEF ShellInv, U!TypeOK, Launches, Equipped, StandRule

\* Goto, for most of those that use it: the tree is resolved already, or not yet.
LEMMA GotoMove ==
  ASSUME ShellInv, NEW p \in Procs, NEW at, U!Goto(p, at),
         at \in Walking \cup {"create", "write", "up", "down"},
         launch[p].at \notin {"publish", "kill", "off", "gone"},
         at \in Walking => launch[p].at \in Walking,
         at \in Resolved \cup {"check"} => launch[p].cfg \in Revs,
         at \in {"count", "prune"} => launch[p].cfg = launch[p].rev,
         launch[p].at \in Standing => at \in Standing,
         at = "remove" => launch[p].rev \notin tree,
         at = "prune" => U!NoneLive,
         at \in Resolved => launch[p].at \in Resolved \/ launch[p].cfg \in tree,
         pidf' \in [Procs -> {None, "empty", "pid"}],
         \A t \in Procs : pidf'[t] = "pid" => pidf[t] = "pid" \/ (t = p /\ launch[p].at = "write" /\ at = "up"),
         sess' \in [Procs -> Displays \cup {None}], UNCHANGED ui,
         state' \in Revs \cup {None}, state' \in {state, None, launch[p].cfg},
         UNCHANGED <<tree, tmp, kills, torn>>
  PROVE  \E one : Moves(p, one)
<1>a. [launch[p] EXCEPT !.at = at] \in Launches
  BY Before DEF Launches, Walking
<1>1. PICK one \in Launches : one = [launch[p] EXCEPT !.at = at]
  BY <1>a
<1>2. /\ one.at = at /\ one.rev = launch[p].rev /\ one.cfg = launch[p].cfg /\ one.job = launch[p].job
      /\ one.known = launch[p].known /\ one.victims = launch[p].victims
  BY <1>1, Before DEF Launches
<1>3. launch' = [launch EXCEPT ![p] = one]
  BY <1>1, Before DEF U!Goto
<1>4. Fitted(one)
  <2>1. /\ launch[p].at \in Walking => launch[p].rev \in Revs
        /\ one.at \notin {"list", "kill", "wipe"}
    BY <1>2, Before DEF Fitted, Walking
  <2> QED BY <1>2, <2>1 DEF Fitted, Walking, Resolved
<1>5. \A t \in one.victims : launch[t].at \in Standing
  BY <1>2, Before
<1>6. ui' \in [Procs -> Revs \cup {None}] /\ \A t \in Procs : ui'[t] \in {ui[t], None}
  BY Before
<1> QED
  BY <1>2, <1>3, <1>4, <1>5, <1>6, PlainMove

LEMMA EndedIs ==
  ASSUME NEW q \in Launches
  PROVE  /\ U!Ended(q) \in Launches /\ U!Ended(q).at = "gone" /\ U!Ended(q).rev = q.rev
         /\ U!Ended(q).cfg = None /\ U!Ended(q).known = {} /\ U!Ended(q).victims = {}
BY DEF U!Ended, U!Off, Launches

\* The end of a process, but for one that dies over its extraction.
LEMMA GoneMove ==
  ASSUME ShellInv, NEW p \in Procs, U!Gone(p), launch[p].at # "publish",
         pidf' \in [Procs -> {None, "empty", "pid"}],
         \A t \in Procs : pidf'[t] = "pid" => pidf[t] = "pid",
         UNCHANGED sess, ui' \in [Procs -> Revs \cup {None}],
         \A t \in Procs : ui'[t] \in {ui[t], None},
         state' \in {state, None},
         UNCHANGED <<tree, tmp, kills, torn>>
  PROVE  \E one : Moves(p, one)
<1>1. PICK one \in Launches : one = U!Ended(launch[p])
  BY Before, EndedIs
<1>2. one.at = "gone" /\ one.rev = launch[p].rev /\ one.cfg = None /\ one.known = {} /\ one.victims = {}
  BY <1>1, Before, EndedIs
<1>3. launch' = [launch EXCEPT ![p] = one]
  BY <1>1, Before DEF U!Gone
<1>4. Fitted(one)
  BY <1>2 DEF Fitted, Walking, Resolved
<1>5. state' \in Revs \cup {None} /\ sess' \in [Procs -> Displays \cup {None}]
  BY Before
<1> QED
  BY <1>2, <1>3, <1>4, <1>5, PlainMove DEF Standing, Resolved

LEMMA ResolveMoves ==
  ASSUME ShellInv, NEW p \in Procs, U!ReadState(p) \/ U!CheckState(p) \/ U!Extract(p)
  PROVE  \E one : Moves(p, one)
<1> USE Before DEF U!Keeps, U!records, U!trees
<1>1. CASE U!ReadState(p)
  <2>1. CASE state = None
    <3>1. U!Goto(p, "extract")
      BY <1>1, <2>1 DEF U!ReadState
    <3> QED BY <1>1, <3>1, GotoMove DEF U!ReadState, Walking, Resolved, Standing
  <2>2. CASE state # None
    <3>a. [launch[p] EXCEPT !.at = "check", !.cfg = state] \in Launches
      BY DEF Launches
    <3>1. PICK one \in Launches : one = [launch[p] EXCEPT !.at = "check", !.cfg = state]
      BY <3>a
    <3>2. /\ one.at = "check" /\ one.rev = launch[p].rev /\ one.cfg = state
          /\ one.known = launch[p].known /\ one.victims = launch[p].victims
      BY <3>1 DEF Launches
    <3>3. launch' = [launch EXCEPT ![p] = one]
      BY <1>1, <2>2, <3>1 DEF U!ReadState
    <3>4. Fitted(one)
      BY <1>1, <2>2, <3>2 DEF Fitted, Walking, Resolved, U!ReadState
    <3> QED BY <1>1, <3>2, <3>3, <3>4, PlainMove DEF U!ReadState, Resolved, Standing
  <2> QED BY <2>1, <2>2
<1>2. CASE U!CheckState(p)
  <2>1. /\ launch[p].at = "check" /\ launch[p].cfg \in Revs /\ launch[p].at \in Walking
        /\ UNCHANGED <<tree, tmp, kills, torn>>
    BY <1>2 DEF U!CheckState, Fitted, Walking
  <2>2. /\ pidf' \in [Procs -> {None, "empty", "pid"}] /\ UNCHANGED <<sess, ui>>
        /\ \A t \in Procs : pidf'[t] = "pid" => pidf[t] = "pid"
    BY <1>2, ReapStep DEF U!CheckState
  <2>3. CASE ~U!NoneLive /\ launch[p].cfg \in tree
    <3>1. U!Goto(p, U!Resolved(p)) /\ UNCHANGED state /\ U!Resolved(p) \in {"boot", "show"}
      BY <1>2, <2>3 DEF U!CheckState, U!Resolved
    <3> QED BY <2>1, <2>2, <2>3, <3>1, GotoMove DEF Walking, Resolved, Standing
  <2>4. CASE ~(~U!NoneLive /\ launch[p].cfg \in tree)
    <3>1. U!Goto(p, "extract") /\ state' = None
      BY <1>2, <2>4 DEF U!CheckState
    <3> QED BY <2>1, <2>2, <3>1, GotoMove DEF Walking, Resolved, Standing
  <2> QED BY <2>3, <2>4
<1>3. CASE U!Extract(p)
  <2>1. launch[p].at = "extract" /\ launch[p].rev \in Revs /\ launch[p].at \in Walking
    BY <1>3 DEF U!Extract, Fitted, Walking
  <2>2. CASE launch[p].rev \in tree
    <3>a. [launch[p] EXCEPT !.at = "count", !.cfg = launch[p].rev] \in Launches
      BY DEF Launches
    <3>1. PICK one \in Launches : one = [launch[p] EXCEPT !.at = "count", !.cfg = launch[p].rev]
      BY <3>a
    <3>2. /\ one.at = "count" /\ one.rev = launch[p].rev /\ one.cfg = launch[p].rev
          /\ one.known = launch[p].known /\ one.victims = launch[p].victims
      BY <3>1 DEF Launches
    <3>3. launch' = [launch EXCEPT ![p] = one]
      BY <1>3, <2>2, <3>1 DEF U!Extract
    <3>4. Fitted(one)
      BY <2>1, <3>2 DEF Fitted, Walking, Resolved
    <3> QED BY <1>3, <2>1, <2>2, <3>2, <3>3, <3>4, PlainMove DEF U!Extract, Resolved, Standing
  <2>3. CASE launch[p].rev \notin tree
    <3>1. U!Goto(p, "remove")
      BY <1>3, <2>3 DEF U!Extract
    <3> QED BY <1>3, <2>1, <2>3, <3>1, GotoMove DEF U!Extract, Walking, Resolved, Standing
  <2> QED BY <2>2, <2>3
<1> QED
  BY <1>1, <1>2, <1>3

\* materialize and Prune: the steps that remove a tree or put one there.
LEMMA TreeMoves ==
  ASSUME ShellInv, NEW p \in Procs,
         U!RemoveTarget(p) \/ U!Publish(p) \/ U!PublishFails(p) \/ U!Prune(p)
  PROVE  \E one : Moves(p, one)
<1> USE Before DEF U!Keeps, U!records, U!trees
<1>0. launch[p] \in Launches /\ Fitted(launch[p]) /\ kills' = kills
      /\ pidf \in [Procs -> {None, "empty", "pid"}] /\ sess \in [Procs -> Displays \cup {None}]
      /\ ui \in [Procs -> Revs \cup {None}] /\ state \in Revs \cup {None}
      /\ \A t \in launch[p].victims : launch[t].at \in Standing
  BY DEF U!RemoveTarget, U!Publish, U!PublishFails, U!Prune
<1>1. CASE U!RemoveTarget(p)
  <2>1. [launch[p] EXCEPT !.at = "publish"] \in Launches
    BY DEF Launches
  <2>2. PICK one \in Launches : one = [launch[p] EXCEPT !.at = "publish"]
    BY <2>1
  <2>3. /\ one.at = "publish" /\ one.rev = launch[p].rev /\ one.cfg = launch[p].cfg
        /\ one.known = launch[p].known /\ one.victims = launch[p].victims
    BY <2>2 DEF Launches
  <2>4. launch' = [launch EXCEPT ![p] = one] /\ launch[p].at = "remove"
        /\ tree' = tree \ {launch[p].rev} /\ tmp' = tmp \cup {p} /\ UNCHANGED <<pidf, sess, ui, state, torn>>
    BY <1>1, <2>2 DEF U!RemoveTarget, U!Goto
  <2>5. Fitted(one)
    BY <1>0, <2>3, <2>4 DEF Fitted, Walking, Resolved
  <2> QED BY <1>0, <2>3, <2>4, <2>5 DEF Moves, Resolved, Standing
<1>2. CASE U!Publish(p)
  <2>1. [launch[p] EXCEPT !.at = "count", !.cfg = launch[p].rev] \in Launches
    BY DEF Launches
  <2>2. PICK one \in Launches : one = [launch[p] EXCEPT !.at = "count", !.cfg = launch[p].rev]
    BY <2>1
  <2>3. /\ one.at = "count" /\ one.rev = launch[p].rev /\ one.cfg = launch[p].rev
        /\ one.known = launch[p].known /\ one.victims = launch[p].victims
    BY <2>2 DEF Launches
  <2>4. launch' = [launch EXCEPT ![p] = one] /\ launch[p].at = "publish"
        /\ tree' = tree \cup {launch[p].rev} /\ tmp' = tmp \ {p} /\ UNCHANGED <<pidf, sess, ui, state, torn>>
    BY <1>2, <2>2 DEF U!Publish
  <2>5. Fitted(one) /\ launch[p].rev \in Revs
    BY <1>0, <2>3, <2>4 DEF Fitted, Walking, Resolved
  <2> QED BY <1>0, <2>3, <2>4, <2>5 DEF Moves, Resolved, Standing
<1>3. CASE U!PublishFails(p)
  <2>1. PICK one \in Launches : one = U!Ended(launch[p])
    BY <1>0, EndedIs
  <2>2. one.at = "gone" /\ one.rev = launch[p].rev /\ one.cfg = None /\ one.known = {} /\ one.victims = {}
    BY <1>0, <2>1, EndedIs
  <2>3. launch' = [launch EXCEPT ![p] = one] /\ launch[p].at = "publish"
        /\ torn' = TRUE /\ tmp' = tmp \ {p} /\ UNCHANGED <<pidf, sess, ui, state, tree>>
    BY <1>3, <2>1 DEF U!PublishFails, U!Gone
  <2>4. Fitted(one)
    BY <2>2 DEF Fitted, Walking, Resolved
  <2> QED BY <1>0, <2>2, <2>3, <2>4 DEF Moves, Resolved, Standing
<1>4. CASE U!Prune(p)
  <2>0. PICK at \in {"boot", "show"} : at = U!Resolved(p)
    BY DEF U!Resolved
  <2>1. [launch[p] EXCEPT !.at = at] \in Launches
    BY DEF Launches
  <2>2. PICK one \in Launches : one = [launch[p] EXCEPT !.at = at]
    BY <2>1
  <2>3. /\ one.at = at /\ one.rev = launch[p].rev /\ one.cfg = launch[p].cfg
        /\ one.known = launch[p].known /\ one.victims = launch[p].victims
    BY <2>2 DEF Launches
  <2>4. launch' = [launch EXCEPT ![p] = one] /\ launch[p].at = "prune"
        /\ tree' = tree \cap {launch[p].cfg} /\ tmp' = {} /\ UNCHANGED <<pidf, sess, ui, state, torn>>
    BY <1>4, <2>0, <2>2 DEF U!Prune, U!PruneKeep, U!Goto
  <2>5. Fitted(one)
    BY <1>0, <2>3, <2>4 DEF Fitted, Walking, Resolved
  <2> QED BY <1>0, <2>3, <2>4, <2>5 DEF Moves, Resolved, Standing
<1> QED
  BY <1>1, <1>2, <1>3, <1>4

LEMMA LaunchMoves ==
  ASSUME ShellInv, NEW p \in Procs, U!CountPIDs(p) \/ U!Show(p) \/ U!CheckSession(p) \/ U!Boot(p)
  PROVE  \E one : Moves(p, one)
<1> USE Before DEF U!Keeps, U!records, U!trees
<1>0. /\ launch[p] \in Launches /\ Fitted(launch[p]) /\ UNCHANGED <<tree, tmp, kills, torn>>
      /\ launch[p].at \in {"count", "show", "session", "boot"} /\ launch[p].cfg \in Revs
      /\ launch[p].rev \in Revs
      /\ pidf \in [Procs -> {None, "empty", "pid"}] /\ sess \in [Procs -> Displays \cup {None}]
  BY DEF U!CountPIDs, U!Show, U!CheckSession, U!Boot, Fitted, Resolved, Walking
<1>1. CASE U!CountPIDs(p)
  <2>1. /\ pidf' \in [Procs -> {None, "empty", "pid"}] /\ UNCHANGED <<sess, ui>>
        /\ \A t \in Procs : pidf'[t] = "pid" => pidf[t] = "pid"
    BY <1>1, ReapStep DEF U!CountPIDs
  <2>2. PICK at \in {"prune", "boot", "show"} : /\ U!Goto(p, at) /\ (at = "prune" => U!NoneLive)
    BY <1>1 DEF U!CountPIDs, U!Resolved
  <2>3. launch[p].at = "count" /\ launch[p].cfg = launch[p].rev /\ UNCHANGED state
    BY <1>0, <1>1 DEF U!CountPIDs, Fitted
  <2> QED BY <1>0, <2>1, <2>2, <2>3, GotoMove DEF Walking, Resolved, Standing
<1>2. CASE U!Show(p)
  <2>1. /\ pidf' \in [Procs -> {None, "empty", "pid"}] /\ UNCHANGED <<sess, ui, state>>
        /\ \A t \in Procs : pidf'[t] = "pid" => pidf[t] = "pid"
    BY <1>0, <1>2, ReapStep DEF U!Show
  <2>2. launch[p].at = "show" /\ (U!Gone(p) \/ U!Goto(p, "session"))
    BY <1>2 DEF U!Show
  <2>3. CASE U!Gone(p)
    BY <1>0, <2>1, <2>2, <2>3, GoneMove
  <2>4. CASE U!Goto(p, "session")
    BY <1>0, <2>1, <2>2, <2>4, GotoMove DEF Walking, Resolved, Standing
  <2> QED BY <2>2, <2>3, <2>4
<1>3. CASE U!CheckSession(p)
  <2>1. launch[p].at = "session" /\ UNCHANGED <<pidf, sess, ui, state>> /\ (U!Gone(p) \/ U!GoOn(p))
    BY <1>3 DEF U!CheckSession
  <2>2. CASE U!Gone(p)
    BY <1>0, <2>1, <2>2, GoneMove
  <2>3. CASE U!Goto(p, "boot")
    BY <1>0, <2>1, <2>3, GotoMove DEF Walking, Resolved, Standing
  <2>4. CASE launch' = [launch EXCEPT ![p] = [@ EXCEPT !.at = "state", !.child = TRUE]]
    <3>1. [launch[p] EXCEPT !.at = "state", !.child = TRUE] \in Launches
      BY DEF Launches
    <3>2. PICK one \in Launches : one = [launch[p] EXCEPT !.at = "state", !.child = TRUE]
      BY <3>1
    <3>3. /\ one.at = "state" /\ one.rev = launch[p].rev /\ one.cfg = launch[p].cfg
          /\ one.known = launch[p].known /\ one.victims = launch[p].victims
      BY <3>2 DEF Launches
    <3>4. launch' = [launch EXCEPT ![p] = one]
      BY <2>4, <3>2
    <3>5. Fitted(one)
      BY <1>0, <3>3 DEF Fitted, Walking, Resolved
    <3> QED BY <1>0, <2>1, <3>3, <3>4, <3>5, PlainMove DEF Resolved, Standing
  <2> QED BY <2>1, <2>2, <2>3, <2>4 DEF U!GoOn
<1>4. CASE U!Boot(p)
  <2>1. launch[p].at = "boot" /\ U!Goto(p, "start") /\ UNCHANGED <<pidf, sess, ui>> /\ state' = launch[p].cfg
    BY <1>4 DEF U!Boot
  <2> QED BY <1>0, <2>1, GotoMove DEF Walking, Resolved, Standing
<1> QED
  BY <1>1, <1>2, <1>3, <1>4

LEMMA SuperviseMoves ==
  ASSUME ShellInv, NEW p \in Procs,
         \/ U!StartUI(p) \/ U!CreatePIDFile(p) \/ U!WritePIDFile(p)
         \/ U!UIExits(p) \/ U!ExitNow(p) \/ U!RemovePIDFile(p) \/ U!ClearConfigState(p) \/ U!Crash(p)
  PROVE  \E one : Moves(p, one)
<1> USE Before DEF U!Keeps, U!records, U!trees
<1>0. /\ launch[p] \in Launches /\ Fitted(launch[p]) /\ UNCHANGED <<tree, tmp, kills>>
      /\ pidf \in [Procs -> {None, "empty", "pid"}] /\ sess \in [Procs -> Displays \cup {None}]
      /\ ui \in [Procs -> Revs \cup {None}] /\ torn \in BOOLEAN
      /\ \A t \in launch[p].victims : launch[t].at \in Standing
  BY DEF U!StartUI, U!CreatePIDFile, U!WritePIDFile, U!UIExits, U!ExitNow, U!RemovePIDFile,
         U!ClearConfigState, U!Crash
<1>1. CASE U!StartUI(p)
  <2>1. U!Ended(launch[p]) \in Launches
    BY EndedIs
  <2>2. [U!Ended(launch[p]) EXCEPT !.at = "create"] \in Launches
    BY <2>1 DEF Launches
  <2>3. PICK one \in Launches : one = [U!Ended(launch[p]) EXCEPT !.at = "create"]
    BY <2>2
  <2>4. one.at = "create" /\ one.rev = launch[p].rev /\ one.cfg = None /\ one.known = {} /\ one.victims = {}
    BY <1>0, <2>1, <2>3, EndedIs DEF Launches
  <2>5. /\ launch' = [launch EXCEPT ![p] = one] /\ launch[p].at = "start" /\ UNCHANGED <<pidf, state, torn>>
        /\ ui' = [ui EXCEPT ![p] = launch[p].cfg] /\ sess' = [sess EXCEPT ![p] = launch[p].disp]
    BY <1>1, <2>3 DEF U!StartUI
  <2>6. launch[p].disp \in Displays \cup {None} /\ launch[p].cfg \in Revs \cup {None}
    BY <1>0 DEF Launches
  <2>7. /\ sess' \in [Procs -> Displays \cup {None}] /\ ui' \in [Procs -> Revs \cup {None}]
        /\ \A t \in Procs : ui'[t] = ui[t] \/ (t = p /\ ui'[t] = launch[p].cfg)
    BY <1>0, <2>5, <2>6
  <2>8. Fitted(one)
    BY <2>4 DEF Fitted, Walking, Resolved
  <2> QED BY <1>0, <2>4, <2>5, <2>7, <2>8, PlainMove DEF Resolved, Standing
<1>2. CASE U!CreatePIDFile(p)
  <2>1. launch[p].at = "create" /\ U!Goto(p, "write") /\ UNCHANGED <<sess, state, ui, torn>>
        /\ pidf' = [pidf EXCEPT ![p] = "empty"]
    BY <1>2 DEF U!CreatePIDFile
  <2>2. pidf' \in [Procs -> {None, "empty", "pid"}] /\ \A t \in Procs : pidf'[t] = "pid" => pidf[t] = "pid"
    BY <1>0, <2>1
  <2> QED BY <1>0, <2>1, <2>2, GotoMove DEF Walking, Resolved, Standing
<1>3. CASE U!WritePIDFile(p)
  <2>1. launch[p].at = "write" /\ U!Goto(p, "up") /\ UNCHANGED <<sess, state, ui, torn>>
        /\ pidf' = [pidf EXCEPT ![p] = IF @ = None THEN None ELSE "pid"]
    BY <1>3 DEF U!WritePIDFile
  <2>2. pidf' \in [Procs -> {None, "empty", "pid"}] /\ \A t \in Procs : pidf'[t] = "pid" => pidf[t] = "pid" \/ t = p
    BY <1>0, <2>1
  <2> QED BY <1>0, <2>1, <2>2, GotoMove DEF Walking, Resolved, Standing
<1>4. CASE U!UIExits(p)
  <2>1. ui' = [ui EXCEPT ![p] = None] /\ UNCHANGED <<launch, pidf, sess, state, torn>>
    BY <1>4 DEF U!UIExits
  <2>2. ui' \in [Procs -> Revs \cup {None}] /\ \A t \in Procs : ui'[t] \in {ui[t], None}
    BY <1>0, <2>1
  <2>3. launch' = [launch EXCEPT ![p] = launch[p]]
    BY <2>1
  <2> QED BY <1>0, <2>1, <2>2, <2>3, PlainMove DEF Moves, ShellInv, StandRule
<1>5. CASE U!ExitNow(p) \/ U!ClearConfigState(p)
  <2>1. launch[p].at \in {"up", "down"} /\ U!Gone(p) /\ UNCHANGED <<pidf, sess, torn>> /\ state' \in {state, None}
        /\ ui' = [ui EXCEPT ![p] = None]
    BY <1>5 DEF U!ExitNow, U!ClearConfigState
  <2>2. ui' \in [Procs -> Revs \cup {None}] /\ \A t \in Procs : ui'[t] \in {ui[t], None}
    BY <1>0, <2>1
  <2> QED BY <1>0, <2>1, <2>2, GoneMove
<1>6. CASE U!RemovePIDFile(p)
  <2>1. launch[p].at = "up" /\ U!Goto(p, "down") /\ UNCHANGED <<state, ui, torn>>
        /\ pidf' = [pidf EXCEPT ![p] = None] /\ sess' = [sess EXCEPT ![p] = None]
    BY <1>6 DEF U!RemovePIDFile
  <2>2. pidf' \in [Procs -> {None, "empty", "pid"}] /\ \A t \in Procs : pidf'[t] = "pid" => pidf[t] = "pid"
    BY <1>0, <2>1, ShellAssumption
  <2>3. sess' \in [Procs -> Displays \cup {None}]
    BY <1>0, <2>1
  <2> QED BY <1>0, <2>1, <2>2, <2>3, GotoMove DEF Walking, Resolved, Standing
<1>7. CASE U!Crash(p)
  <2>1. U!Gone(p) /\ UNCHANGED <<pidf, sess, ui, state>> /\ torn' = (torn \/ launch[p].at = "publish")
    BY <1>7 DEF U!Crash
  <2>2. CASE launch[p].at # "publish"
    <3>1. torn' = torn
      BY <1>0, <2>1, <2>2
    <3> QED BY <1>0, <2>1, <2>2, <3>1, GoneMove
  <2>3. CASE launch[p].at = "publish"
    <3>1. PICK one \in Launches : one = U!Ended(launch[p])
      BY <1>0, EndedIs
    <3>2. one.at = "gone" /\ one.rev = launch[p].rev /\ one.cfg = None /\ one.known = {} /\ one.victims = {}
      BY <1>0, <3>1, EndedIs
    <3>3. launch' = [launch EXCEPT ![p] = one] /\ torn' = TRUE
      BY <2>1, <2>3, <3>1 DEF U!Gone
    <3>4. Fitted(one)
      BY <3>2 DEF Fitted, Walking, Resolved
    <3> QED BY <1>0, <2>1, <2>3, <3>2, <3>3, <3>4 DEF Moves, Resolved, Standing
  <2> QED BY <2>2, <2>3
<1> QED
  BY <1>1, <1>2, <1>3, <1>4, <1>5, <1>6, <1>7

\* What a kill or a restart goes on to.
LEMMA AfterKillIs ==
  ASSUME NEW q \in Launches, Fitted(q), q.at \in {"list", "wipe"}
  PROVE  /\ U!AfterKill(q) \in Launches /\ Fitted(U!AfterKill(q)) /\ U!AfterKill(q).at \in {"gone", "state"}
         /\ U!AfterKill(q).rev = q.rev /\ U!AfterKill(q).cfg \in {None, q.cfg}
         /\ U!AfterKill(q).known \subseteq q.known /\ U!AfterKill(q).victims = {}
<1>1. CASE q.job = "kill"
  BY <1>1, EndedIs DEF U!AfterKill, Fitted, Walking, Resolved
<1>2. CASE q.job # "kill"
  <2>1. [q EXCEPT !.at = "state", !.child = TRUE, !.victims = {}] \in Launches
    BY DEF Launches
  <2>2. PICK one \in Launches : one = [q EXCEPT !.at = "state", !.child = TRUE, !.victims = {}]
    BY <2>1
  <2>3. one.at = "state" /\ one.rev = q.rev /\ one.cfg = q.cfg /\ one.known = q.known /\ one.victims = {}
    BY <2>2 DEF Launches
  <2>4. q.rev \in Revs
    BY <1>2 DEF Fitted
  <2>5. U!AfterKill(q) = one
    BY <1>2, <2>2 DEF U!AfterKill
  <2> QED BY <2>3, <2>4, <2>5 DEF Fitted, Walking, Resolved
<1> QED
  BY <1>1, <1>2

LEMMA KillMoves ==
  ASSUME ShellInv, NEW p \in Procs, U!ListPIDs(p) \/ U!RemoveAllPIDFiles(p)
  PROVE  \E one : Moves(p, one)
<1> USE Before DEF U!Keeps, U!records, U!trees
<1>0. /\ launch[p] \in Launches /\ Fitted(launch[p]) /\ UNCHANGED <<state, tree, tmp, kills, torn>>
      /\ sess \in [Procs -> Displays \cup {None}] /\ ui \in [Procs -> Revs \cup {None}]
      /\ launch[p].at \in {"list", "wipe"} /\ state \in Revs \cup {None} /\ UNCHANGED ui
  BY ReapStep DEF U!ListPIDs, U!RemoveAllPIDFiles
<1>1. pidf' \in [Procs -> {None, "empty", "pid"}] /\ \A t \in Procs : pidf'[t] = "pid" => pidf[t] = "pid"
  BY ReapStep, ShellAssumption DEF U!ListPIDs, U!RemoveAllPIDFiles
<1>2. sess' \in [Procs -> Displays \cup {None}]
  BY <1>0, ReapStep DEF U!ListPIDs, U!RemoveAllPIDFiles
<1>3. CASE launch' = [launch EXCEPT ![p] = U!AfterKill(@)]
  <2>1. PICK one \in Launches : one = U!AfterKill(launch[p])
    BY <1>0, AfterKillIs
  <2>2. /\ Fitted(one) /\ one.at \in {"gone", "state"} /\ one.rev = launch[p].rev /\ one.cfg \in {None, launch[p].cfg}
        /\ one.known \subseteq launch[p].known /\ one.victims = {}
    BY <1>0, <2>1, AfterKillIs
  <2>3. launch' = [launch EXCEPT ![p] = one]
    BY <1>3, <2>1
  <2> QED BY <1>0, <1>1, <1>2, <2>2, <2>3, PlainMove DEF Resolved, Standing
<1>4. ASSUME launch[p].at = "list",
             launch' = [launch EXCEPT ![p] = [@ EXCEPT !.at = "kill",
                                                       !.victims = {t \in Procs \ {p} : U!Live(t)}]]
      PROVE  \E one : Moves(p, one)
  <2>1. PICK others \in SUBSET Procs : others = {t \in Procs \ {p} : U!Live(t)}
    OBVIOUS
  <2>2. [launch[p] EXCEPT !.at = "kill", !.victims = others] \in Launches
    BY <1>0 DEF Launches
  <2>3. PICK one \in Launches : one = [launch[p] EXCEPT !.at = "kill", !.victims = others]
    BY <2>2
  <2>4. /\ one.at = "kill" /\ one.rev = launch[p].rev /\ one.cfg = launch[p].cfg /\ one.job = launch[p].job
        /\ one.known = launch[p].known /\ one.victims = others
    BY <1>0, <2>3 DEF Launches
  <2>5. launch' = [launch EXCEPT ![p] = one]
    BY <1>4, <2>1, <2>3
  <2>6. \A t \in one.victims : launch[t].at \in Standing
    BY <2>1, <2>4 DEF U!Live, ShellInv, StandRule
  <2>7. Fitted(one)
    BY <1>0, <1>4, <2>4 DEF Fitted, Walking, Resolved
  <2> QED BY <1>0, <1>1, <1>2, <1>4, <2>4, <2>5, <2>6, <2>7, PlainMove DEF Resolved, Standing
<1>5. CASE U!RemoveAllPIDFiles(p)
  BY <1>3, <1>5 DEF U!RemoveAllPIDFiles
<1>6. CASE U!ListPIDs(p)
  <2>1. CASE {t \in Procs \ {p} : U!Live(t)} = {}
    BY <1>3, <1>6, <2>1 DEF U!ListPIDs
  <2>2. CASE {t \in Procs \ {p} : U!Live(t)} # {}
    BY <1>4, <1>6, <2>2 DEF U!ListPIDs
  <2> QED BY <2>1, <2>2
<1> QED
  BY <1>5, <1>6

\* The first step of a process: it goes by the instances that are established.
LEMMA BeginKeeps ==
  ASSUME ShellInv, NEW p \in Procs, NEW call \in Launches, U!Begin(p, call),
         call.at \in {"state", "list"}, Fitted(call), call.cfg = None, call.victims = {}
  PROVE  ShellInv'
<1> DEFINE set == {t \in Procs : U!Established(t)}
<1>1. PICK K \in SUBSET Procs : K = set
  OBVIOUS
<1> HIDE DEF set
<1>2. [call EXCEPT !.known = K] \in Launches
  BY DEF Launches
<1>3. PICK one \in Launches : one = [call EXCEPT !.known = K]
  BY <1>2
<1>4. /\ one.at = call.at /\ one.rev = call.rev /\ one.cfg = None /\ one.job = call.job
      /\ one.known = K /\ one.victims = {}
  BY <1>3 DEF Launches
<1>5. /\ launch[p] = U!Off /\ launch' = [launch EXCEPT ![p] = one] /\ kills' \in {kills, kills + 1}
      /\ kills' <= MaxKills /\ UNCHANGED <<pidf, sess, state, ui, tree, tmp, torn>>
  BY <1>1, <1>3 DEF U!Begin, U!records, U!trees, set
<1>6. launch \in [Procs -> Launches] /\ launch[p].at = "off" /\ launch[p].rev = None
  BY <1>5, Before DEF U!Off
<1>7. /\ launch'[p] = one /\ \A q \in Procs : q # p => launch'[q] = launch[q]
      /\ launch' \in [Procs -> Launches]
  BY <1>5, <1>6
<1>8. U!TypeOK'
  <2>1. kills' \in 0..MaxKills
    BY <1>5, ShellAssumption DEF ShellInv, U!TypeOK
  <2>2. pidf' \in [Procs -> {None, "empty", "pid"}] /\ sess' \in [Procs -> Displays \cup {None}]
        /\ ui' \in [Procs -> Revs \cup {None}] /\ state' \in Revs \cup {None}
        /\ tree' \subseteq Revs /\ tmp' \subseteq Procs /\ torn' \in BOOLEAN
    BY <1>5, Before
  <2> QED BY <1>7, <2>1, <2>2 DEF U!TypeOK, Launches
<1>9. Equipped'
  <2>1. Fitted(one)
    BY <1>4 DEF Fitted, Walking, Resolved
  <2> QED BY <1>7, <2>1 DEF ShellInv, Equipped, Fitted
<1>10. \A t \in K : U!Live(t) /\ ui[t] \in tree /\ \A q \in Procs : launch[q].at \notin {"remove", "publish", "prune"}
  BY <1>1 DEF set, U!Established, U!Removing
<1>11. \A t \in Procs : launch[t].at \in Standing => launch'[t] = launch[t]
  BY <1>6, <1>7 DEF Standing
<1>12. StandRule'
  <2>1. \A t \in K : launch[t].at \in Standing
    BY <1>10 DEF U!Live, ShellInv, StandRule
  <2>2. \A q \in Procs : launch[q].known \in SUBSET Procs /\ launch[q].victims \in SUBSET Procs
    BY <1>6 DEF Launches
  <2>3. \A q \in Procs : \A t \in launch'[q].known \cup launch'[q].victims : t \in Procs /\ launch[t].at \in Standing
    BY <1>4, <1>7, <2>1, <2>2 DEF ShellInv, StandRule
  <2>4. \A t \in Procs : pidf'[t] = "pid" => launch[t].at \in Standing
    BY <1>5 DEF ShellInv, StandRule
  <2> QED BY <1>11, <2>3, <2>4 DEF StandRule
<1>13. KnownRule'
  <2> SUFFICES ASSUME NEW q \in Procs, NEW t \in launch'[q].known, U!Live(t)'
               PROVE  /\ ui'[t] \in tree'
                      /\ \A s \in Procs : /\ launch'[s].at # "prune"
                                          /\ launch'[s].at = "remove" => launch'[s].rev # ui'[t]
    BY DEF KnownRule
  <2>1. U!Live(t)
    BY <1>5 DEF U!Live
  <2>2. /\ ui[t] \in tree
        /\ \A s \in Procs : /\ launch[s].at # "prune"
                            /\ launch[s].at = "remove" => launch[s].rev # ui[t]
    BY <1>4, <1>7, <1>10, <2>1 DEF ShellInv, KnownRule
  <2> QED BY <1>4, <1>5, <1>7, <2>2
<1>14. OneRule'
  <2> SUFFICES ASSUME NEW r \in Revs, OnlyRev(r)'
               PROVE  /\ tree' \subseteq {r} /\ state' \in {r, None}
                      /\ \A q \in Procs : /\ ui'[q] \in {r, None} /\ launch'[q].cfg \in {r, None}
                                          /\ ui'[q] # None \/ launch'[q].at \in Resolved => HasTree(r)'
    BY DEF OneRule
  <2>1. OnlyRev(r)
    BY <1>6, <1>7 DEF OnlyRev
  <2>2. /\ tree \subseteq {r} /\ state \in {r, None}
        /\ \A q \in Procs : /\ ui[q] \in {r, None} /\ launch[q].cfg \in {r, None}
                            /\ ui[q] # None \/ launch[q].at \in Resolved => HasTree(r)
    BY <2>1 DEF ShellInv, OneRule
  <2>3. HasTree(r) => HasTree(r)'
    BY <1>5, <1>6, <1>7 DEF HasTree
  <2> QED BY <1>4, <1>5, <1>7, <2>2, <2>3 DEF Resolved
<1> QED
  BY <1>8, <1>9, <1>12, <1>13, <1>14 DEF ShellInv

LEMMA FirstStepKeeps ==
  ASSUME ShellInv, NEW p \in Procs,
         \/ U!KillCommand(p)
         \/ \E r \in Revs, d \in Displays : U!Run(p, r, d) \/ U!RestartDetached(p, r, d)
  PROVE  ShellInv'
<1>0. U!Off \in Launches
  BY DEF U!Off, Launches
<1>1. CASE U!KillCommand(p)
  <2>1. [U!Off EXCEPT !.job = "kill", !.at = "list"] \in Launches
    BY <1>0 DEF Launches
  <2>2. PICK call \in Launches : call = [U!Off EXCEPT !.job = "kill", !.at = "list"]
    BY <2>1
  <2>3. call.at = "list" /\ call.job = "kill" /\ call.cfg = None /\ call.victims = {}
    BY <1>0, <2>2 DEF Launches, U!Off
  <2>4. U!Begin(p, call)
    BY <1>1, <2>2 DEF U!KillCommand
  <2> QED BY <2>3, <2>4, BeginKeeps DEF Fitted, Walking, Resolved
<1>2. ASSUME NEW r \in Revs, NEW d \in Displays, U!Run(p, r, d)
      PROVE  ShellInv'
  <2>1. [U!Off EXCEPT !.job = "run", !.at = "state", !.rev = r, !.disp = d] \in Launches
    BY <1>0 DEF Launches
  <2>2. PICK call \in Launches : call = [U!Off EXCEPT !.job = "run", !.at = "state", !.rev = r, !.disp = d]
    BY <2>1
  <2>3. call.at = "state" /\ call.rev = r /\ call.cfg = None /\ call.victims = {}
    BY <1>0, <2>2 DEF Launches, U!Off
  <2>4. U!Begin(p, call)
    BY <1>2, <2>2 DEF U!Run
  <2> QED BY <2>3, <2>4, BeginKeeps DEF Fitted, Walking, Resolved
<1>3. ASSUME NEW r \in Revs, NEW d \in Displays, U!RestartDetached(p, r, d)
      PROVE  ShellInv'
  <2>1. [U!Off EXCEPT !.job = "restart", !.at = "list", !.rev = r, !.disp = d] \in Launches
    BY <1>0 DEF Launches
  <2>2. PICK call \in Launches : call = [U!Off EXCEPT !.job = "restart", !.at = "list", !.rev = r, !.disp = d]
    BY <2>1
  <2>3. call.at = "list" /\ call.rev = r /\ call.cfg = None /\ call.victims = {}
    BY <1>0, <2>2 DEF Launches, U!Off
  <2>4. U!Begin(p, call)
    BY <1>3, <2>2 DEF U!RestartDetached
  <2> QED BY <2>3, <2>4, BeginKeeps DEF Fitted, Walking, Resolved
<1> QED
  BY <1>1, <1>2, <1>3

\* Killed are instances, which have no tree to resolve any more.
LEMMA KillAllKeeps ==
  ASSUME ShellInv, NEW p \in Procs, U!KillAll(p)
  PROVE  ShellInv'
<1>0. /\ launch \in [Procs -> Launches] /\ launch[p] \in Launches /\ launch[p].at = "kill"
      /\ pidf \in [Procs -> {None, "empty", "pid"}] /\ ui \in [Procs -> Revs \cup {None}]
      /\ UNCHANGED <<pidf, sess, state, tree, tmp, kills, torn>>
  BY Before DEF U!KillAll, U!records, U!trees, U!Keeps
<1>1. PICK dead \in SUBSET Procs : dead = launch[p].victims
  BY <1>0 DEF Launches
<1>2. (\A t \in dead : launch[t].at \in Standing) /\ p \notin dead
  BY <1>0, <1>1 DEF ShellInv, StandRule, Standing
<1>3. [launch[p] EXCEPT !.at = "wipe"] \in Launches
  BY <1>0 DEF Launches
<1>4. PICK one \in Launches : one = [launch[p] EXCEPT !.at = "wipe"]
  BY <1>3
<1>5. /\ one.at = "wipe" /\ one.rev = launch[p].rev /\ one.cfg = launch[p].cfg /\ one.job = launch[p].job
      /\ one.known = launch[p].known /\ one.victims = launch[p].victims
  BY <1>0, <1>4 DEF Launches
<1>6. /\ ui' = [t \in Procs |-> IF t \in dead THEN None ELSE ui[t]]
      /\ launch' = [t \in Procs |-> IF t \in dead THEN U!Ended(launch[t]) ELSE IF t = p THEN one ELSE launch[t]]
  BY <1>1, <1>4 DEF U!KillAll
<1>7. /\ \A t \in dead : launch'[t] = U!Ended(launch[t])
      /\ launch'[p] = one /\ \A t \in Procs \ dead : t # p => launch'[t] = launch[t]
      /\ \A t \in Procs : ui'[t] = IF t \in dead THEN None ELSE ui[t]
  BY <1>2, <1>6
<1>8. \A t \in dead : /\ launch'[t] \in Launches /\ launch'[t].at = "gone" /\ launch'[t].rev = launch[t].rev
                      /\ launch'[t].cfg = None /\ launch'[t].known = {} /\ launch'[t].victims = {}
  BY <1>0, <1>7, EndedIs
\* What each process is to the rules.
<1>9. \A q \in Procs : /\ launch'[q] \in Launches /\ launch'[q].rev = launch[q].rev
                       /\ launch'[q].cfg \in {None, launch[q].cfg}
                       /\ launch'[q].known \subseteq launch[q].known /\ launch'[q].victims \subseteq launch[q].victims
                       /\ launch'[q].at \in {launch[q].at, "gone", "wipe"}
                       /\ launch[q].at \notin {"kill"} \cup Standing => launch'[q] = launch[q]
                       /\ launch[q].at \in Standing => launch'[q].at \in Standing
  BY <1>0, <1>2, <1>5, <1>7, <1>8 DEF Standing
<1>10. U!TypeOK'
  <2>1. launch' \in [Procs -> Launches]
    BY <1>6, <1>9
  <2>2. ui' \in [Procs -> Revs \cup {None}]
    BY <1>0, <1>6
  <2> QED BY <1>0, <2>1, <2>2 DEF ShellInv, U!TypeOK, Launches
<1>11. Equipped'
  <2>1. Fitted(one)
    BY <1>0, <1>5, Before DEF Fitted, Walking, Resolved
  <2>2. \A t \in dead : Fitted(launch'[t])
    BY <1>8 DEF Fitted, Walking, Resolved
  <2>3. \A q \in Procs : Fitted(launch[q])
    BY Before
  <2>4. \A q \in Procs : Fitted(launch'[q])
    BY <1>7, <2>1, <2>2, <2>3
  <2> QED BY <2>4 DEF Equipped, Fitted
<1>12. StandRule'
  <2>1. \A q \in Procs : launch[q].known \in SUBSET Procs /\ launch[q].victims \in SUBSET Procs
    BY <1>0 DEF Launches
  <2> QED BY <1>0, <1>9, <2>1 DEF ShellInv, StandRule
<1>13. KnownRule'
  <2> SUFFICES ASSUME NEW q \in Procs, NEW t \in launch'[q].known, U!Live(t)'
               PROVE  /\ ui'[t] \in tree'
                      /\ \A s \in Procs : /\ launch'[s].at # "prune"
                                          /\ launch'[s].at = "remove" => launch'[s].rev # ui'[t]
    BY DEF KnownRule
  <2>1. t \in launch[q].known /\ t \in Procs
    BY <1>0, <1>9 DEF Launches
  <2>2. U!Live(t) /\ ui'[t] = ui[t]
    BY <1>0, <1>7, <2>1 DEF U!Live
  <2>3. /\ ui[t] \in tree
        /\ \A s \in Procs : /\ launch[s].at # "prune"
                            /\ launch[s].at = "remove" => launch[s].rev # ui[t]
    BY <2>1, <2>2 DEF ShellInv, KnownRule
  <2> QED BY <1>0, <1>9, <2>2, <2>3
<1>14. OneRule'
  <2> SUFFICES ASSUME NEW r \in Revs, OnlyRev(r)'
               PROVE  /\ tree' \subseteq {r} /\ state' \in {r, None}
                      /\ \A q \in Procs : /\ ui'[q] \in {r, None} /\ launch'[q].cfg \in {r, None}
                                          /\ ui'[q] # None \/ launch'[q].at \in Resolved => HasTree(r)'
    BY DEF OneRule
  <2>1. OnlyRev(r)
    BY <1>9 DEF OnlyRev
  <2>2. /\ tree \subseteq {r} /\ state \in {r, None}
        /\ \A q \in Procs : /\ ui[q] \in {r, None} /\ launch[q].cfg \in {r, None}
                            /\ ui[q] # None \/ launch[q].at \in Resolved => HasTree(r)
    BY <2>1 DEF ShellInv, OneRule
  <2>3. HasTree(r) => HasTree(r)'
    BY <1>0, <1>9 DEF HasTree, Standing
  <2>4. \A q \in Procs : launch'[q].at \in Resolved => launch[q].at \in Resolved
    BY <1>9 DEF Resolved
  <2> QED BY <1>0, <1>7, <1>9, <2>2, <2>3, <2>4
<1> QED
  BY <1>10, <1>11, <1>12, <1>13, <1>14 DEF ShellInv

LEMMA ShellStep ==
  ASSUME ShellInv, [U!Next]_U!vars
  PROVE  ShellInv'
<1>1. ASSUME NEW p \in Procs, U!Launch(p)
      PROVE  ShellInv'
  <2>1. CASE U!ReadState(p) \/ U!CheckState(p) \/ U!Extract(p)
    BY <2>1, ResolveMoves, MoveKeeps
  <2>2. CASE U!RemoveTarget(p) \/ U!Publish(p) \/ U!PublishFails(p) \/ U!Prune(p)
    BY <2>2, TreeMoves, MoveKeeps
  <2>3. CASE U!CountPIDs(p) \/ U!Show(p) \/ U!CheckSession(p) \/ U!Boot(p)
    BY <2>3, LaunchMoves, MoveKeeps
  <2>4. CASE \E r \in Revs, d \in Displays : U!Run(p, r, d) \/ U!RestartDetached(p, r, d)
    BY <2>4, FirstStepKeeps
  <2> QED BY <1>1, <2>1, <2>2, <2>3, <2>4 DEF U!Launch
<1>2. ASSUME NEW p \in Procs, U!Supervise(p)
      PROVE  ShellInv'
  <2>1. CASE \/ U!StartUI(p) \/ U!CreatePIDFile(p) \/ U!WritePIDFile(p)
             \/ U!UIExits(p) \/ U!ExitNow(p) \/ U!RemovePIDFile(p) \/ U!ClearConfigState(p) \/ U!Crash(p)
    BY <2>1, SuperviseMoves, MoveKeeps
  <2>2. CASE U!ListPIDs(p) \/ U!RemoveAllPIDFiles(p)
    BY <2>2, KillMoves, MoveKeeps
  <2>3. CASE U!KillCommand(p)
    BY <2>3, FirstStepKeeps
  <2>4. CASE U!KillAll(p)
    BY <2>4, KillAllKeeps
  <2> QED BY <1>2, <2>1, <2>2, <2>3, <2>4 DEF U!Supervise
<1>3. CASE UNCHANGED U!vars
  BY <1>3 DEF U!vars, U!records, U!trees, ShellInv, U!TypeOK, Equipped, Fitted, StandRule, KnownRule,
              U!Live, OneRule, OnlyRev, HasTree
<1> QED
  BY <1>1, <1>2, <1>3 DEF U!Next

LEMMA ShellInductive == MCSpec => []ShellInv
BY GroupShell, ShellInit, ShellStep, PTL DEF U!Spec

\* Only materialize and Prune remove a tree, and none that an instance runs on
\* which was established when some process began.
LEMMA RemovesOther ==
  ASSUME ShellInv, [U!Next]_U!vars, NEW r \in tree \ tree',
         NEW p \in Procs, NEW t \in launch[p].known, U!Live(t)
  PROVE  ui[t] # r
<1>1. /\ ui[t] \in tree
      /\ \A q \in Procs : /\ launch[q].at # "prune"
                          /\ launch[q].at = "remove" => launch[q].rev # ui[t]
  BY DEF ShellInv, KnownRule
<1>2. PICK q \in Procs : U!RemoveTarget(q) \/ U!Publish(q) \/ U!Prune(q)
  BY DEF U!Next, U!vars, U!records, U!trees, U!Launch, U!Supervise, U!Run, U!RestartDetached, U!KillCommand,
         U!Begin, U!ReadState, U!CheckState, U!Extract, U!PublishFails, U!CountPIDs, U!Show, U!CheckSession, U!Boot,
         U!StartUI, U!CreatePIDFile, U!WritePIDFile, U!UIExits, U!ExitNow, U!RemovePIDFile, U!ClearConfigState,
         U!Crash, U!ListPIDs, U!KillAll, U!RemoveAllPIDFiles
<1>3. launch[q].at = "remove" /\ r = launch[q].rev
  BY <1>1, <1>2 DEF U!RemoveTarget, U!Publish, U!Prune
<1> QED
  BY <1>1, <1>3

\* supervise.go and shellfs.go: a launch never removes the tree of an instance
\* that was established before it began, and when all launches of the only
\* revision are over, every instance has its tree.
THEOREM TreeKeptCorrect == MCSpec => TreeKept
<1> DEFINE Whole  == U!OneRevision /\ ~torn /\ (\A p \in Procs : ~U!Launching(p))
                       => \A p \in Procs : ui[p] \in tree \cup {None}
           Spares == \A r \in tree \ tree' : \A p \in Procs : launch'[p].at # launch[p].at =>
                       \A t \in launch[p].known : U!Live(t) => ui[t] # r
<1>1. ASSUME ShellInv PROVE Whole
  <2> SUFFICES ASSUME U!OneRevision, ~torn, \A p \in Procs : ~U!Launching(p),
                      NEW p \in Procs, ui[p] # None
               PROVE  ui[p] \in tree
    OBVIOUS
  <2>1. PICK r \in Revs : OnlyRev(r)
    BY DEF U!OneRevision, OnlyRev
  <2>2. ui[p] \in {r, None} /\ HasTree(r)
    BY <1>1, <2>1 DEF ShellInv, OneRule
  <2> QED BY <2>2 DEF HasTree, U!Launching
<1>2. ShellInv /\ [U!Next]_U!vars => [Spares]_U!vars
  BY RemovesOther
<1>3. MCSpec => [][U!Next]_U!vars
  BY GroupShell, PTL DEF U!Spec
<1>4. TreeKept <=> []Whole /\ [][Spares]_U!vars
  BY DEF TreeKept, U!TreeKept
<1> QED
  BY <1>1, <1>2, <1>3, <1>4, ShellInductive, PTL

-----------------------------------------------------------------------------
\* MimeApps.

\* Groups.
Groups == M!Managed \cup {"Other", None}
Foreigner(h, n) == M!GroupAt(h, n) \notin M!Managed \/ h[n] = M!Comment

LEMMA MaxIs ==
  ASSUME NEW n \in Nat, NEW S \in SUBSET (0..n), S # {}
  PROVE  M!Max(S) \in S /\ \A y \in S : M!Max(S) >= y
<1> DEFINE T == {n - y : y \in S}
<1>1. PICK y0 \in S : TRUE
  OBVIOUS
<1>2. T \in SUBSET Nat /\ n - y0 \in T
  OBVIOUS
<1>3. PICK i \in T : \A j \in T : ~(j < i)
  <2> HIDE DEF T
  <2> QED
    BY <1>2, LeastNumber
<1>4. PICK x \in S : i = n - x
  BY <1>3
<1>5. ASSUME NEW y \in S PROVE x >= y
  <2>1. ~(n - y < n - x)
    BY <1>3, <1>4
  <2> QED
    BY <2>1
<1> QED
  BY <1>5 DEF M!Max

LEMMA MinIs ==
  ASSUME NEW S \in SUBSET Nat, S # {}
  PROVE  M!Min(S) \in S /\ \A y \in S : M!Min(S) <= y
<1>1. PICK y0 \in S : TRUE
  OBVIOUS
<1>2. PICK x \in S : \A y \in S : ~(y < x)
  BY <1>1, LeastNumber
<1>3. \A y \in S : x <= y
  BY <1>2
<1> QED
  BY <1>3 DEF M!Min

\* The headers among the first i lines.
Heads(h, i) == {j \in 1..i : h[j].head # None}

LEMMA GroupIs ==
  ASSUME NEW h \in Seq(M!Line), NEW i \in 0..Len(h)
  PROVE  /\ Heads(h, i) = {} => M!GroupAt(h, i) = None
         /\ Heads(h, i) # {} => /\ M!Max(Heads(h, i)) \in Heads(h, i)
                                /\ \A j \in Heads(h, i) : M!Max(Heads(h, i)) >= j
                                /\ M!GroupAt(h, i) = h[M!Max(Heads(h, i))].head
<1>1. M!GroupAt(h, i) = IF Heads(h, i) = {} THEN None ELSE h[M!Max(Heads(h, i))].head
  BY DEF M!GroupAt, Heads
<1>2. Heads(h, i) \in SUBSET (0..i) /\ i \in Nat
  BY DEF Heads
<1> QED
  BY <1>1, <1>2, MaxIs

LEMMA GroupType == ASSUME NEW h \in Seq(M!Line), NEW i \in 0..Len(h) PROVE M!GroupAt(h, i) \in Groups
<1>1. CASE Heads(h, i) = {}
  BY <1>1, GroupIs DEF Groups
<1>2. CASE Heads(h, i) # {}
  <2>1. PICK j \in 1..i : M!GroupAt(h, i) = h[j].head
    BY <1>2, GroupIs DEF Heads
  <2>2. h[j] \in M!Line
    BY <2>1
  <2> QED
    BY <2>1, <2>2 DEF Groups, M!Line
<1> QED
  BY <1>1, <1>2

LEMMA GroupSame ==
  ASSUME NEW h \in Seq(M!Line), NEW h2 \in Seq(M!Line), NEW i \in 0..Len(h), i <= Len(h2),
         \A j \in 1..i : h2[j].head = h[j].head
  PROVE  M!GroupAt(h2, i) = M!GroupAt(h, i)
<1>1. Heads(h2, i) = Heads(h, i) /\ i \in 0..Len(h2)
  BY DEF Heads
<1>2. CASE Heads(h, i) = {}
  BY <1>1, <1>2, GroupIs
<1>3. CASE Heads(h, i) # {}
  <2>1. M!Max(Heads(h, i)) \in 1..i
    BY <1>3, GroupIs DEF Heads
  <2> QED
    BY <1>1, <1>3, <2>1, GroupIs
<1> QED
  BY <1>2, <1>3

LEMMA GroupHead ==
  ASSUME NEW h \in Seq(M!Line), NEW i \in 1..Len(h), h[i].head # None
  PROVE  M!GroupAt(h, i) = h[i].head
<1>1. i \in Heads(h, i) /\ i \in 0..Len(h)
  BY DEF Heads
<1>2. M!Max(Heads(h, i)) \in 1..i /\ M!Max(Heads(h, i)) >= i
  BY <1>1, GroupIs DEF Heads
<1>3. M!Max(Heads(h, i)) = i
  BY <1>2
<1> QED
  BY <1>1, <1>3, GroupIs

LEMMA GroupRest ==
  ASSUME NEW h \in Seq(M!Line), NEW m \in 0..Len(h), NEW i \in m..Len(h),
         \A j \in (m+1)..i : h[j].head = None
  PROVE  M!GroupAt(h, i) = M!GroupAt(h, m)
<1>1. Heads(h, i) = Heads(h, m) /\ i \in 0..Len(h)
  BY DEF Heads
<1> QED
  BY <1>1, GroupIs

-----------------------------------------------------------------------------
\* The functions by recursion of MimeApps exist, and do what they say.
Sifts(f, l, a) ==
  /\ f \in [0..Len(l) -> Seq(Paths)] /\ f[0] = <<>>
  /\ \A n \in 1..Len(l) : f[n] = IF l[n] = a THEN f[n-1] ELSE Append(f[n-1], l[n])
  /\ M!Without(l, a) = f[Len(l)]

LEMMA SiftsRun ==
  ASSUME NEW l \in Seq(Paths), NEW a
  PROVE  \E f : Sifts(f, l, a)
<1> DEFINE N == Len(l)
           D == Seq(Paths)
           E(x, n) == IF l[n] = a THEN x ELSE Append(x, l[n])
           run[n \in 0..Len(l)] == IF n = 0 THEN <<>> ELSE E(run[n-1], n)
           step == [x \in D \X (1..N) |-> E(x[1], x[2])]
<1>1. M!Without(l, a) = run[N]
  BY DEF M!Without
<1>2. N \in Nat /\ <<>> \in D
  OBVIOUS
<1>3. ASSUME NEW x \in D, NEW n \in 1..N PROVE E(x, n) \in D
  OBVIOUS
<1> HIDE DEF N, D, E
<1>4. step \in [D \X (1..N) -> D]
  BY <1>3
<1>5. PICK g : Repeats(g, D, <<>>, step, N)
  BY <1>2, <1>4, Repeated
<1>6. g \in [0..N -> D] /\ g[0] = <<>>
  BY <1>5 DEF Repeats
<1>7. ASSUME NEW n \in 1..N PROVE g[n] = E(g[n-1], n)
  <2>1. n - 1 \in 0..N
    BY <1>2
  <2>2. <<g[n-1], n>> \in D \X (1..N)
    BY <1>6, <2>1
  <2>3. g[n] = step[<<g[n-1], n>>]
    BY <1>5 DEF Repeats
  <2> QED
    BY <2>2, <2>3
<1>8. g = [n \in 0..N |-> IF n = 0 THEN <<>> ELSE E(g[n-1], n)]
  BY <1>2, <1>6, <1>7
<1>9. run = [n \in 0..N |-> IF n = 0 THEN <<>> ELSE E(run[n-1], n)]
  BY <1>8 DEF N
<1> HIDE DEF run, step
<1>10. run[0] = <<>> /\ \A n \in 1..N : run[n] = E(run[n-1], n)
  BY <1>2, <1>9
<1>11. \A n \in 1..N : run[n-1] \in D => run[n] \in D
  BY <1>3, <1>10
<1>12. run[0] \in D
  BY <1>2, <1>10
<1>13. \A n \in 0..N : run[n] \in D
  BY <1>2, <1>11, <1>12, StaysIn
<1>14. run \in [0..N -> D]
  BY <1>9, <1>13
<1> QED
  BY <1>1, <1>10, <1>14 DEF Sifts, N, D, E

Extends(f, c, ps) ==
  /\ f \in [0..Len(ps) -> Seq(Types)] /\ f[0] = c
  /\ \A n \in 1..Len(ps) : f[n] = IF M!Contains(f[n-1], ps[n]) THEN f[n-1] ELSE Append(f[n-1], ps[n])
  /\ M!Visit(c, ps) = f[Len(ps)]

LEMMA ExtendsRun ==
  ASSUME NEW c \in Seq(Types), NEW ps \in Seq(Types)
  PROVE  \E f : Extends(f, c, ps)
<1> DEFINE N == Len(ps)
           D == Seq(Types)
           E(x, n) == IF M!Contains(x, ps[n]) THEN x ELSE Append(x, ps[n])
           run[n \in 0..Len(ps)] == IF n = 0 THEN c ELSE E(run[n-1], n)
           step == [x \in D \X (1..N) |-> E(x[1], x[2])]
<1>1. M!Visit(c, ps) = run[N]
  BY DEF M!Visit
<1>2. N \in Nat /\ c \in D
  OBVIOUS
<1>3. ASSUME NEW x \in D, NEW n \in 1..N PROVE E(x, n) \in D
  OBVIOUS
<1> HIDE DEF N, D, E
<1>4. step \in [D \X (1..N) -> D]
  BY <1>3
<1>5. PICK g : Repeats(g, D, c, step, N)
  BY <1>2, <1>4, Repeated
<1>6. g \in [0..N -> D] /\ g[0] = c
  BY <1>5 DEF Repeats
<1>7. ASSUME NEW n \in 1..N PROVE g[n] = E(g[n-1], n)
  <2>1. n - 1 \in 0..N
    BY <1>2
  <2>2. <<g[n-1], n>> \in D \X (1..N)
    BY <1>6, <2>1
  <2>3. g[n] = step[<<g[n-1], n>>]
    BY <1>5 DEF Repeats
  <2> QED
    BY <2>2, <2>3
<1>8. g = [n \in 0..N |-> IF n = 0 THEN c ELSE E(g[n-1], n)]
  BY <1>2, <1>6, <1>7
<1>9. run = [n \in 0..N |-> IF n = 0 THEN c ELSE E(run[n-1], n)]
  BY <1>8 DEF N
<1> HIDE DEF run, step
<1>10. run[0] = c /\ \A n \in 1..N : run[n] = E(run[n-1], n)
  BY <1>2, <1>9
<1>11. \A n \in 1..N : run[n-1] \in D => run[n] \in D
  BY <1>3, <1>10
<1>12. run[0] \in D
  BY <1>2, <1>10
<1>13. \A n \in 0..N : run[n] \in D
  BY <1>2, <1>11, <1>12, StaysIn
<1>14. run \in [0..N -> D]
  BY <1>9, <1>13
<1> QED
  BY <1>1, <1>10, <1>14 DEF Extends, N, D, E

Foreigns(f, h) ==
  /\ f \in [0..Len(h) -> Seq(M!Line \X Groups)] /\ f[0] = <<>>
  /\ \A n \in 1..Len(h) : f[n] = IF Foreigner(h, n) THEN Append(f[n-1], <<h[n], M!GroupAt(h, n)>>) ELSE f[n-1]
  /\ M!Foreign(h) = f[Len(h)]

LEMMA ForeignsRun ==
  ASSUME NEW h \in Seq(M!Line)
  PROVE  \E f : Foreigns(f, h)
<1> DEFINE N == Len(h)
           D == Seq(M!Line \X Groups)
           E(x, n) == IF Foreigner(h, n) THEN Append(x, <<h[n], M!GroupAt(h, n)>>) ELSE x
           run[n \in 0..Len(h)] == IF n = 0 THEN <<>> ELSE E(run[n-1], n)
           step == [x \in D \X (1..N) |-> E(x[1], x[2])]
<1>1. M!Foreign(h) = run[N]
  BY DEF M!Foreign, Foreigner
<1>2. N \in Nat /\ <<>> \in D
  OBVIOUS
<1>3. ASSUME NEW x \in D, NEW n \in 1..N PROVE E(x, n) \in D
  BY GroupType
<1> HIDE DEF N, D, E
<1>4. step \in [D \X (1..N) -> D]
  BY <1>3
<1>5. PICK g : Repeats(g, D, <<>>, step, N)
  BY <1>2, <1>4, Repeated
<1>6. g \in [0..N -> D] /\ g[0] = <<>>
  BY <1>5 DEF Repeats
<1>7. ASSUME NEW n \in 1..N PROVE g[n] = E(g[n-1], n)
  <2>1. n - 1 \in 0..N
    BY <1>2
  <2>2. <<g[n-1], n>> \in D \X (1..N)
    BY <1>6, <2>1
  <2>3. g[n] = step[<<g[n-1], n>>]
    BY <1>5 DEF Repeats
  <2> QED
    BY <2>2, <2>3
<1>8. g = [n \in 0..N |-> IF n = 0 THEN <<>> ELSE E(g[n-1], n)]
  BY <1>2, <1>6, <1>7
<1>9. run = [n \in 0..N |-> IF n = 0 THEN <<>> ELSE E(run[n-1], n)]
  BY <1>8 DEF N
<1> HIDE DEF run, step
<1>10. run[0] = <<>> /\ \A n \in 1..N : run[n] = E(run[n-1], n)
  BY <1>2, <1>9
<1>11. \A n \in 1..N : run[n-1] \in D => run[n] \in D
  BY <1>3, <1>10
<1>12. run[0] \in D
  BY <1>2, <1>10
<1>13. \A n \in 0..N : run[n] \in D
  BY <1>2, <1>11, <1>12, StaysIn
<1>14. run \in [0..N -> D]
  BY <1>9, <1>13
<1> QED
  BY <1>1, <1>10, <1>14 DEF Foreigns, N, D, E

-----------------------------------------------------------------------------
\* Foreign.
LEMMA ForeignPrefix ==
  ASSUME NEW h \in Seq(M!Line), NEW h2 \in Seq(M!Line), Len(h) <= Len(h2),
         \A i \in 1..Len(h) : h2[i] = h[i],
         NEW f, Foreigns(f, h), NEW f2, Foreigns(f2, h2)
  PROVE  f2[Len(h)] = f[Len(h)]
<1>1. Len(h) \in Nat /\ Len(h2) \in Nat
  OBVIOUS
<1>2. ASSUME NEW n \in 1..Len(h), f2[n-1] = f[n-1] PROVE f2[n] = f[n]
  <2>1. M!GroupAt(h2, n) = M!GroupAt(h, n)
    BY <1>1, GroupSame
  <2>2. h2[n] = h[n] /\ (Foreigner(h2, n) <=> Foreigner(h, n))
    BY <2>1 DEF Foreigner
  <2>3. n \in 1..Len(h2)
    BY <1>1
  <2>4. f[n] = IF Foreigner(h, n) THEN Append(f[n-1], <<h[n], M!GroupAt(h, n)>>) ELSE f[n-1]
    BY DEF Foreigns
  <2>5. f2[n] = IF Foreigner(h2, n) THEN Append(f2[n-1], <<h2[n], M!GroupAt(h2, n)>>) ELSE f2[n-1]
    BY <2>3 DEF Foreigns
  <2> QED
    BY <1>2, <2>1, <2>2, <2>4, <2>5
<1> DEFINE P == {n \in 0..Len(h) : f2[n] = f[n]}
<1>3. 0 \in P
  BY <1>1 DEF Foreigns
<1>4. \A n \in 1..Len(h) : n - 1 \in P => n \in P
  BY <1>2
<1> HIDE DEF P
<1>5. \A n \in 0..Len(h) : n \in P
  BY <1>1, <1>3, <1>4, UpTo
<1>6. Len(h) \in P
  BY <1>1, <1>5
<1> QED
  BY <1>6 DEF P

LEMMA ForeignSame ==
  ASSUME NEW h \in Seq(M!Line), NEW h2 \in Seq(M!Line), Len(h) <= Len(h2),
         \A i \in 1..Len(h) : h2[i] = h[i],
         \A i \in (Len(h)+1)..Len(h2) : ~Foreigner(h2, i)
  PROVE  M!Foreign(h2) = M!Foreign(h)
<1>1. PICK f : Foreigns(f, h)
  BY ForeignsRun
<1>2. PICK f2 : Foreigns(f2, h2)
  BY ForeignsRun
<1>3. Len(h) \in Nat /\ Len(h2) \in Nat
  OBVIOUS
<1>5. f2[Len(h)] = f[Len(h)]
  BY <1>1, <1>2, ForeignPrefix
<1>6. ASSUME NEW n \in (Len(h)+1)..Len(h2) PROVE f2[n] = f2[n-1]
  <2>1. n \in 1..Len(h2) /\ ~Foreigner(h2, n)
    BY <1>3
  <2>2. f2[n] = IF Foreigner(h2, n) THEN Append(f2[n-1], <<h2[n], M!GroupAt(h2, n)>>) ELSE f2[n-1]
    BY <1>2, <2>1 DEF Foreigns
  <2> QED
    BY <2>1, <2>2
<1>7. f2[Len(h2)] = f2[Len(h)]
  <2> DEFINE d == Len(h2) - Len(h)
             P == {n \in 0..d : f2[Len(h) + n] = f2[Len(h)]}
  <2>1. 0 \in P /\ d \in Nat
    BY <1>3
  <2>2. ASSUME NEW n \in 1..d, n - 1 \in P PROVE n \in P
    <3>1. Len(h) + n \in (Len(h)+1)..Len(h2) /\ Len(h) + n - 1 = Len(h) + (n - 1)
      BY <1>3
    <3>2. f2[Len(h) + n] = f2[Len(h) + (n - 1)]
      BY <1>6, <3>1
    <3> QED
      BY <2>2, <3>2
  <2> HIDE DEF P
  <2>3. \A n \in 0..d : n \in P
    BY <2>1, <2>2, UpTo
  <2>4. d \in P
    BY <2>1, <2>3
  <2>5. f2[Len(h) + d] = f2[Len(h)] /\ Len(h) + d = Len(h2)
    BY <1>3, <2>4 DEF P
  <2> QED
    BY <2>5
<1> QED
  BY <1>1, <1>2, <1>5, <1>7 DEF Foreigns

\* One foreign line more.
LEMMA ForeignMore ==
  ASSUME NEW h \in Seq(M!Line), NEW x \in M!Line, Foreigner(Append(h, x), Len(h) + 1)
  PROVE  M!Foreign(Append(h, x)) = Append(M!Foreign(h), <<x, M!GroupAt(Append(h, x), Len(h) + 1)>>)
<1> DEFINE h2 == Append(h, x)
<1>1. /\ h2 \in Seq(M!Line) /\ Len(h2) = Len(h) + 1 /\ Len(h) \in Nat
      /\ h2[Len(h) + 1] = x /\ \A i \in 1..Len(h) : h2[i] = h[i]
  OBVIOUS
<1> HIDE DEF h2
<1>2. PICK f : Foreigns(f, h)
  BY ForeignsRun
<1>3. PICK f2 : Foreigns(f2, h2)
  BY <1>1, ForeignsRun
<1>5. f2[Len(h)] = f[Len(h)]
  <2>1. Len(h) <= Len(h2)
    BY <1>1
  <2> QED
    BY <1>1, <1>2, <1>3, <2>1, ForeignPrefix
<1>6. Len(h) + 1 \in 1..Len(h2) /\ Len(h) + 1 - 1 = Len(h)
  BY <1>1
<1>7. f2[Len(h) + 1] = Append(f2[Len(h)], <<h2[Len(h) + 1], M!GroupAt(h2, Len(h) + 1)>>)
  <2>1. Foreigner(h2, Len(h) + 1)
    BY DEF h2
  <2>2. f2[Len(h) + 1] = IF Foreigner(h2, Len(h) + 1)
                         THEN Append(f2[Len(h) + 1 - 1], <<h2[Len(h) + 1], M!GroupAt(h2, Len(h) + 1)>>)
                         ELSE f2[Len(h) + 1 - 1]
    BY <1>3, <1>6 DEF Foreigns
  <2> QED
    BY <1>6, <2>1, <2>2
<1>8. M!Foreign(h2) = Append(M!Foreign(h), <<x, M!GroupAt(h2, Len(h) + 1)>>)
  BY <1>1, <1>2, <1>3, <1>5, <1>7 DEF Foreigns
<1> QED
  BY <1>8 DEF h2

-----------------------------------------------------------------------------
\* A finite set as a sequence.
LEMMA SetToSeqIs ==
  ASSUME NEW S, IsFiniteSet(S)
  PROVE  /\ M!Cardinality(S) = Cardinality(S) /\ Cardinality(S) \in Nat
         /\ M!SetToSeq(S) \in [1..Cardinality(S) -> S]
         /\ \A x \in S : \E i \in 1..Cardinality(S) : M!SetToSeq(S)[i] = x
<1> DEFINE n == Cardinality(S)
<1>1. n \in Nat /\ ExistsBijection(1..n, S)
  BY FS_CardinalityType
<1>2. M!Cardinality(S) = n
  BY DEF M!Cardinality, Cardinality
<1> HIDE DEF n
<1>3. M!SetToSeq(S) = CHOOSE f \in [1..n -> S] : IsInjective(f)
  BY <1>2 DEF M!SetToSeq, M!IsInjective, IsInjective
<1>4. \E f \in [1..n -> S] : IsInjective(f)
  BY <1>1 DEF ExistsBijection, Bijection, Injection
<1>5. M!SetToSeq(S) \in [1..n -> S] /\ IsInjective(M!SetToSeq(S))
  BY <1>3, <1>4
<1>6. IsFiniteSet(1..n) /\ Cardinality(1..n) = n
  <2>1. 1 \in Int /\ n \in Int /\ (1 > n => n = 0) /\ (~(1 > n) => n - 1 + 1 = n)
    BY <1>1
  <2> QED
    BY <2>1, FS_Interval
<1>7. M!SetToSeq(S) \in Surjection(1..n, S)
  BY <1>5, <1>6, FS_Injection DEF Injection, n
<1> QED
  BY <1>1, <1>2, <1>5, <1>7 DEF Surjection, n

-----------------------------------------------------------------------------
\* What the entries of a file are to be.
Wish == Seq(Paths) \cup {None}
Assocs == [Defaults : [Types -> Paths \cup {None}], Added : [Types -> Wish], Removed : [Types -> Wish]]

LEMMA NoneApart ==
  /\ None \notin Types /\ None \notin Paths /\ None \notin Seq(Paths) /\ None \notin M!Managed
  /\ None # "Other" /\ "Other" \notin M!Managed
BY MimeAssumption DEF M!Managed

LEMMA ToWriteType ==
  ASSUME NEW assoc \in Assocs, NEW g \in M!Managed, NEW t \in Types
  PROVE  M!ToWrite(assoc, g, t) \in Wish
<1>1. CASE g = "Defaults"
  <2>1. assoc.Defaults[t] \in Paths \cup {None}
    BY DEF Assocs
  <2> QED
    BY <1>1, <2>1 DEF M!ToWrite, Wish
<1>2. CASE g # "Defaults"
  <2>1. assoc["Added"][t] \in Wish /\ assoc["Removed"][t] \in Wish
    BY DEF Assocs
  <2>2. g = "Added" \/ g = "Removed"
    BY <1>2 DEF M!Managed
  <2> QED
    BY <1>2, <2>1, <2>2 DEF M!ToWrite
<1> QED
  BY <1>1, <1>2

\* Lines a rendering adds to the end of a file: entries of g that it lacks.
Adds(e, out, assoc, g) ==
  /\ e \in Seq(M!Line)
  /\ \A i \in 1..Len(e) : /\ e[i].head = None /\ e[i].key \in M!Missing(out, assoc, g)
                          /\ e[i].apps = M!ToWrite(assoc, g, e[i].key)
  /\ \A t \in M!Missing(out, assoc, g) : \E i \in 1..Len(e) : e[i].key = t

LEMMA MissingIs ==
  ASSUME NEW out, NEW assoc \in Assocs, NEW g
  PROVE  /\ M!Missing(out, assoc, g) \subseteq Types /\ IsFiniteSet(M!Missing(out, assoc, g))
         /\ g \notin M!Managed => M!Missing(out, assoc, g) = {}
         /\ \A t \in M!Missing(out, assoc, g) :
              /\ g \in M!Managed /\ M!ToWrite(assoc, g, t) \in Seq(Paths)
              /\ M!EntriesOf(out, g, t) = {}
<1>1. M!Missing(out, assoc, g) \subseteq Types
  BY DEF M!Missing
<1>2. IsFiniteSet(M!Missing(out, assoc, g))
  BY <1>1, MimeAssumption, FS_Subset
<1>3. \A t \in M!Missing(out, assoc, g) : g \in M!Managed /\ M!ToWrite(assoc, g, t) # None
                                          /\ M!EntriesOf(out, g, t) = {}
  BY DEF M!Missing
<1>4. \A t \in M!Missing(out, assoc, g) : M!ToWrite(assoc, g, t) \in Seq(Paths)
  BY <1>1, <1>3, ToWriteType DEF Wish
<1> QED
  BY <1>1, <1>2, <1>3, <1>4 DEF M!Missing

LEMMA EntryType ==
  ASSUME NEW t \in Types, NEW l \in Seq(Paths)
  PROVE  /\ M!Entry(t, l) \in M!Line /\ M!Entry(t, l).head = None
         /\ M!Entry(t, l).key = t /\ M!Entry(t, l).apps = l
BY DEF M!Entry, M!Line

LEMMA FlushAdds ==
  ASSUME NEW out \in Seq(M!Line), NEW assoc \in Assocs, NEW g
  PROVE  \E e : Adds(e, out, assoc, g) /\ M!FlushMissing(out, assoc, g) = out \o e
<1> DEFINE S == M!Missing(out, assoc, g)
           s == M!SetToSeq(S)
           n == Cardinality(S)
           e == [i \in 1..n |-> M!Entry(s[i], M!ToWrite(assoc, g, s[i]))]
<1>1. IsFiniteSet(S) /\ S \subseteq Types /\ \A t \in S : M!ToWrite(assoc, g, t) \in Seq(Paths)
  BY MissingIs
<1>2. M!Cardinality(S) = n /\ n \in Nat /\ s \in [1..n -> S] /\ \A t \in S : \E i \in 1..n : s[i] = t
  BY <1>1, SetToSeqIs
<1>3. M!FlushMissing(out, assoc, g) = out \o e
  BY <1>2 DEF M!FlushMissing
<1> HIDE DEF S, s, n
<1>4. ASSUME NEW i \in 1..n
      PROVE  /\ e[i] \in M!Line /\ e[i].head = None /\ e[i].key = s[i] /\ s[i] \in S
             /\ e[i].apps = M!ToWrite(assoc, g, s[i])
  <2>1. s[i] \in S /\ s[i] \in Types /\ M!ToWrite(assoc, g, s[i]) \in Seq(Paths)
    BY <1>1, <1>2
  <2>2. e[i] = M!Entry(s[i], M!ToWrite(assoc, g, s[i]))
    OBVIOUS
  <2> QED
    BY <2>1, <2>2, EntryType
<1>5. DOMAIN e = 1..n
  OBVIOUS
<1>6. e = [i \in 1..n |-> e[i]]
  OBVIOUS
<1> HIDE DEF e
<1>7. e \in [1..n -> M!Line]
  BY <1>4, <1>6
<1>8. e \in Seq(M!Line) /\ Len(e) = n
  BY <1>2, <1>7
<1>9. \A t \in S : \E i \in 1..n : e[i].key = t
  BY <1>2, <1>4
<1>10. Adds(e, out, assoc, g)
  BY <1>4, <1>8, <1>9 DEF Adds, S
<1> QED
  BY <1>3, <1>10

-----------------------------------------------------------------------------
\* What is rendered so far: no entry of a managed group says anything else
\* than it is to say.
Right(out, assoc) ==
  \A i \in 1..Len(out) : M!GroupAt(out, i) \in M!Managed /\ out[i].key # None =>
    out[i].apps = M!ToWrite(assoc, M!GroupAt(out, i), out[i].key)
Sound(out, assoc) == out \in Seq(M!Line) /\ Right(out, assoc)
EndGroup(out) == M!GroupAt(out, Len(out))

\* More lines at the end leave those before them in their groups.
LEMMA PrefixGroups ==
  ASSUME NEW h \in Seq(M!Line), NEW e \in Seq(M!Line), NEW i \in 0..Len(h)
  PROVE  /\ h \o e \in Seq(M!Line) /\ Len(h \o e) = Len(h) + Len(e)
         /\ \A j \in 1..Len(h) : (h \o e)[j] = h[j]
         /\ M!GroupAt(h \o e, i) = M!GroupAt(h, i)
<1> DEFINE r == h \o e
<1>1. /\ r \in Seq(M!Line) /\ Len(r) = Len(h) + Len(e) /\ Len(h) \in Nat /\ Len(e) \in Nat
      /\ \A j \in 1..Len(h) : r[j] = h[j]
  OBVIOUS
<1> HIDE DEF r
<1>2. i <= Len(r) /\ \A j \in 1..i : r[j].head = h[j].head
  BY <1>1
<1>3. M!GroupAt(r, i) = M!GroupAt(h, i)
  BY <1>1, <1>2, GroupSame
<1> QED
  BY <1>1, <1>3 DEF r

LEMMA EntriesStay ==
  ASSUME NEW h \in Seq(M!Line), NEW e \in Seq(M!Line), NEW g, NEW t, M!EntriesOf(h, g, t) # {}
  PROVE  M!EntriesOf(h \o e, g, t) # {}
<1>1. PICK i \in DOMAIN h : h[i].key = t /\ M!GroupAt(h, i) = g
  BY DEF M!EntriesOf
<1>2. i \in 0..Len(h) /\ i \in 1..Len(h) /\ Len(h) \in Nat /\ Len(e) \in Nat
  BY <1>1
<1>3. (h \o e)[i].key = t /\ M!GroupAt(h \o e, i) = g
  BY <1>1, <1>2, PrefixGroups
<1>4. i \in DOMAIN (h \o e)
  BY <1>2, PrefixGroups
<1> QED
  BY <1>3, <1>4 DEF M!EntriesOf

\* Entries of the last group, added at the end.
LEMMA AddsKeep ==
  ASSUME NEW assoc \in Assocs, NEW out, Sound(out, assoc), NEW e, Adds(e, out, assoc, EndGroup(out))
  PROVE  /\ Sound(out \o e, assoc) /\ EndGroup(out \o e) = EndGroup(out)
         /\ M!Foreign(out \o e) = M!Foreign(out)
         /\ M!Missing(out \o e, assoc, EndGroup(out)) = {}
<1> DEFINE r == out \o e
           g == EndGroup(out)
<1>1. out \in Seq(M!Line) /\ e \in Seq(M!Line) /\ Len(out) \in Nat /\ Len(e) \in Nat
  BY DEF Sound, Adds
<1>2. /\ r \in Seq(M!Line) /\ Len(r) = Len(out) + Len(e)
      /\ \A j \in 1..Len(out) : r[j] = out[j] /\ M!GroupAt(r, j) = M!GroupAt(out, j)
      /\ M!GroupAt(r, Len(out)) = g
  BY <1>1, PrefixGroups DEF EndGroup
<1>3. \A j \in 1..Len(e) : r[Len(out) + j] = e[j]
  BY <1>1
<1> HIDE DEF r
<1>4. \A j \in (Len(out)+1)..Len(r) : j - Len(out) \in 1..Len(e) /\ r[j] = e[j - Len(out)]
  <2>1. ASSUME NEW j \in (Len(out)+1)..Len(r)
        PROVE  j - Len(out) \in 1..Len(e) /\ r[j] = e[j - Len(out)]
    <3>1. j - Len(out) \in 1..Len(e) /\ Len(out) + (j - Len(out)) = j
      BY <1>1, <1>2
    <3> QED
      BY <1>3, <3>1
  <2> QED
    BY <2>1
<1>5. \A j \in (Len(out)+1)..Len(r) :
        /\ r[j].head = None /\ r[j].key \in M!Missing(out, assoc, g)
        /\ r[j].apps = M!ToWrite(assoc, g, r[j].key)
  BY <1>4 DEF Adds
<1>6. ASSUME NEW j \in Len(out)..Len(r) PROVE M!GroupAt(r, j) = g
  <2>1. \A k \in (Len(out)+1)..j : r[k].head = None
    BY <1>1, <1>2, <1>5
  <2>2. Len(out) \in 0..Len(r)
    BY <1>1, <1>2
  <2>3. M!GroupAt(r, j) = M!GroupAt(r, Len(out))
    BY <1>2, <2>1, <2>2, GroupRest
  <2> QED
    BY <1>2, <2>3
<1>7. EndGroup(r) = g
  BY <1>1, <1>2, <1>6 DEF EndGroup
<1>8. Right(r, assoc)
  <2> SUFFICES ASSUME NEW i \in 1..Len(r), M!GroupAt(r, i) \in M!Managed, r[i].key # None
               PROVE  r[i].apps = M!ToWrite(assoc, M!GroupAt(r, i), r[i].key)
    BY DEF Right
  <2>1. CASE i \in 1..Len(out)
    BY <1>2, <2>1 DEF Sound, Right
  <2>2. CASE i \in (Len(out)+1)..Len(r)
    <3>1. M!GroupAt(r, i) = g
      BY <1>1, <1>2, <1>6, <2>2
    <3> QED
      BY <1>5, <2>2, <3>1
  <2> QED
    BY <1>1, <1>2, <2>1, <2>2
<1>9. ASSUME NEW j \in (Len(out)+1)..Len(r) PROVE ~Foreigner(r, j)
  <2>1. r[j].key \in M!Missing(out, assoc, g) /\ M!GroupAt(r, j) = g
    BY <1>1, <1>2, <1>5, <1>6
  <2>2. g \in M!Managed /\ r[j].key \in Types
    BY <2>1, MissingIs
  <2>3. r[j] # M!Comment
    BY <2>2, NoneApart DEF M!Comment
  <2> QED
    BY <2>1, <2>2, <2>3 DEF Foreigner
<1>10. M!Foreign(r) = M!Foreign(out)
  BY <1>1, <1>2, <1>9, ForeignSame
<1>11. ASSUME NEW t \in Types, M!ToWrite(assoc, g, t) # None, g \in M!Managed PROVE M!EntriesOf(r, g, t) # {}
  <2>1. CASE M!EntriesOf(out, g, t) # {}
    BY <1>1, <2>1, EntriesStay DEF r
  <2>2. CASE M!EntriesOf(out, g, t) = {}
    <3>1. t \in M!Missing(out, assoc, g)
      BY <1>11, <2>2 DEF M!Missing
    <3>2. PICK i \in 1..Len(e) : e[i].key = t
      BY <3>1 DEF Adds
    <3>3. Len(out) + i \in Len(out)..Len(r) /\ r[Len(out) + i].key = t /\ Len(out) + i \in DOMAIN r
      BY <1>1, <1>2, <1>3, <3>2
    <3>4. M!GroupAt(r, Len(out) + i) = g
      BY <1>6, <3>3
    <3> QED
      BY <3>3, <3>4 DEF M!EntriesOf
  <2> QED
    BY <2>1, <2>2
<1>12. M!Missing(r, assoc, g) = {}
  BY <1>11 DEF M!Missing
<1> QED
  BY <1>2, <1>7, <1>8, <1>10, <1>12 DEF r, Sound

\* What has nothing missing misses nothing later.
LEMMA MissingGrowsNot ==
  ASSUME NEW assoc, NEW h \in Seq(M!Line), NEW e \in Seq(M!Line), NEW g, M!Missing(h, assoc, g) = {}
  PROVE  M!Missing(h \o e, assoc, g) = {}
<1> SUFFICES ASSUME NEW t \in M!Missing(h \o e, assoc, g) PROVE FALSE
  OBVIOUS
<1>1. /\ g \in M!Managed /\ t \in Types /\ M!ToWrite(assoc, g, t) # None /\ M!EntriesOf(h \o e, g, t) = {}
  BY DEF M!Missing
<1>2. M!EntriesOf(h, g, t) # {}
  BY <1>1 DEF M!Missing
<1> QED
  BY <1>1, <1>2, EntriesStay

LEMMA FlushKeeps ==
  ASSUME NEW assoc \in Assocs, NEW out, Sound(out, assoc)
  PROVE  /\ Sound(M!FlushMissing(out, assoc, EndGroup(out)), assoc)
         /\ EndGroup(M!FlushMissing(out, assoc, EndGroup(out))) = EndGroup(out)
         /\ M!Foreign(M!FlushMissing(out, assoc, EndGroup(out))) = M!Foreign(out)
         /\ M!Missing(M!FlushMissing(out, assoc, EndGroup(out)), assoc, EndGroup(out)) = {}
         /\ \A g : M!Missing(out, assoc, g) = {} =>
                     M!Missing(M!FlushMissing(out, assoc, EndGroup(out)), assoc, g) = {}
<1>1. PICK e : Adds(e, out, assoc, EndGroup(out)) /\ M!FlushMissing(out, assoc, EndGroup(out)) = out \o e
  BY FlushAdds DEF Sound
<1>2. e \in Seq(M!Line) /\ out \in Seq(M!Line)
  BY <1>1 DEF Adds, Sound
<1> QED
  BY <1>1, <1>2, AddsKeep, MissingGrowsNot

-----------------------------------------------------------------------------
\* One line more at the end.
LEMMA AppendIs ==
  ASSUME NEW h \in Seq(M!Line), NEW x \in M!Line
  PROVE  /\ Append(h, x) \in Seq(M!Line) /\ Len(Append(h, x)) = Len(h) + 1 /\ Len(h) \in Nat
         /\ Append(h, x)[Len(h) + 1] = x
         /\ \A j \in 1..Len(h) : Append(h, x)[j] = h[j]
         /\ \A j \in 0..Len(h) : M!GroupAt(Append(h, x), j) = M!GroupAt(h, j)
         /\ EndGroup(Append(h, x)) = M!GroupAt(Append(h, x), Len(h) + 1)
         /\ EndGroup(Append(h, x)) = IF x.head = None THEN EndGroup(h) ELSE x.head
         /\ Append(h, x) = h \o <<x>> /\ <<x>> \in Seq(M!Line)
<1> DEFINE r == Append(h, x)
<1>1. /\ r \in Seq(M!Line) /\ Len(r) = Len(h) + 1 /\ Len(h) \in Nat
      /\ r[Len(h) + 1] = x /\ \A j \in 1..Len(h) : r[j] = h[j]
  OBVIOUS
<1>2. r = h \o <<x>> /\ <<x>> \in Seq(M!Line)
  OBVIOUS
<1> HIDE DEF r
<1>3. \A j \in 0..Len(h) : M!GroupAt(r, j) = M!GroupAt(h, j)
  <2>1. ASSUME NEW j \in 0..Len(h) PROVE M!GroupAt(r, j) = M!GroupAt(h, j)
    <3>1. j <= Len(r) /\ \A k \in 1..j : r[k].head = h[k].head
      BY <1>1
    <3> QED
      BY <1>1, <3>1, GroupSame
  <2> QED
    BY <2>1
<1>4. EndGroup(r) = M!GroupAt(r, Len(h) + 1)
  BY <1>1 DEF EndGroup
<1>5. CASE x.head = None
  <2>1. /\ Len(h) \in 0..Len(r) /\ Len(h) + 1 \in Len(h)..Len(r)
        /\ \A j \in (Len(h)+1)..(Len(h)+1) : r[j].head = None
    BY <1>1, <1>5
  <2>2. M!GroupAt(r, Len(h) + 1) = M!GroupAt(r, Len(h))
    BY <1>1, <2>1, GroupRest
  <2>3. M!GroupAt(r, Len(h)) = EndGroup(h)
    BY <1>1, <1>3 DEF EndGroup
  <2> QED
    BY <1>1, <1>2, <1>3, <1>4, <1>5, <2>2, <2>3 DEF r
<1>6. CASE x.head # None
  <2>1. Len(h) + 1 \in 1..Len(r) /\ r[Len(h) + 1].head # None
    BY <1>1, <1>6
  <2>2. M!GroupAt(r, Len(h) + 1) = x.head
    BY <1>1, <2>1, GroupHead
  <2> QED
    BY <1>1, <1>2, <1>3, <1>4, <1>6, <2>2 DEF r
<1> QED
  BY <1>5, <1>6

\* A line that says what it is to say may be added.
LEMMA AppendSound ==
  ASSUME NEW assoc \in Assocs, NEW out, Sound(out, assoc), NEW x \in M!Line,
         x.head = None /\ EndGroup(out) \in M!Managed /\ x.key # None =>
           x.apps = M!ToWrite(assoc, EndGroup(out), x.key)
  PROVE  Sound(Append(out, x), assoc)
<1> DEFINE r == Append(out, x)
<1>1. out \in Seq(M!Line)
  BY DEF Sound
<1>2. /\ r \in Seq(M!Line) /\ Len(r) = Len(out) + 1 /\ Len(out) \in Nat /\ r[Len(out) + 1] = x
      /\ \A j \in 1..Len(out) : r[j] = out[j]
      /\ \A j \in 0..Len(out) : M!GroupAt(r, j) = M!GroupAt(out, j)
      /\ M!GroupAt(r, Len(out) + 1) = IF x.head = None THEN EndGroup(out) ELSE x.head
  BY <1>1, AppendIs
<1>3. x.head # None => x.key = None
  BY DEF M!Line
<1> HIDE DEF r
<1>4. ASSUME NEW i \in 1..Len(r), M!GroupAt(r, i) \in M!Managed, r[i].key # None
      PROVE  r[i].apps = M!ToWrite(assoc, M!GroupAt(r, i), r[i].key)
  <2>1. CASE i \in 1..Len(out)
    BY <1>2, <1>4, <2>1 DEF Sound, Right
  <2>2. CASE i = Len(out) + 1
    BY <1>2, <1>3, <1>4, <2>2
  <2> QED
    BY <1>2, <2>1, <2>2
<1>5. Right(r, assoc)
  BY <1>4 DEF Right
<1> QED
  BY <1>2, <1>5 DEF Sound, r

\* The same line added to two files that end in the same group and have the
\* same foreign lines.
LEMMA SameForeign ==
  ASSUME NEW h \in Seq(M!Line), NEW x \in M!Line
  PROVE  M!Foreign(Append(h, x)) =
           LET g == IF x.head = None THEN EndGroup(h) ELSE x.head
           IN  IF g \notin M!Managed \/ x = M!Comment THEN Append(M!Foreign(h), <<x, g>>)
               ELSE M!Foreign(h)
<1> DEFINE r == Append(h, x)
           g == IF x.head = None THEN EndGroup(h) ELSE x.head
<1>1. /\ r \in Seq(M!Line) /\ Len(r) = Len(h) + 1 /\ Len(h) \in Nat /\ r[Len(h) + 1] = x
      /\ \A j \in 1..Len(h) : r[j] = h[j]
      /\ M!GroupAt(r, Len(h) + 1) = g
  BY AppendIs
<1> HIDE DEF r, g
<1>2. Foreigner(r, Len(h) + 1) <=> g \notin M!Managed \/ x = M!Comment
  BY <1>1 DEF Foreigner
<1>3. CASE g \notin M!Managed \/ x = M!Comment
  <2>1. M!Foreign(r) = Append(M!Foreign(h), <<x, g>>)
    BY <1>1, <1>2, <1>3, ForeignMore DEF r
  <2> QED
    BY <1>3, <2>1 DEF r, g
<1>4. CASE ~(g \notin M!Managed \/ x = M!Comment)
  <2>1. \A i \in (Len(h)+1)..Len(r) : ~Foreigner(r, i)
    BY <1>1, <1>2, <1>4
  <2>2. M!Foreign(r) = M!Foreign(h)
    BY <1>1, <2>1, ForeignSame
  <2> QED
    BY <1>4, <2>2 DEF r, g
<1> QED
  BY <1>3, <1>4

-----------------------------------------------------------------------------
\* One line of the file, rendered.
LEMMA RenderLineKeeps ==
  ASSUME NEW assoc \in Assocs, NEW out, Sound(out, assoc), NEW x \in M!Line
  PROVE  /\ Sound(M!RenderLine(out, x, assoc), assoc)
         /\ EndGroup(M!RenderLine(out, x, assoc)) = IF x.head = None THEN EndGroup(out) ELSE x.head
         /\ M!Foreign(M!RenderLine(out, x, assoc)) =
              LET g == IF x.head = None THEN EndGroup(out) ELSE x.head
              IN  IF g \notin M!Managed \/ x = M!Comment THEN Append(M!Foreign(out), <<x, g>>)
                  ELSE M!Foreign(out)
<1>1. out \in Seq(M!Line)
  BY DEF Sound
<1>2. M!GroupAt(out, Len(out)) = EndGroup(out)
  BY DEF EndGroup
<1>3. CASE x.head # None
  <2> DEFINE flushed == M!FlushMissing(out, assoc, EndGroup(out))
  <2>1. M!RenderLine(out, x, assoc) = Append(flushed, x)
    BY <1>2, <1>3 DEF M!RenderLine
  <2>2. Sound(flushed, assoc) /\ M!Foreign(flushed) = M!Foreign(out)
    BY FlushKeeps
  <2> HIDE DEF flushed
  <2>3. flushed \in Seq(M!Line)
    BY <2>2 DEF Sound
  <2>4. Sound(Append(flushed, x), assoc)
    BY <1>3, <2>2, AppendSound
  <2>5. EndGroup(Append(flushed, x)) = x.head
    BY <1>3, <2>3, AppendIs
  <2>6. M!Foreign(Append(flushed, x)) = IF x.head \notin M!Managed \/ x = M!Comment
                                        THEN Append(M!Foreign(out), <<x, x.head>>) ELSE M!Foreign(out)
    BY <1>3, <2>2, <2>3, SameForeign
  <2> QED
    BY <1>3, <2>1, <2>4, <2>5, <2>6
<1>4. CASE x.head = None /\ M!Verbatim(EndGroup(out), x)
  <2>1. M!RenderLine(out, x, assoc) = Append(out, x)
    BY <1>2, <1>4 DEF M!RenderLine
  <2>2. EndGroup(out) \in M!Managed => x.key = None
    BY <1>4 DEF M!Verbatim
  <2>3. Sound(Append(out, x), assoc)
    BY <2>2, AppendSound
  <2>4. EndGroup(Append(out, x)) = EndGroup(out)
    BY <1>1, <1>4, AppendIs
  <2>5. M!Foreign(Append(out, x)) =
          IF EndGroup(out) \notin M!Managed \/ x = M!Comment
          THEN Append(M!Foreign(out), <<x, EndGroup(out)>>) ELSE M!Foreign(out)
    BY <1>1, <1>4, SameForeign
  <2> QED
    BY <1>4, <2>1, <2>3, <2>4, <2>5
<1>5. CASE x.head = None /\ ~M!Verbatim(EndGroup(out), x)
  <2>1. EndGroup(out) \in M!Managed /\ x.key # None
    BY <1>5 DEF M!Verbatim
  <2>2. x # M!Comment
    BY <2>1 DEF M!Comment
  <2> DEFINE y == M!Entry(x.key, M!ToWrite(assoc, EndGroup(out), x.key))
  <2>3. M!RenderLine(out, x, assoc) = IF x.key \notin M!Missing(out, assoc, EndGroup(out)) THEN out ELSE Append(out, y)
    BY <1>2, <1>5 DEF M!RenderLine
  <2>4. CASE x.key \notin M!Missing(out, assoc, EndGroup(out))
    BY <1>5, <2>1, <2>2, <2>3, <2>4
  <2>5. CASE x.key \in M!Missing(out, assoc, EndGroup(out))
    <3>1. x.key \in Types /\ M!ToWrite(assoc, EndGroup(out), x.key) \in Seq(Paths)
      BY <2>5, MissingIs
    <3>2. y \in M!Line /\ y.head = None /\ y.key = x.key /\ y.apps = M!ToWrite(assoc, EndGroup(out), x.key)
      BY <3>1, EntryType
    <3> HIDE DEF y
    <3>3. y # M!Comment
      BY <2>1, <3>2 DEF M!Comment
    <3>4. Sound(Append(out, y), assoc)
      BY <3>2, AppendSound
    <3>5. EndGroup(Append(out, y)) = EndGroup(out) /\ M!Foreign(Append(out, y)) = M!Foreign(out)
      BY <1>1, <2>1, <3>2, <3>3, AppendIs, SameForeign
    <3> QED
      BY <1>5, <2>1, <2>2, <2>3, <2>5, <3>4, <3>5
  <2> QED
    BY <2>4, <2>5
<1> QED
  BY <1>3, <1>4, <1>5

-----------------------------------------------------------------------------
\* All the lines of a file, rendered.
Sounds(assoc) == {out \in Seq(M!Line) : Right(out, assoc)}

LEMMA SoundStart == ASSUME NEW assoc PROVE <<>> \in Sounds(assoc)
<1>1. <<>> \in Seq(M!Line) /\ 1..Len(<<>>) = {}
  OBVIOUS
<1> QED
  BY <1>1 DEF Sounds, Right

LEMMA SoundsSound == ASSUME NEW assoc, NEW out PROVE out \in Sounds(assoc) <=> Sound(out, assoc)
BY DEF Sounds, Sound

Renders(f, h, assoc) ==
  /\ f \in [0..Len(h) -> Sounds(assoc)] /\ f[0] = <<>>
  /\ \A n \in 1..Len(h) : f[n] = M!RenderLine(f[n-1], h[n], assoc)
  /\ M!Rendered(h, assoc) = f[Len(h)]

LEMMA RendersRun ==
  ASSUME NEW h \in Seq(M!Line), NEW assoc \in Assocs
  PROVE  \E f : Renders(f, h, assoc)
<1> DEFINE N == Len(h)
           D == Sounds(assoc)
           E(x, n) == M!RenderLine(x, h[n], assoc)
           run[n \in 0..Len(h)] == IF n = 0 THEN <<>> ELSE E(run[n-1], n)
           step == [x \in D \X (1..N) |-> E(x[1], x[2])]
<1>1. M!Rendered(h, assoc) = run[N]
  BY DEF M!Rendered
<1>2. N \in Nat /\ <<>> \in D
  BY SoundStart
<1>3. ASSUME NEW x \in D, NEW n \in 1..N PROVE E(x, n) \in D
  <2>1. h[n] \in M!Line
    OBVIOUS
  <2> QED
    BY <1>3, <2>1, RenderLineKeeps, SoundsSound
<1> HIDE DEF N, D, E
<1>4. step \in [D \X (1..N) -> D]
  BY <1>3
<1>5. PICK g : Repeats(g, D, <<>>, step, N)
  BY <1>2, <1>4, Repeated
<1>6. g \in [0..N -> D] /\ g[0] = <<>>
  BY <1>5 DEF Repeats
<1>7. ASSUME NEW n \in 1..N PROVE g[n] = E(g[n-1], n)
  <2>1. n - 1 \in 0..N
    BY <1>2
  <2>2. <<g[n-1], n>> \in D \X (1..N)
    BY <1>6, <2>1
  <2>3. g[n] = step[<<g[n-1], n>>]
    BY <1>5 DEF Repeats
  <2> QED
    BY <2>2, <2>3
<1>8. g = [n \in 0..N |-> IF n = 0 THEN <<>> ELSE E(g[n-1], n)]
  BY <1>2, <1>6, <1>7
<1>9. run = [n \in 0..N |-> IF n = 0 THEN <<>> ELSE E(run[n-1], n)]
  BY <1>8 DEF N
<1> HIDE DEF run, step
<1>10. run[0] = <<>> /\ \A n \in 1..N : run[n] = E(run[n-1], n)
  BY <1>2, <1>9
<1>11. \A n \in 1..N : run[n-1] \in D => run[n] \in D
  BY <1>3, <1>10
<1>12. run[0] \in D
  BY <1>2, <1>10
<1>13. \A n \in 0..N : run[n] \in D
  BY <1>2, <1>11, <1>12, StaysIn
<1>14. run \in [0..N -> D]
  BY <1>9, <1>13
<1> QED
  BY <1>1, <1>10, <1>14 DEF Renders, N, D, E

LEMMA RenderedIs ==
  ASSUME NEW h \in Seq(M!Line), NEW assoc \in Assocs
  PROVE  /\ Sound(M!Rendered(h, assoc), assoc)
         /\ M!Foreign(M!Rendered(h, assoc)) = M!Foreign(h)
<1>1. PICK r : Renders(r, h, assoc)
  BY RendersRun
<1>2. PICK f : Foreigns(f, h)
  BY ForeignsRun
<1>3. Len(h) \in Nat
  OBVIOUS
<1>4. r \in [0..Len(h) -> Sounds(assoc)]
  BY <1>1 DEF Renders
<1> DEFINE P == {n \in 0..Len(h) : M!Foreign(r[n]) = f[n] /\ EndGroup(r[n]) = M!GroupAt(h, n)}
<1>5. 0 \in P
  <2>1. r[0] = <<>> /\ f[0] = <<>>
    BY <1>1, <1>2 DEF Renders, Foreigns
  <2>2. <<>> \in Seq(M!Line) /\ Len(<<>>) = 0
    OBVIOUS
  <2>3. PICK f0 : Foreigns(f0, <<>>)
    BY <2>2, ForeignsRun
  <2>4. M!Foreign(<<>>) = <<>>
    BY <2>2, <2>3 DEF Foreigns
  <2>5. EndGroup(<<>>) = None /\ M!GroupAt(h, 0) = None
    <3>1. Heads(<<>>, 0) = {} /\ Heads(h, 0) = {} /\ 0 \in 0..Len(h) /\ 0 \in 0..Len(<<>>)
      BY <1>3, <2>2 DEF Heads
    <3> QED
      BY <2>2, <3>1, GroupIs DEF EndGroup
  <2> QED
    BY <1>3, <2>1, <2>4, <2>5
<1>6. ASSUME NEW n \in 1..Len(h), n - 1 \in P PROVE n \in P
  <2>1. /\ n - 1 \in 0..Len(h) /\ h[n] \in M!Line /\ Sound(r[n-1], assoc)
        /\ M!Foreign(r[n-1]) = f[n-1] /\ EndGroup(r[n-1]) = M!GroupAt(h, n - 1)
    BY <1>3, <1>4, <1>6, SoundsSound
  <2>2. r[n] = M!RenderLine(r[n-1], h[n], assoc)
    BY <1>1 DEF Renders
  <2>3. M!GroupAt(h, n) = IF h[n].head = None THEN M!GroupAt(h, n - 1) ELSE h[n].head
    <3>1. CASE h[n].head = None
      <4>1. n \in (n-1)..Len(h) /\ \A j \in (n-1+1)..n : h[j].head = None
        BY <1>3, <3>1
      <4> QED
        BY <2>1, <3>1, <4>1, GroupRest
    <3>2. CASE h[n].head # None
      BY <3>2, GroupHead
    <3> QED
      BY <3>1, <3>2
  <2>4. EndGroup(r[n]) = M!GroupAt(h, n)
    BY <2>1, <2>2, <2>3, RenderLineKeeps
  <2>5. M!Foreign(r[n]) = IF M!GroupAt(h, n) \notin M!Managed \/ h[n] = M!Comment
                          THEN Append(f[n-1], <<h[n], M!GroupAt(h, n)>>) ELSE f[n-1]
    <3> DEFINE g == IF h[n].head = None THEN EndGroup(r[n-1]) ELSE h[n].head
    <3>1. g = M!GroupAt(h, n)
      BY <2>1, <2>3
    <3>2. M!Foreign(M!RenderLine(r[n-1], h[n], assoc)) =
            IF g \notin M!Managed \/ h[n] = M!Comment
            THEN Append(M!Foreign(r[n-1]), <<h[n], g>>) ELSE M!Foreign(r[n-1])
      BY <2>1, RenderLineKeeps
    <3> HIDE DEF g
    <3> QED
      BY <2>1, <2>2, <3>1, <3>2
  <2>6. f[n] = IF Foreigner(h, n) THEN Append(f[n-1], <<h[n], M!GroupAt(h, n)>>) ELSE f[n-1]
    BY <1>2 DEF Foreigns
  <2>7. M!Foreign(r[n]) = f[n]
    BY <2>5, <2>6 DEF Foreigner
  <2> QED
    BY <2>4, <2>7
<1> HIDE DEF P
<1>7. \A n \in 0..Len(h) : n \in P
  BY <1>3, <1>5, <1>6, UpTo
<1>8. Len(h) \in P /\ Len(h) \in 0..Len(h)
  BY <1>3, <1>7
<1> QED
  BY <1>1, <1>2, <1>4, <1>8, SoundsSound DEF P, Renders, Foreigns

\* A group that was not in the file.
LEMMA AddGroupKeeps ==
  ASSUME NEW assoc \in Assocs, NEW out, Sound(out, assoc), NEW g \in M!Managed
  PROVE  /\ Sound(M!AddGroup(out, assoc, g), assoc)
         /\ M!Foreign(M!AddGroup(out, assoc, g)) = M!Foreign(out)
         /\ M!Missing(M!AddGroup(out, assoc, g), assoc, g) = {}
         /\ \A g2 : M!Missing(out, assoc, g2) = {} => M!Missing(M!AddGroup(out, assoc, g), assoc, g2) = {}
<1>1. CASE M!Missing(out, assoc, g) = {}
  BY <1>1 DEF M!AddGroup
<1>2. CASE M!Missing(out, assoc, g) # {}
  <2> DEFINE x == M!Header(g)
             more == Append(out, x)
  <2>1. x \in M!Line /\ x.head = g /\ g # None /\ x # M!Comment
    <3>1. g # None
      BY NoneApart
    <3>2. <<>> \in Seq(Paths)
      OBVIOUS
    <3> QED
      BY <3>1, <3>2 DEF M!Header, M!Line, M!Comment
  <2>2. out \in Seq(M!Line)
    BY DEF Sound
  <2> HIDE DEF x
  <2>3. Sound(more, assoc)
    BY <2>1, AppendSound
  <2>4. EndGroup(more) = g /\ more = out \o <<x>> /\ <<x>> \in Seq(M!Line)
    BY <2>1, <2>2, AppendIs
  <2>5. M!Foreign(more) = M!Foreign(out)
    BY <2>1, <2>2, SameForeign
  <2>6. \A g2 : M!Missing(out, assoc, g2) = {} => M!Missing(more, assoc, g2) = {}
    BY <2>2, <2>4, MissingGrowsNot
  <2>7. M!AddGroup(out, assoc, g) = M!FlushMissing(more, assoc, g)
    BY <1>2 DEF M!AddGroup, x
  <2> HIDE DEF more
  <2> QED
    BY <2>3, <2>4, <2>5, <2>6, <2>7, FlushKeeps
<1> QED
  BY <1>1, <1>2

LEMMA RenderIs ==
  ASSUME NEW h \in Seq(M!Line), NEW assoc \in Assocs
  PROVE  /\ Sound(M!Render(h, assoc), assoc)
         /\ M!Foreign(M!Render(h, assoc)) = M!Foreign(h)
         /\ \A g \in M!Managed : M!Missing(M!Render(h, assoc), assoc, g) = {}
<1> DEFINE lines == M!Rendered(h, assoc)
           body  == M!FlushMissing(lines, assoc, EndGroup(lines))
           one   == M!AddGroup(body, assoc, "Defaults")
           two   == M!AddGroup(one, assoc, "Added")
           three == M!AddGroup(two, assoc, "Removed")
<1>1. M!Render(h, assoc) = three
  BY DEF M!Render, EndGroup
<1>2. M!Managed = {"Defaults", "Added", "Removed"}
  BY DEF M!Managed
<1>3. Sound(lines, assoc) /\ M!Foreign(lines) = M!Foreign(h)
  BY RenderedIs
<1> HIDE DEF lines
<1>4. Sound(body, assoc) /\ M!Foreign(body) = M!Foreign(h)
  BY <1>3, FlushKeeps
<1> HIDE DEF body
<1>5. Sound(one, assoc) /\ M!Foreign(one) = M!Foreign(h) /\ M!Missing(one, assoc, "Defaults") = {}
  BY <1>2, <1>4, AddGroupKeeps
<1> HIDE DEF one
<1>6. /\ Sound(two, assoc) /\ M!Foreign(two) = M!Foreign(h)
      /\ M!Missing(two, assoc, "Defaults") = {} /\ M!Missing(two, assoc, "Added") = {}
  BY <1>2, <1>5, AddGroupKeeps
<1> HIDE DEF two
<1>7. /\ Sound(three, assoc) /\ M!Foreign(three) = M!Foreign(h)
      /\ M!Missing(three, assoc, "Defaults") = {} /\ M!Missing(three, assoc, "Added") = {}
      /\ M!Missing(three, assoc, "Removed") = {}
  BY <1>2, <1>6, AddGroupKeeps
<1> HIDE DEF three
<1> QED
  BY <1>1, <1>2, <1>7

-----------------------------------------------------------------------------
\* Reading.
LEMMA ApplyIs ==
  ASSUME NEW h \in Seq(M!Line), NEW g, NEW t
  PROVE  /\ M!EntriesOf(h, g, t) = {} => M!Apply(h, g, t) = None
         /\ M!EntriesOf(h, g, t) # {} => \E i \in M!EntriesOf(h, g, t) : M!Apply(h, g, t) = h[i].apps
<1>1. M!Apply(h, g, t) = IF M!EntriesOf(h, g, t) = {} THEN None ELSE h[M!Min(M!EntriesOf(h, g, t))].apps
  BY DEF M!Apply
<1>2. M!EntriesOf(h, g, t) \in SUBSET Nat
  BY DEF M!EntriesOf
<1> QED
  BY <1>1, <1>2, MinIs

LEMMA ApplyType ==
  ASSUME NEW h \in Seq(M!Line), NEW g, NEW t
  PROVE  M!Apply(h, g, t) \in Wish
<1>1. \A i \in M!EntriesOf(h, g, t) : h[i].apps \in Seq(Paths)
  <2>1. \A i \in M!EntriesOf(h, g, t) : h[i] \in M!Line
    BY DEF M!EntriesOf
  <2> QED
    BY <2>1 DEF M!Line
<1> QED
  BY <1>1, ApplyIs DEF Wish

LEMMA FirstType ==
  ASSUME NEW l \in Wish PROVE (IF l \in {None, <<>>} THEN None ELSE l[1]) \in Paths \cup {None}
<1>1. CASE l \in Seq(Paths) /\ l # <<>>
  BY <1>1 DEF Wish
<1>2. CASE l \in {None, <<>>}
  BY <1>2
<1> QED
  BY <1>1, <1>2 DEF Wish

LEMMA AssociationsType == ASSUME NEW h \in Seq(M!Line) PROVE M!Associations(h) \in Assocs
<1>1. /\ [t \in Types |-> M!Apply(h, "Added", t)] \in [Types -> Wish]
      /\ [t \in Types |-> M!Apply(h, "Removed", t)] \in [Types -> Wish]
  BY ApplyType
<1>2. [t \in Types |-> LET l == M!Apply(h, "Defaults", t) IN IF l \in {None, <<>>} THEN None ELSE l[1]]
        \in [Types -> Paths \cup {None}]
  BY ApplyType, FirstType
<1> QED
  BY <1>1, <1>2 DEF M!Associations, Assocs

\* What was rendered reads as it was meant.
LEMMA RenderReads ==
  ASSUME NEW h \in Seq(M!Line), NEW assoc \in Assocs
  PROVE  M!Associations(M!Render(h, assoc)) = assoc
<1> DEFINE r == M!Render(h, assoc)
<1>1. r \in Seq(M!Line) /\ Right(r, assoc) /\ \A g \in M!Managed : M!Missing(r, assoc, g) = {}
  BY RenderIs DEF Sound
<1> HIDE DEF r
<1>2. ASSUME NEW g \in M!Managed, NEW t \in Types PROVE M!Apply(r, g, t) = M!ToWrite(assoc, g, t)
  <2>1. ASSUME NEW i \in M!EntriesOf(r, g, t)
        PROVE  r[i].apps = M!ToWrite(assoc, g, t) /\ M!ToWrite(assoc, g, t) # None
    <3>1. i \in 1..Len(r) /\ r[i].key = t /\ M!GroupAt(r, i) = g /\ r[i] \in M!Line /\ t # None
      BY <1>1, NoneApart DEF M!EntriesOf
    <3>2. r[i].apps = M!ToWrite(assoc, g, t)
      BY <1>1, <3>1 DEF Right
    <3> QED
      BY <3>1, <3>2, NoneApart DEF M!Line
  <2>2. M!EntriesOf(r, g, t) = {} => M!ToWrite(assoc, g, t) = None
    BY <1>1 DEF M!Missing
  <2> QED
    BY <1>1, <2>1, <2>2, ApplyIs
<1>3. {"Defaults", "Added", "Removed"} = M!Managed
  BY DEF M!Managed
<1>4. ASSUME NEW t \in Types
      PROVE  (LET l == M!Apply(r, "Defaults", t) IN IF l \in {None, <<>>} THEN None ELSE l[1]) = assoc.Defaults[t]
  <2>1. M!Apply(r, "Defaults", t) = IF assoc.Defaults[t] = None THEN None ELSE <<assoc.Defaults[t]>>
    BY <1>2, <1>3 DEF M!ToWrite
  <2>2. CASE assoc.Defaults[t] = None
    BY <2>1, <2>2
  <2>3. CASE assoc.Defaults[t] # None
    <3>1. assoc.Defaults[t] \in Paths
      BY <2>3 DEF Assocs
    <3>2. <<assoc.Defaults[t]>> \in Seq(Paths) /\ <<assoc.Defaults[t]>> # <<>> /\ <<assoc.Defaults[t]>>[1] = assoc.Defaults[t]
      BY <3>1
    <3> QED
      BY <2>1, <2>3, <3>2, NoneApart
  <2> QED
    BY <2>2, <2>3
<1>5. \A t \in Types : /\ M!Apply(r, "Added", t) = assoc.Added[t]
                       /\ M!Apply(r, "Removed", t) = assoc.Removed[t]
  <2>1. ASSUME NEW t \in Types
        PROVE  M!ToWrite(assoc, "Added", t) = assoc["Added"][t] /\ M!ToWrite(assoc, "Removed", t) = assoc["Removed"][t]
    BY DEF M!ToWrite
  <2> QED
    BY <1>2, <1>3, <2>1
<1>6. /\ assoc.Defaults = [t \in Types |-> assoc.Defaults[t]]
      /\ assoc.Added = [t \in Types |-> assoc.Added[t]] /\ assoc.Removed = [t \in Types |-> assoc.Removed[t]]
      /\ assoc = [Defaults |-> assoc.Defaults, Added |-> assoc.Added, Removed |-> assoc.Removed]
  BY DEF Assocs
<1>7. M!Associations(r) = [Defaults |-> assoc.Defaults, Added |-> assoc.Added, Removed |-> assoc.Removed]
  <2>1. [t \in Types |-> LET l == M!Apply(r, "Defaults", t) IN IF l \in {None, <<>>} THEN None ELSE l[1]] = assoc.Defaults
    BY <1>4, <1>6
  <2>2. [t \in Types |-> M!Apply(r, "Added", t)] = assoc.Added
    BY <1>5, <1>6
  <2>3. [t \in Types |-> M!Apply(r, "Removed", t)] = assoc.Removed
    BY <1>5, <1>6
  <2> QED
    BY <2>1, <2>2, <2>3 DEF M!Associations
<1> QED
  BY <1>6, <1>7 DEF r

-----------------------------------------------------------------------------
\* What SetDefaults makes of what it read.
LEMMA WithoutIs ==
  ASSUME NEW l \in Seq(Paths), NEW a
  PROVE  M!Without(l, a) \in Seq(Paths) /\ a \notin M!ToSet(M!Without(l, a))
<1>1. PICK f : Sifts(f, l, a)
  BY SiftsRun
<1> DEFINE P == {n \in 0..Len(l) : a \notin M!ToSet(f[n])}
<1>2. Len(l) \in Nat /\ f \in [0..Len(l) -> Seq(Paths)] /\ f[0] = <<>> /\ M!Without(l, a) = f[Len(l)]
  BY <1>1 DEF Sifts
<1>3. 0 \in P
  <2>1. M!ToSet(<<>>) = {}
    BY DEF M!ToSet
  <2> QED
    BY <1>2, <2>1
<1>4. ASSUME NEW n \in 1..Len(l), n - 1 \in P PROVE n \in P
  <2>0. n \in 0..Len(l) /\ (a \notin M!ToSet(f[n]) => n \in P)
    BY <1>2
  <2> HIDE DEF P
  <2>1. f[n-1] \in Seq(Paths) /\ a \notin M!ToSet(f[n-1]) /\ l[n] \in Paths
    BY <1>2, <1>4 DEF P
  <2>2. f[n] = IF l[n] = a THEN f[n-1] ELSE Append(f[n-1], l[n])
    BY <1>1 DEF Sifts
  <2>3. CASE l[n] = a
    BY <2>0, <2>1, <2>2, <2>3
  <2>4. CASE l[n] # a
    <3> DEFINE s == f[n-1]
    <3>1. \A i \in 1..Len(s) : s[i] # a
      BY <2>1 DEF M!ToSet
    <3>2. s \in Seq(Paths)
      BY <2>1
    <3> HIDE DEF s
    <3>3. \A i \in 1..Len(Append(s, l[n])) : Append(s, l[n])[i] # a
      BY <2>1, <2>4, <3>1, <3>2
    <3>4. Append(s, l[n]) \in Seq(Paths)
      BY <2>1, <3>2
    <3>5. a \notin M!ToSet(Append(s, l[n]))
      BY <3>3, <3>4 DEF M!ToSet
    <3> QED
      BY <2>0, <2>2, <2>4, <3>5 DEF s
  <2> QED
    BY <2>3, <2>4
<1> HIDE DEF P
<1>5. \A n \in 0..Len(l) : n \in P
  BY <1>2, <1>3, <1>4, UpTo
<1>6. Len(l) \in P /\ Len(l) \in 0..Len(l)
  BY <1>2, <1>5
<1> QED
  BY <1>2, <1>6 DEF P

\* An application taken away from a type.
TakenAway(assoc, t) == M!ToSet(M!ListOf(assoc.Removed[t]))

LEMMA UpdateIs ==
  ASSUME NEW assoc \in Assocs, NEW ts \in SUBSET Types, NEW a \in Paths
  PROVE  /\ M!Update(assoc, ts, a) \in Assocs
         /\ \A t \in ts : /\ M!Update(assoc, ts, a).Defaults[t] = a
                          /\ a \notin TakenAway(M!Update(assoc, ts, a), t)
         /\ \A t \in Types \ ts : /\ M!Update(assoc, ts, a).Defaults[t] = assoc.Defaults[t]
                                  /\ M!Update(assoc, ts, a).Added[t] = assoc.Added[t]
                                  /\ M!Update(assoc, ts, a).Removed[t] = assoc.Removed[t]
<1> DEFINE up == M!Update(assoc, ts, a)
           added(t) == LET l == assoc.Added[t] IN
                         IF t \notin ts THEN l ELSE IF l = None THEN <<a>>
                         ELSE IF M!Contains(l, a) THEN l ELSE Append(l, a)
           removed(t) == LET l == assoc.Removed[t] IN
                         IF t \notin ts \/ l = None THEN l
                         ELSE IF M!ToSet(l) \subseteq {a} THEN None
                         ELSE M!Without(l, a)
<1>1. up = [Defaults |-> [t \in Types |-> IF t \in ts THEN a ELSE assoc.Defaults[t]],
            Added |-> [t \in Types |-> added(t)], Removed |-> [t \in Types |-> removed(t)]]
  BY DEF M!Update
<1>2. ASSUME NEW t \in Types
      PROVE  /\ assoc.Added[t] \in Wish /\ assoc.Removed[t] \in Wish
             /\ assoc.Defaults[t] \in Paths \cup {None}
  BY DEF Assocs
<1>3. ASSUME NEW t \in Types PROVE added(t) \in Wish
  <2>1. assoc.Added[t] = None \/ assoc.Added[t] \in Seq(Paths)
    BY <1>2 DEF Wish
  <2>2. CASE assoc.Added[t] = None
    <3>1. <<a>> \in Wish /\ None \in Wish
      BY DEF Wish
    <3> QED
      BY <2>2, <3>1
  <2>3. CASE assoc.Added[t] \in Seq(Paths)
    <3> DEFINE l == assoc.Added[t]
    <3>1. l \in Wish /\ l \in Seq(Paths)
      BY <2>3 DEF Wish
    <3>2. Append(l, a) \in Wish /\ <<a>> \in Wish
      BY <2>3 DEF Wish
    <3> QED
      BY <3>1, <3>2
  <2> QED
    BY <2>1, <2>2, <2>3
<1>4. ASSUME NEW t \in Types PROVE removed(t) \in Wish
  <2>1. assoc.Removed[t] = None \/ assoc.Removed[t] \in Seq(Paths)
    BY <1>2 DEF Wish
  <2>2. None \in Wish
    BY DEF Wish
  <2>3. CASE assoc.Removed[t] = None
    BY <2>2, <2>3
  <2>4. CASE assoc.Removed[t] \in Seq(Paths)
    <3>1. M!Without(assoc.Removed[t], a) \in Wish /\ assoc.Removed[t] \in Wish
      BY <2>4, WithoutIs DEF Wish
    <3> QED
      BY <2>2, <3>1
  <2> QED
    BY <2>1, <2>3, <2>4
<1>5. ASSUME NEW t \in ts PROVE a \notin M!ToSet(M!ListOf(removed(t)))
  <2>0. M!ListOf(None) = <<>> /\ M!ToSet(<<>>) = {}
    BY DEF M!ListOf, M!ToSet
  <2>1. assoc.Removed[t] = None \/ assoc.Removed[t] \in Seq(Paths)
    BY <1>2 DEF Wish
  <2>2. CASE removed(t) = None
    BY <2>0, <2>2
  <2>3. CASE removed(t) # None
    <3>1. assoc.Removed[t] \in Seq(Paths) /\ removed(t) = M!Without(assoc.Removed[t], a)
      BY <2>1, <2>3
    <3> QED
      BY <2>3, <3>1, WithoutIs DEF M!ListOf
  <2> QED
    BY <2>2, <2>3
<1>6. \A t \in Types \ ts : added(t) = assoc.Added[t] /\ removed(t) = assoc.Removed[t]
  OBVIOUS
<1> HIDE DEF up, added, removed
<1>7. up \in Assocs
  BY <1>1, <1>2, <1>3, <1>4 DEF Assocs
<1>8. \A t \in Types : /\ up.Defaults[t] = IF t \in ts THEN a ELSE assoc.Defaults[t]
                       /\ up.Added[t] = added(t) /\ up.Removed[t] = removed(t)
  BY <1>1
<1> QED
  BY <1>5, <1>6, <1>7, <1>8 DEF up, TakenAway

-----------------------------------------------------------------------------
\* What holds of the user's file between the steps of its writers.
MimeSystems == [Defaults : [Types -> Paths \cup {None}], Cache : [Types -> Seq(Paths)],
                Added : [Types -> Wish], Removed : [Types -> Wish]]

MimeCalls == [at : {"idle", "lock", "rename"}, types : SUBSET Types, app : Paths \cup {None},
              copy : Seq(M!Line)]

MimeShape ==
  /\ file \in Seq(M!Line) /\ system \in MimeSystems /\ setting \in [Procs -> MimeCalls]
  /\ \A p \in Procs : setting[p].at # "idle" => setting[p].app \in Paths
  /\ sets \in 0..MaxSets /\ want \in [Types -> Paths \cup {None}]
  /\ shared \in BOOLEAN /\ overwritten \in BOOLEAN

\* Of goroutines, one at a time has read the file and not yet renamed; what it
\* read is what is there.
OneRenames ==
  shared => \A p \in Procs : setting[p].at = "rename" =>
              setting[p].copy = file /\ \A q \in Procs \ {p} : setting[q].at # "rename"

\* What was set stands in the file, and nothing there takes it away.
StandsThere ==
  ~overwritten => \A t \in Types : want[t] # None =>
    /\ M!Associations(file).Defaults[t] = want[t]
    /\ want[t] \notin TakenAway(M!Associations(file), t)

MimeInv == MimeShape /\ OneRenames /\ StandsThere
DiskInv == /\ which \in {"trash", "shell", "mime", "thumbs"}
           /\ which = "mime" => MimeInv

LEMMA IdleIs ==
  /\ M!Idle \in MimeCalls /\ M!Idle.at = "idle"
  /\ \A ts \in SUBSET Types, a \in Paths :
       /\ [M!Idle EXCEPT !.at = "lock", !.types = ts, !.app = a] \in MimeCalls
       /\ [M!Idle EXCEPT !.at = "lock", !.types = ts, !.app = a].at = "lock"
       /\ [M!Idle EXCEPT !.at = "lock", !.types = ts, !.app = a].app = a
<1>1. <<>> \in Seq(M!Line) /\ {} \in SUBSET Types
  OBVIOUS
<1> QED
  BY <1>1 DEF M!Idle, MimeCalls

LEMMA MimeInit == M!Init => MimeInv
<1> SUFFICES ASSUME M!Init PROVE MimeInv
  OBVIOUS
<1>1. file \in Seq(M!Line) /\ system \in MimeSystems
  BY MimeAssumption DEF M!Init, MimeSystems, Wish
<1>2. setting = [p \in Procs |-> M!Idle] /\ setting \in [Procs -> MimeCalls]
  BY IdleIs DEF M!Init
<1>3. \A p \in Procs : setting[p].at = "idle"
  BY <1>2, IdleIs
<1>4. /\ sets \in 0..MaxSets /\ want \in [Types -> Paths \cup {None}]
      /\ shared \in BOOLEAN /\ overwritten \in BOOLEAN
  <2>1. MaxSets \in Nat /\ sets = 0 /\ want = [t \in Types |-> None] /\ shared \in BOOLEAN /\ overwritten = FALSE
    BY MimeAssumption DEF M!Init
  <2>2. sets \in 0..MaxSets
    BY <2>1
  <2>3. want \in [Types -> Paths \cup {None}]
    BY <2>1
  <2>4. overwritten \in BOOLEAN
    BY <2>1, Zenon
  <2> QED
    BY <2>1, <2>2, <2>3, <2>4
<1>5. MimeShape
  BY <1>1, <1>2, <1>3, <1>4 DEF MimeShape
<1>6. OneRenames /\ StandsThere
  BY <1>3 DEF OneRenames, StandsThere, M!Init
<1> QED
  BY <1>5, <1>6 DEF MimeInv

LEMMA SetKeeps ==
  ASSUME MimeInv, NEW p \in Procs, NEW ts \in TypeSets, NEW a \in Paths, M!Set(p, ts, a) PROVE MimeInv'
<1> DEFINE c == [M!Idle EXCEPT !.at = "lock", !.types = ts, !.app = a]
<1>1. c \in MimeCalls /\ c.at = "lock" /\ c.app = a
  <2>1. ts \in SUBSET Types
    BY MimeAssumption
  <2> QED
    BY <2>1, IdleIs
<1>2. /\ setting' = [setting EXCEPT ![p] = c] /\ sets < MaxSets /\ sets' = sets + 1
      /\ UNCHANGED <<file, system, shared, want, overwritten>>
  BY DEF M!Set, M!given
<1> HIDE DEF c
<1>3. setting \in [Procs -> MimeCalls] /\ sets \in 0..MaxSets /\ MaxSets \in Nat
  BY MimeAssumption DEF MimeInv, MimeShape
<1>4. setting' \in [Procs -> MimeCalls] /\ setting'[p] = c /\ \A q \in Procs \ {p} : setting'[q] = setting[q]
  BY <1>1, <1>2, <1>3
<1>5. sets' \in 0..MaxSets
  BY <1>2, <1>3
<1>6. MimeShape'
  BY <1>1, <1>2, <1>4, <1>5 DEF MimeInv, MimeShape
<1>7. OneRenames'
  BY <1>1, <1>2, <1>4 DEF MimeInv, OneRenames
<1>8. StandsThere'
  BY <1>2 DEF MimeInv, StandsThere
<1> QED
  BY <1>6, <1>7, <1>8 DEF MimeInv

LEMMA ReadKeeps == ASSUME MimeInv, NEW p \in Procs, M!Read(p) PROVE MimeInv'
<1>1. /\ setting' = [setting EXCEPT ![p].at = "rename", ![p].copy = file]
      /\ setting[p].at = "lock" /\ (shared => \A q \in Procs : setting[q].at # "rename")
      /\ UNCHANGED <<file, system, shared, sets, want, overwritten>>
  BY DEF M!Read, M!MutexFree, M!given
<1>2. setting \in [Procs -> MimeCalls] /\ file \in Seq(M!Line) /\ setting[p].app \in Paths
  BY <1>1 DEF MimeInv, MimeShape
<1>3. /\ setting'[p] \in MimeCalls /\ setting'[p].copy = file /\ setting'[p].app = setting[p].app
      /\ setting' \in [Procs -> MimeCalls] /\ \A q \in Procs \ {p} : setting'[q] = setting[q]
  BY <1>1, <1>2 DEF MimeCalls
<1>4. MimeShape'
  BY <1>1, <1>2, <1>3 DEF MimeInv, MimeShape
<1>5. OneRenames'
  BY <1>1, <1>3 DEF OneRenames
<1>6. StandsThere'
  BY <1>1 DEF MimeInv, StandsThere
<1> QED
  BY <1>4, <1>5, <1>6 DEF MimeInv

LEMMA WriteFailsKeeps == ASSUME MimeInv, NEW p \in Procs, M!WriteFails(p) PROVE MimeInv'
<1>1. setting' = [setting EXCEPT ![p] = M!Idle] /\ UNCHANGED <<file, system, shared, sets, want, overwritten>>
  BY DEF M!WriteFails, M!given
<1>2. setting \in [Procs -> MimeCalls]
  BY DEF MimeInv, MimeShape
<1>3. /\ setting'[p] = M!Idle /\ setting'[p].at = "idle"
      /\ setting' \in [Procs -> MimeCalls] /\ \A q \in Procs \ {p} : setting'[q] = setting[q]
  BY <1>1, <1>2, IdleIs
<1>4. MimeShape'
  BY <1>1, <1>2, <1>3 DEF MimeInv, MimeShape
<1>5. OneRenames'
  BY <1>1, <1>3 DEF MimeInv, OneRenames
<1>6. StandsThere'
  BY <1>1 DEF MimeInv, StandsThere
<1> QED
  BY <1>4, <1>5, <1>6 DEF MimeInv

\* What a Rename writes reads as what the writer read, brought up to date.
LEMMA Renamed ==
  ASSUME MimeShape, NEW p \in Procs, M!Rename(p)
  PROVE  LET c == setting[p] IN
         /\ c \in MimeCalls /\ c.app \in Paths
         /\ file' \in Seq(M!Line) /\ M!Foreign(file') = M!Foreign(c.copy)
         /\ M!Associations(file') = M!Update(M!Associations(c.copy), c.types, c.app)
<1> DEFINE c == setting[p]
           up == M!Update(M!Associations(c.copy), c.types, c.app)
<1>1. c \in MimeCalls /\ c.app \in Paths
  BY DEF MimeShape, M!Rename
<1>2. c.copy \in Seq(M!Line) /\ c.types \in SUBSET Types
  BY <1>1 DEF MimeCalls
<1>3. file' = M!Render(c.copy, up)
  BY DEF M!Rename
<1>4. up \in Assocs
  BY <1>1, <1>2, AssociationsType, UpdateIs
<1> HIDE DEF up
<1>5. /\ M!Render(c.copy, up) \in Seq(M!Line) /\ M!Foreign(M!Render(c.copy, up)) = M!Foreign(c.copy)
      /\ M!Associations(M!Render(c.copy, up)) = up
  BY <1>2, <1>4, RenderIs, RenderReads DEF Sound
<1> QED
  BY <1>1, <1>3, <1>5 DEF up

LEMMA RenameKeeps == ASSUME MimeInv, NEW p \in Procs, M!Rename(p) PROVE MimeInv'
<1> DEFINE c == setting[p]
           was == M!Associations(c.copy)
           up == M!Update(was, c.types, c.app)
<1>1. /\ setting' = [setting EXCEPT ![p] = M!Idle]
      /\ want' = [t \in Types |-> IF t \in c.types THEN c.app ELSE want[t]]
      /\ overwritten' = (overwritten \/ (~shared /\ c.copy # file))
      /\ UNCHANGED <<system, shared, sets>> /\ c.at = "rename"
  BY DEF M!Rename, M!given
<1>2. setting \in [Procs -> MimeCalls] /\ want \in [Types -> Paths \cup {None}]
  BY DEF MimeInv, MimeShape
<1>3. /\ setting'[p] = M!Idle /\ setting'[p].at = "idle"
      /\ setting' \in [Procs -> MimeCalls] /\ \A q \in Procs \ {p} : setting'[q] = setting[q]
  BY <1>1, <1>2, IdleIs
<1>4. c \in MimeCalls /\ c.app \in Paths /\ file' \in Seq(M!Line) /\ M!Associations(file') = up
  BY Renamed DEF MimeInv
<1>5. want' \in [Types -> Paths \cup {None}]
  BY <1>1, <1>2, <1>4
<1>6. MimeShape'
  BY <1>1, <1>2, <1>3, <1>4, <1>5 DEF MimeInv, MimeShape
<1>7. OneRenames'
  <2>1. shared => \A q \in Procs : setting'[q].at # "rename"
    BY <1>1, <1>3 DEF MimeInv, OneRenames
  <2> QED
    BY <1>1, <2>1 DEF OneRenames
<1>8. c.copy \in Seq(M!Line) /\ c.types \in SUBSET Types
  BY <1>4 DEF MimeCalls
<1>9. was \in Assocs
  BY <1>8, AssociationsType
<1>10. overwritten' \in BOOLEAN /\ (~overwritten' => ~overwritten /\ c.copy = file)
  BY <1>1 DEF MimeInv, MimeShape, OneRenames
<1>11. /\ \A t \in c.types : up.Defaults[t] = c.app /\ c.app \notin TakenAway(up, t)
       /\ \A t \in Types \ c.types : up.Defaults[t] = was.Defaults[t] /\ TakenAway(up, t) = TakenAway(was, t)
  <2> DEFINE ts == c.types
             a  == c.app
  <2>1. was \in Assocs /\ ts \in SUBSET Types /\ a \in Paths /\ up = M!Update(was, ts, a)
    BY <1>4, <1>8, <1>9
  <2> HIDE DEF was, up, ts, a
  <2>2. \A t \in ts : M!Update(was, ts, a).Defaults[t] = a /\ a \notin TakenAway(M!Update(was, ts, a), t)
    BY <2>1, UpdateIs, Zenon
  <2>3. \A t \in Types \ ts : /\ M!Update(was, ts, a).Defaults[t] = was.Defaults[t]
                              /\ M!Update(was, ts, a).Added[t] = was.Added[t]
                              /\ M!Update(was, ts, a).Removed[t] = was.Removed[t]
    BY <2>1, UpdateIs, Zenon
  <2> QED
    BY <2>1, <2>2, <2>3 DEF ts, a, TakenAway
<1> HIDE DEF up
<1>12. ASSUME ~overwritten', NEW t \in Types, want'[t] # None
       PROVE  up.Defaults[t] = want'[t] /\ want'[t] \notin TakenAway(up, t)
  <2>1. CASE t \in c.types
    BY <1>1, <1>11, <2>1
  <2>2. CASE t \notin c.types
    <3>1. want'[t] = want[t] /\ was = M!Associations(file) /\ ~overwritten
      BY <1>1, <1>10, <1>12, <2>2
    <3>2. was.Defaults[t] = want[t] /\ want[t] \notin TakenAway(was, t)
      BY <1>12, <3>1 DEF MimeInv, StandsThere
    <3> QED
      BY <1>11, <2>2, <3>1, <3>2
  <2> QED
    BY <2>1, <2>2
<1>13. StandsThere'
  BY <1>4, <1>12 DEF StandsThere, TakenAway
<1> QED
  BY <1>6, <1>7, <1>13 DEF MimeInv

LEMMA MimeStep == ASSUME MimeInv, M!Next PROVE MimeInv'
<1>1. PICK p \in Procs : \/ \E ts \in TypeSets, a \in Paths : M!Set(p, ts, a)
                         \/ M!Read(p) \/ M!Rename(p) \/ M!WriteFails(p)
  BY DEF M!Next
<1> QED
  BY <1>1, SetKeeps, ReadKeeps, RenameKeeps, WriteFailsKeeps

LEMMA DiskInductive == MCSpec => []DiskInv
<1>1. MCInit => DiskInv
  BY MimeInit DEF MCInit, DiskInv
<1>2. DiskInv /\ [MCNext]_<<which, vars, shellvars, mimevars, thumbvars>> => DiskInv'
  <2> SUFFICES ASSUME DiskInv, [MCNext]_<<which, vars, shellvars, mimevars, thumbvars>> PROVE DiskInv'
    OBVIOUS
  <2>1. CASE which = "mime" /\ M!Next /\ UNCHANGED which
    BY <2>1, MimeStep DEF DiskInv
  <2>2. CASE UNCHANGED <<which, mimevars>>
    BY <2>2 DEF DiskInv, mimevars, MimeInv, MimeShape, OneRenames, StandsThere
  <2> QED
    BY <2>1, <2>2 DEF MCNext
<1> QED
  BY <1>1, <1>2, PTL DEF MCSpec

\* mimeapps.go: a write, of one process or of many, changes nothing but what it
\* was asked to.  The lines of others are kept in their order; types that were
\* not set keep what the writer read of them.
THEOREM ChangesOnlyCorrect == MCSpec => ChangesOnly
<1> DEFINE Mine(w) == /\ M!Foreign(file') = M!Foreign(setting[w].copy)
                      /\ \A t \in Types \ setting[w].types, g \in M!Managed :
                           M!Associations(file')[g][t] = M!Associations(setting[w].copy)[g][t]
           Fair == \A w \in Procs : setting[w].at = "rename" /\ file' # file /\ setting'[w] = M!Idle => Mine(w)
<1>1. ASSUME DiskInv, [MCNext]_<<which, vars, shellvars, mimevars, thumbvars>>, NEW w \in Procs,
             setting[w].at = "rename", file' # file, setting'[w] = M!Idle
      PROVE  Mine(w)
  <2>1. M!Next /\ MimeShape
    BY <1>1 DEF MCNext, mimevars, DiskInv, MimeInv
  <2>2. PICK p \in Procs : M!Rename(p)
    BY <1>1, <2>1 DEF M!Next, M!Set, M!Read, M!WriteFails
  <2>3. p = w
    <3>1. setting' = [setting EXCEPT ![p] = M!Idle] /\ setting \in [Procs -> MimeCalls]
      BY <2>1, <2>2 DEF M!Rename, MimeShape
    <3>2. p # w => setting'[w] = setting[w]
      BY <3>1
    <3> QED
      BY <1>1, <3>2, IdleIs
  <2> DEFINE c == setting[w]
             was == M!Associations(c.copy)
             up == M!Update(was, c.types, c.app)
  <2>4. /\ c \in MimeCalls /\ c.app \in Paths
        /\ M!Foreign(file') = M!Foreign(c.copy) /\ M!Associations(file') = up
    BY <2>1, <2>2, <2>3, Renamed
  <2>5. c.copy \in Seq(M!Line) /\ c.types \in SUBSET Types
    BY <2>4 DEF MimeCalls
  <2>6. was \in Assocs
    BY <2>5, AssociationsType
  <2>7. \A t \in Types \ c.types : /\ up.Defaults[t] = was.Defaults[t] /\ up.Added[t] = was.Added[t]
                                   /\ up.Removed[t] = was.Removed[t]
    <3> DEFINE ts == c.types
               a  == c.app
    <3>1. was \in Assocs /\ ts \in SUBSET Types /\ a \in Paths /\ up = M!Update(was, ts, a)
      BY <2>4, <2>5, <2>6
    <3> HIDE DEF was, up, ts, a
    <3>2. \A t \in Types \ ts : /\ M!Update(was, ts, a).Defaults[t] = was.Defaults[t]
                                /\ M!Update(was, ts, a).Added[t] = was.Added[t]
                                /\ M!Update(was, ts, a).Removed[t] = was.Removed[t]
      BY <3>1, UpdateIs, Zenon
    <3> QED
      BY <3>1, <3>2 DEF ts
  <2>8. ASSUME NEW t \in Types \ c.types, NEW g \in M!Managed PROVE up[g][t] = was[g][t]
    <3> HIDE DEF c, was, up
    <3>1. /\ up["Defaults"] = up.Defaults /\ up["Added"] = up.Added /\ up["Removed"] = up.Removed
          /\ was["Defaults"] = was.Defaults /\ was["Added"] = was.Added /\ was["Removed"] = was.Removed
      OBVIOUS
    <3> QED
      BY <2>7, <3>1 DEF M!Managed
  <2> QED
    BY <2>4, <2>8
<1>2. DiskInv /\ [MCNext]_<<which, vars, shellvars, mimevars, thumbvars>> => [Fair]_M!vars
  BY <1>1
<1>3. ChangesOnly <=> [][Fair]_M!vars
  BY DEF ChangesOnly, M!ChangesOnly
<1> QED
  BY <1>2, <1>3, DiskInductive, PTL DEF MCSpec

-----------------------------------------------------------------------------
\* The chain of a type begins with the type it stands for.
Chains(t) == {c \in Seq(Types) : Len(c) >= 1 /\ c[1] = t}

LEMMA VisitKeeps ==
  ASSUME NEW t, NEW c \in Chains(t), NEW ps \in Seq(Types) PROVE M!Visit(c, ps) \in Chains(t)
<1>1. PICK f : Extends(f, c, ps)
  BY ExtendsRun DEF Chains
<1>2. /\ Len(ps) \in Nat /\ f \in [0..Len(ps) -> Seq(Types)] /\ f[0] \in Chains(t)
      /\ M!Visit(c, ps) = f[Len(ps)]
  BY <1>1 DEF Extends
<1>3. ASSUME NEW n \in 1..Len(ps), f[n-1] \in Chains(t) PROVE f[n] \in Chains(t)
  <2>1. f[n] = IF M!Contains(f[n-1], ps[n]) THEN f[n-1] ELSE Append(f[n-1], ps[n])
    BY <1>1 DEF Extends
  <2>2. Append(f[n-1], ps[n]) \in Chains(t)
    <3>1. f[n-1] \in Seq(Types) /\ Len(f[n-1]) >= 1 /\ f[n-1][1] = t /\ ps[n] \in Types
      BY <1>3 DEF Chains
    <3> DEFINE s == f[n-1]
    <3> HIDE DEF s
    <3>2. s \in Seq(Types) /\ Len(s) >= 1 /\ s[1] = t
      BY <3>1 DEF s
    <3>3. /\ Append(s, ps[n]) \in Seq(Types) /\ Len(Append(s, ps[n])) >= 1 /\ Append(s, ps[n])[1] = t
      BY <3>1, <3>2
    <3> QED
      BY <3>3 DEF Chains, s
  <2> QED
    BY <1>3, <2>1, <2>2
<1>4. \A n \in 0..Len(ps) : f[n] \in Chains(t)
  BY <1>2, <1>3, StaysIn
<1>5. Len(ps) \in 0..Len(ps)
  BY <1>2
<1> QED
  BY <1>2, <1>4, <1>5

Grows(f, u) ==
  /\ f \in [0..M!Cardinality(Types) -> Chains(Alias[u])] /\ f[0] = <<Alias[u]>>
  /\ \A n \in 1..M!Cardinality(Types) : f[n] = IF n > Len(f[n-1]) THEN f[n-1] ELSE M!Visit(f[n-1], Parents[f[n-1][n]])
  /\ M!Chain(u) = f[M!Cardinality(Types)]

LEMMA GrowsRun ==
  ASSUME NEW u \in Types
  PROVE  \E f : Grows(f, u)
<1> DEFINE N == M!Cardinality(Types)
           D == Chains(Alias[u])
           E(x, n) == IF n > Len(x) THEN x ELSE M!Visit(x, Parents[x[n]])
           run[n \in 0..M!Cardinality(Types)] == IF n = 0 THEN <<Alias[u]>> ELSE E(run[n-1], n)
           step == [x \in D \X (1..N) |-> E(x[1], x[2])]
<1>1. M!Chain(u) = run[N]
  BY DEF M!Chain
<1>2. N \in Nat /\ <<Alias[u]>> \in D
  <2>1. N \in Nat
    BY MimeAssumption, SetToSeqIs
  <2>2. Alias[u] \in Types
    BY MimeAssumption
  <2>3. <<Alias[u]>> \in Seq(Types) /\ Len(<<Alias[u]>>) = 1 /\ <<Alias[u]>>[1] = Alias[u]
    BY <2>2
  <2> QED
    BY <2>1, <2>3 DEF Chains
<1>3. ASSUME NEW x \in D, NEW n \in 1..N PROVE E(x, n) \in D
  <2>1. CASE n <= Len(x)
    <3>1. n \in 1..Len(x) /\ x \in Seq(Types)
      BY <2>1 DEF Chains
    <3>2. x[n] \in Types
      BY <3>1
    <3>3. Parents[x[n]] \in Seq(Types)
      BY <3>2, MimeAssumption
    <3>4. M!Visit(x, Parents[x[n]]) \in D
      BY <3>3, VisitKeeps
    <3>5. ~(n > Len(x))
      BY <3>1
    <3> QED
      BY <3>4, <3>5
  <2>2. CASE ~(n <= Len(x))
    <3>1. n > Len(x)
      BY <2>2 DEF Chains
    <3> QED
      BY <3>1
  <2> QED
    BY <2>1, <2>2
<1> HIDE DEF N, D, E
<1>4. step \in [D \X (1..N) -> D]
  BY <1>3
<1>5. PICK g : Repeats(g, D, <<Alias[u]>>, step, N)
  BY <1>2, <1>4, Repeated
<1>6. g \in [0..N -> D] /\ g[0] = <<Alias[u]>>
  BY <1>5 DEF Repeats
<1>7. ASSUME NEW n \in 1..N PROVE g[n] = E(g[n-1], n)
  <2>1. n - 1 \in 0..N
    BY <1>2
  <2>2. <<g[n-1], n>> \in D \X (1..N)
    BY <1>6, <2>1
  <2>3. g[n] = step[<<g[n-1], n>>]
    BY <1>5 DEF Repeats
  <2> QED
    BY <2>2, <2>3
<1>8. g = [n \in 0..N |-> IF n = 0 THEN <<Alias[u]>> ELSE E(g[n-1], n)]
  BY <1>2, <1>6, <1>7
<1>9. run = [n \in 0..N |-> IF n = 0 THEN <<Alias[u]>> ELSE E(run[n-1], n)]
  BY <1>8 DEF N
<1> HIDE DEF run, step
<1>10. run[0] = <<Alias[u]>> /\ \A n \in 1..N : run[n] = E(run[n-1], n)
  BY <1>2, <1>9
<1>11. \A n \in 1..N : run[n-1] \in D => run[n] \in D
  BY <1>3, <1>10
<1>12. run[0] \in D
  BY <1>2, <1>10
<1>13. \A n \in 0..N : run[n] \in D
  BY <1>2, <1>11, <1>12, StaysIn
<1>14. run \in [0..N -> D]
  BY <1>9, <1>13
<1> QED
  BY <1>1, <1>10, <1>14 DEF Grows, N, D, E

LEMMA ChainIs == ASSUME NEW u \in Types PROVE M!Chain(u) \in Chains(Alias[u])
<1>1. PICK f : Grows(f, u)
  BY GrowsRun
<1>2. M!Cardinality(Types) \in 0..M!Cardinality(Types)
  BY MimeAssumption, SetToSeqIs
<1> QED
  BY <1>1, <1>2 DEF Grows

-----------------------------------------------------------------------------
\* What one sequence after the other keeps, all of them after the first keep.
LEMMA FlattenIn ==
  ASSUME NEW S, NEW D, D \subseteq Seq(S), NEW ss \in Seq(Seq(S)), Len(ss) >= 1, ss[1] \in D,
         \A x \in D, y \in Seq(S) : x \o y \in D
  PROVE  M!FlattenSeq(ss) \in D
<1> DEFINE L == Len(ss)
           N == L - 1
           run[i \in 1..L] == IF i = 1 THEN ss[i] ELSE run[i-1] \o ss[i]
           step == [x \in D \X (1..N) |-> x[1] \o ss[x[2] + 1]]
<1>1. M!FlattenSeq(ss) = run[L]
  BY DEF M!FlattenSeq
<1>2. L \in Nat /\ N \in Nat /\ L = N + 1 /\ 1 \in 1..L
  OBVIOUS
<1>3. \A n \in 1..N : n + 1 \in 1..L /\ ss[n + 1] \in Seq(S)
  BY <1>2
<1> HIDE DEF L, N
<1>4. step \in [D \X (1..N) -> D]
  BY <1>3
<1>5. PICK g : Repeats(g, D, ss[1], step, N)
  BY <1>2, <1>4, Repeated
<1> DEFINE h == [i \in 1..L |-> g[i-1]]
<1>6. g \in [0..N -> D] /\ g[0] = ss[1]
  BY <1>5 DEF Repeats
<1>7. ASSUME NEW i \in 1..L, i # 1 PROVE h[i] = h[i-1] \o ss[i]
  <2>1. i - 1 \in 1..N /\ i - 2 \in 0..N /\ (i - 1) + 1 = i /\ (i - 1) - 1 = i - 2 /\ i - 1 \in 1..L
    BY <1>2, <1>7
  <2>2. g[i-1] = step[<<g[(i-1) - 1], i-1>>]
    BY <1>5, <2>1 DEF Repeats
  <2>3. <<g[i-2], i-1>> \in D \X (1..N)
    BY <1>6, <2>1
  <2>4. step[<<g[i-2], i-1>>] = g[i-2] \o ss[(i-1) + 1]
    BY <2>3
  <2>5. h[i] = g[i-1] /\ h[i-1] = g[i-2]
    BY <2>1
  <2> QED
    BY <2>1, <2>2, <2>4, <2>5
<1>8. h[1] = ss[1]
  BY <1>2, <1>6
<1>9. h = [i \in 1..L |-> IF i = 1 THEN ss[i] ELSE h[i-1] \o ss[i]]
  <2>1. \A i \in 1..L : h[i] = IF i = 1 THEN ss[i] ELSE h[i-1] \o ss[i]
    BY <1>7, <1>8
  <2>2. h = [i \in 1..L |-> h[i]]
    OBVIOUS
  <2> HIDE DEF h
  <2> QED
    BY <2>1, <2>2
<1> HIDE DEF h, step
<1>10. run = [i \in 1..L |-> IF i = 1 THEN ss[i] ELSE run[i-1] \o ss[i]]
  BY <1>9 DEF run
<1> HIDE DEF run
<1>11. run[1] = ss[1] /\ \A i \in 1..L : i # 1 => run[i] = run[i-1] \o ss[i]
  BY <1>2, <1>10
<1> DEFINE P == {n \in 0..N : run[n+1] \in D}
<1>12. 0 \in P
  <2>1. 0 \in 0..N /\ 0 + 1 = 1
    BY <1>2
  <2>2. run[0 + 1] \in D
    BY <1>11, <2>1
  <2> QED
    BY <2>1, <2>2
<1>13. ASSUME NEW n \in 1..N, n - 1 \in P PROVE n \in P
  <2>1. n + 1 \in 1..L /\ n + 1 # 1 /\ (n + 1) - 1 = n /\ (n - 1) + 1 = n /\ n \in 0..N
    BY <1>2
  <2>2. run[n+1] = run[n] \o ss[n+1]
    BY <1>11, <2>1
  <2>3. run[n] \in D
    BY <1>13, <2>1
  <2>4. run[n+1] \in D
    BY <1>3, <2>2, <2>3
  <2> QED
    BY <2>1, <2>4
<1> HIDE DEF P
<1>14. \A n \in 0..N : n \in P
  BY <1>2, <1>12, <1>13, UpTo
<1>15. N \in P
  BY <1>2, <1>14
<1> QED
  BY <1>1, <1>2, <1>15 DEF P

-----------------------------------------------------------------------------
\* The candidates of a type: first the default of the type it stands for.
Pairs == Types \X Paths
Firsts(x) == {s \in Seq(Pairs) : Len(s) >= 1 /\ s[1] = x}
Offers == [Types -> Seq(Paths)]

LEMMA FirstsGrow ==
  ASSUME NEW f, NEW x \in Firsts(f), NEW y \in Seq(Pairs) PROVE x \o y \in Firsts(f)
<1>1. x \in Seq(Pairs) /\ Len(x) >= 1 /\ x[1] = f
  BY DEF Firsts
<1>2. x \o y \in Seq(Pairs) /\ Len(x \o y) >= 1 /\ (x \o y)[1] = x[1]
  BY <1>1
<1> QED
  BY <1>1, <1>2 DEF Firsts

LEMMA AlongIs ==
  ASSUME NEW u \in Types, NEW apps \in Offers
  PROVE  /\ M!Along(u, apps) \in Seq(Pairs)
         /\ \A a \in Paths : apps[Alias[u]] = <<a>> => M!Along(u, apps) \in Firsts(<<Alias[u], a>>)
<1> DEFINE chain == M!Chain(u)
           t == Alias[u]
           part(c) == [j \in DOMAIN apps[c] |-> <<c, apps[c][j]>>]
           ss == [i \in DOMAIN chain |-> part(chain[i])]
<1>1. chain \in Seq(Types) /\ Len(chain) >= 1 /\ chain[1] = t
  BY ChainIs DEF Chains
<1>2. M!Along(u, apps) = M!FlattenSeq(ss)
  BY DEF M!Along
<1>3. ASSUME NEW c \in Types PROVE part(c) \in Seq(Pairs)
  <2>1. apps[c] \in Seq(Paths)
    BY DEF Offers
  <2>2. DOMAIN apps[c] = 1..Len(apps[c]) /\ Len(apps[c]) \in Nat /\ \A j \in 1..Len(apps[c]) : apps[c][j] \in Paths
    BY <2>1
  <2>3. part(c) \in [1..Len(apps[c]) -> Pairs]
    BY <2>2 DEF Pairs
  <2> QED
    BY <2>2, <2>3
<1>4. ASSUME NEW a \in Paths, apps[t] = <<a>> PROVE part(t) \in Firsts(<<t, a>>)
  <2>1. t \in Types
    BY MimeAssumption
  <2>2. part(t) = <<<<t, a>>>>
    <3>1. DOMAIN <<a>> = {1} /\ <<a>>[1] = a
      OBVIOUS
    <3>2. part(t) = [j \in {1} |-> <<t, a>>]
      BY <1>4, <3>1
    <3>3. <<<<t, a>>>> = [j \in {1} |-> <<t, a>>]
      OBVIOUS
    <3> QED
      BY <3>2, <3>3
  <2>3. part(t) \in Seq(Pairs)
    BY <1>3, <2>1
  <2> HIDE DEF part
  <2>4. Len(part(t)) >= 1 /\ part(t)[1] = <<t, a>>
    BY <2>2
  <2> QED
    BY <2>3, <2>4 DEF Firsts
<1> HIDE DEF part, chain
<1>5. ss \in Seq(Seq(Pairs)) /\ Len(ss) >= 1 /\ ss[1] = part(t)
  <2>1. DOMAIN chain = 1..Len(chain) /\ Len(chain) \in Nat /\ 1 \in 1..Len(chain)
    BY <1>1
  <2>2. \A i \in 1..Len(chain) : chain[i] \in Types
    BY <1>1
  <2>3. ss \in [1..Len(chain) -> Seq(Pairs)]
    BY <1>3, <2>1, <2>2
  <2>4. ss[1] = part(t)
    BY <1>1, <2>1
  <2> HIDE DEF ss
  <2>5. ss \in Seq(Seq(Pairs)) /\ Len(ss) = Len(chain)
    BY <2>1, <2>3
  <2> QED
    BY <1>1, <2>4, <2>5
<1> HIDE DEF ss, t
<1>6. M!FlattenSeq(ss) \in Seq(Pairs)
  <2>1. ss[1] \in Seq(Pairs) /\ \A x \in Seq(Pairs), y \in Seq(Pairs) : x \o y \in Seq(Pairs)
    BY <1>5
  <2> QED
    BY <1>5, <2>1, FlattenIn
<1>7. ASSUME NEW a \in Paths, apps[t] = <<a>> PROVE M!FlattenSeq(ss) \in Firsts(<<t, a>>)
  <2>1. Firsts(<<t, a>>) \subseteq Seq(Pairs) /\ ss[1] \in Firsts(<<t, a>>)
    BY <1>4, <1>5, <1>7 DEF Firsts
  <2>2. \A x \in Firsts(<<t, a>>), y \in Seq(Pairs) : x \o y \in Firsts(<<t, a>>)
    BY FirstsGrow
  <2> QED
    BY <1>5, <2>1, <2>2, FlattenIn
<1> QED
  BY <1>2, <1>6, <1>7 DEF t

LEMMA MergedIs ==
  ASSUME MimeShape
  PROVE  LET m == M!Merged(file)
             user == M!Associations(file) IN
         /\ user \in Assocs
         /\ m.Defaults \in [Types -> Paths \cup {None}] /\ m.Added \in Offers
         /\ \A t \in Types : /\ user.Defaults[t] # None => m.Defaults[t] = user.Defaults[t]
                             /\ m.Removed[t] = TakenAway(user, t) \cup TakenAway(system, t)
<1> DEFINE m == M!Merged(file)
           user == M!Associations(file)
<1>1. user \in Assocs /\ system \in MimeSystems
  BY AssociationsType DEF MimeShape
<1> HIDE DEF user
<1>2. ASSUME NEW t \in Types
      PROVE  /\ user.Defaults[t] \in Paths \cup {None} /\ system.Defaults[t] \in Paths \cup {None}
             /\ M!ListOf(user.Added[t]) \in Seq(Paths) /\ M!ListOf(system.Added[t]) \in Seq(Paths)
             /\ M!ListOf(user.Removed[t]) \in Seq(Paths) /\ M!ListOf(system.Removed[t]) \in Seq(Paths)
  <2>1. /\ user.Defaults[t] \in Paths \cup {None} /\ system.Defaults[t] \in Paths \cup {None}
        /\ user.Added[t] \in Wish /\ system.Added[t] \in Wish /\ user.Removed[t] \in Wish /\ system.Removed[t] \in Wish
    BY <1>1 DEF Assocs, MimeSystems
  <2>2. \A l \in Wish : M!ListOf(l) \in Seq(Paths)
    <3>1. <<>> \in Seq(Paths)
      OBVIOUS
    <3> QED
      BY <3>1 DEF Wish, M!ListOf
  <2> QED
    BY <2>1, <2>2
<1>3. /\ m.Defaults = [t \in Types |-> IF user.Defaults[t] # None THEN user.Defaults[t] ELSE system.Defaults[t]]
      /\ m.Added = [t \in Types |-> M!ListOf(user.Added[t]) \o M!ListOf(system.Added[t])]
      /\ m.Removed = [t \in Types |-> M!ToSet(M!ListOf(user.Removed[t]) \o M!ListOf(system.Removed[t]))]
  BY DEF M!Merged, user
<1> HIDE DEF m
<1>4. m.Defaults \in [Types -> Paths \cup {None}]
  BY <1>2, <1>3
<1>5. m.Added \in Offers
  <2>1. \A t \in Types : M!ListOf(user.Added[t]) \o M!ListOf(system.Added[t]) \in Seq(Paths)
    BY <1>2
  <2> QED
    BY <1>3, <2>1 DEF Offers
<1>6. ASSUME NEW t \in Types PROVE m.Removed[t] = TakenAway(user, t) \cup TakenAway(system, t)
  <2>1. m.Removed[t] = M!ToSet(M!ListOf(user.Removed[t]) \o M!ListOf(system.Removed[t]))
    BY <1>3
  <2>2. \A k \in Seq(Paths), l \in Seq(Paths) : M!ToSet(k \o l) = M!ToSet(k) \cup M!ToSet(l)
    <3> SUFFICES ASSUME NEW k \in Seq(Paths), NEW l \in Seq(Paths) PROVE M!ToSet(k \o l) = M!ToSet(k) \cup M!ToSet(l)
      OBVIOUS
    <3> DEFINE r == k \o l
    <3>1. /\ DOMAIN r = 1..(Len(k) + Len(l)) /\ DOMAIN k = 1..Len(k) /\ DOMAIN l = 1..Len(l)
          /\ Len(k) \in Nat /\ Len(l) \in Nat
      OBVIOUS
    <3>2. \A i \in 1..Len(k) : r[i] = k[i] /\ i \in DOMAIN r
      BY <3>1
    <3>3. \A i \in 1..Len(l) : r[Len(k) + i] = l[i] /\ Len(k) + i \in DOMAIN r
      BY <3>1
    <3>4. \A i \in DOMAIN r : \/ i \in DOMAIN k /\ r[i] = k[i]
                              \/ i - Len(k) \in DOMAIN l /\ r[i] = l[i - Len(k)]
      BY <3>1
    <3> HIDE DEF r
    <3>5. M!ToSet(r) = M!ToSet(k) \cup M!ToSet(l)
      BY <3>1, <3>2, <3>3, <3>4 DEF M!ToSet
    <3> QED
      BY <3>5 DEF r
  <2> QED
    BY <1>2, <2>1, <2>2 DEF TakenAway
<1> QED
  BY <1>1, <1>3, <1>4, <1>5, <1>6 DEF m, user

\* The default of a type is the first candidate of every alias of the type.
LEMMA FirstCandidate ==
  ASSUME MimeShape, NEW u \in Types, NEW a \in Paths, M!Merged(file).Defaults[Alias[u]] = a
  PROVE  M!Candidates(M!Merged(file), u) \in Firsts(<<Alias[u], a>>)
<1> DEFINE m == M!Merged(file)
           one == M!Along(u, M!Default(m))
           two == M!Along(u, m.Added)
           three == M!Along(u, system.Cache)
           four == M!Along(u, Installed)
<1>1. m.Defaults \in [Types -> Paths \cup {None}] /\ m.Added \in Offers
  BY MergedIs
<1>2. system.Cache \in Offers /\ Installed \in Offers
  BY MimeAssumption DEF MimeShape, MimeSystems, Offers
<1>3. Alias[u] \in Types /\ a # None
  BY MimeAssumption, NoneApart
<1> HIDE DEF m
<1>4. M!Default(m) = [t \in Types |-> IF m.Defaults[t] = None THEN <<>> ELSE <<m.Defaults[t]>>]
  BY DEF M!Default
<1>5. M!Default(m) \in Offers
  <2>1. ASSUME NEW t \in Types PROVE (IF m.Defaults[t] = None THEN <<>> ELSE <<m.Defaults[t]>>) \in Seq(Paths)
    <3>1. m.Defaults[t] \in Paths \cup {None} /\ <<>> \in Seq(Paths)
      BY <1>1
    <3>2. \A b \in Paths : <<b>> \in Seq(Paths)
      OBVIOUS
    <3> QED
      BY <3>1, <3>2
  <2> QED
    BY <1>4, <2>1 DEF Offers
<1>6. M!Default(m)[Alias[u]] = <<a>>
  <2>1. m.Defaults[Alias[u]] = a
    BY DEF m
  <2> QED
    BY <1>3, <1>4, <2>1
<1>7. one \in Firsts(<<Alias[u], a>>)
  BY <1>5, <1>6, AlongIs
<1>8. two \in Seq(Pairs) /\ three \in Seq(Pairs) /\ four \in Seq(Pairs)
  BY <1>1, <1>2, AlongIs
<1>9. M!Candidates(m, u) = ((one \o two) \o three) \o four
  BY DEF M!Candidates
<1> HIDE DEF one, two, three, four
<1>10. ((one \o two) \o three) \o four \in Firsts(<<Alias[u], a>>)
  BY <1>7, <1>8, FirstsGrow
<1> QED
  BY <1>9, <1>10 DEF m

\* It is the one GetDefault finds unless it was taken away from the type.
LEMMA DefaultFound ==
  ASSUME MimeShape, NEW u \in Types, NEW a \in Paths, M!Merged(file).Defaults[Alias[u]] = a,
         a \notin M!Merged(file).Removed[Alias[u]]
  PROVE  /\ M!GetDefault(u) = a
         /\ a \in M!AppsForMime(u) \cup M!RemovedAlong(M!Merged(file), u)
<1> DEFINE m == M!Merged(file)
           all == M!Candidates(m, u)
           left == {i \in DOMAIN all : all[i][2] \notin m.Removed[all[i][1]]}
<1>1. all \in Firsts(<<Alias[u], a>>)
  BY FirstCandidate
<1>2. M!GetDefault(u) = IF left = {} THEN None ELSE all[M!Min(left)][2]
  BY DEF M!GetDefault
<1>3. M!AppsForMime(u) = {c[2] : c \in M!ToSet(all)} \ M!RemovedAlong(m, u)
  BY DEF M!AppsForMime
<1>4. a \notin m.Removed[Alias[u]]
  OBVIOUS
<1> HIDE DEF m, all
<1>5. /\ all \in Seq(Pairs) /\ Len(all) \in Nat /\ Len(all) >= 1 /\ all[1] = <<Alias[u], a>>
      /\ DOMAIN all = 1..Len(all) /\ 1 \in DOMAIN all
  BY <1>1 DEF Firsts
<1>6. 1 \in left /\ left \in SUBSET Nat /\ \A i \in left : i >= 1
  BY <1>4, <1>5
<1> HIDE DEF left
<1>7. M!Min(left) = 1
  <2>1. M!Min(left) \in left /\ M!Min(left) <= 1
    BY <1>6, MinIs
  <2>2. M!Min(left) \in Nat /\ M!Min(left) >= 1
    BY <1>6, <2>1
  <2> QED
    BY <2>1, <2>2
<1>8. M!GetDefault(u) = a
  BY <1>2, <1>5, <1>6, <1>7
<1>9. a \in {c[2] : c \in M!ToSet(all)}
  <2>1. all[1] \in M!ToSet(all) /\ all[1][2] = a
    BY <1>5 DEF M!ToSet
  <2> QED
    BY <2>1
<1> QED
  BY <1>3, <1>8, <1>9 DEF m

\* mimeapps.go and mime.go: what SetDefaults has set is what is found, whatever
\* stood in the file and however the goroutines of one process overlap: the
\* reader of the file finds it, GetDefault opens with it under every name of
\* the type, and AppsForMime lists it, unless it was taken away further up.
THEOREM SticksCorrect == MCSpec => []Sticks
<1>1. ASSUME MimeInv, ~overwritten, NEW t \in Types, want[t] # None
      PROVE  /\ M!Associations(file).Defaults[t] = want[t]
             /\ Alias[t] = t /\ want[t] \notin M!ToSet(M!ListOf(system.Removed[t]))
                  => \A u \in Types : Alias[u] = t =>
                       /\ M!GetDefault(u) = want[t]
                       /\ want[t] \in M!AppsForMime(u) \cup M!RemovedAlong(M!Merged(file), u)
  <2> DEFINE user == M!Associations(file)
             m == M!Merged(file)
  <2>1. user.Defaults[t] = want[t] /\ want[t] \notin TakenAway(user, t)
    BY <1>1 DEF MimeInv, StandsThere
  <2>2. MimeShape /\ want[t] \in Paths
    BY <1>1 DEF MimeInv, MimeShape
  <2>3. m.Defaults[t] = want[t] /\ m.Removed[t] = TakenAway(user, t) \cup TakenAway(system, t)
    BY <1>1, <2>1, <2>2, MergedIs
  <2>4. ASSUME want[t] \notin M!ToSet(M!ListOf(system.Removed[t])), NEW u \in Types, Alias[u] = t
        PROVE  M!GetDefault(u) = want[t] /\ want[t] \in M!AppsForMime(u) \cup M!RemovedAlong(m, u)
    <3>1. want[t] \notin m.Removed[t]
      BY <2>1, <2>3, <2>4 DEF TakenAway
    <3> QED
      BY <2>2, <2>3, <2>4, <3>1, DefaultFound
  <2> QED
    BY <2>1, <2>4
<1>2. DiskInv => Sticks
  BY <1>1 DEF DiskInv, Sticks, M!Sticks
<1> QED
  BY <1>2, DiskInductive, PTL

-----------------------------------------------------------------------------
\* The types of the four components.

\* Thumbs within its bounds: the image a request has made is one of the
\* contents the file has had.
JobFits(q) == \/ q = H!Idle
              \/ /\ q.slot \in H!Slots /\ q.sec \in 1..MaxTime
                 /\ q.at = "write" => q.image \in 1..MaxWrites

ThumbTypes ==
  /\ listed \in 1..MaxTime
  /\ picture \in [content : 1..MaxWrites, sec : 1..MaxTime, past : SUBSET (1..MaxTime)]
  /\ made \in [H!Slots -> {None} \cup [sec : 1..MaxTime, content : 1..MaxWrites]]
  /\ \A j \in Jobs : JobFits(job[j])

LEMMA ThumbTypesInit == H!Init => ThumbTypes
<1> SUFFICES ASSUME H!Init PROVE ThumbTypes
  OBVIOUS
<1>1. 1 \in 1..MaxTime /\ 1 \in 1..MaxWrites
  BY ThumbAssumption
<1>2. listed = 1 /\ picture = [content |-> 1, sec |-> 1, past |-> {}]
  BY DEF H!Init
<1>3. made \in [H!Slots -> {None} \cup [sec : 1..MaxTime, content : 1..MaxWrites]]
  BY DEF H!Init
<1>4. \A j \in Jobs : JobFits(job[j])
  BY DEF H!Init, JobFits
<1> QED
  BY <1>1, <1>2, <1>3, <1>4 DEF ThumbTypes

\* A step of a request that leaves the rest as it is.
LEMMA RequestTypes ==
  ASSUME ThumbInv, ThumbTypes, NEW j \in Jobs, NEW one, JobFits(one),
         job' = [job EXCEPT ![j] = one], UNCHANGED <<picture, listed>>,
         made' \in [H!Slots -> {None} \cup [sec : 1..MaxTime, content : 1..MaxWrites]]
  PROVE  ThumbTypes'
<1>1. \A i \in Jobs : job'[i] = one \/ job'[i] = job[i]
  BY DEF ThumbInv
<1>2. \A i \in Jobs : JobFits(job'[i])
  BY <1>1 DEF ThumbTypes
<1>3. \A i \in Jobs : JobFits(job[i])'
  BY <1>2 DEF JobFits, H!Idle, H!Slots, H!Fail
<1> QED
  BY <1>3 DEF ThumbTypes

LEMMA ThumbTypesStep ==
  ASSUME ThumbInv, ThumbTypes, [H!Next]_H!vars
  PROVE  ThumbTypes'
<1> DEFINE Thumbnails == {None} \cup [sec : 1..MaxTime, content : 1..MaxWrites]
<1>0. /\ listed \in 1..MaxTime /\ picture.content \in 1..MaxWrites
      /\ picture.sec \in 1..MaxTime /\ picture.past \subseteq 1..MaxTime
      /\ made \in [H!Slots -> Thumbnails] /\ MaxTime \in Nat /\ MaxWrites \in Nat
  BY ThumbAssumption DEF ThumbTypes
<1>1. CASE H!WatchReads
  BY <1>0, <1>1 DEF H!WatchReads, ThumbTypes, JobFits
<1>2. CASE H!FileChanges
  <2>1. PICK sec \in 1..MaxTime :
          /\ picture' = [content |-> picture.content + 1, sec |-> sec, past |-> picture.past \cup {picture.sec}]
          /\ picture.content < MaxWrites /\ UNCHANGED <<listed, made, job>>
    BY <1>2 DEF H!FileChanges
  <2>2. picture.content + 1 \in 1..MaxWrites /\ picture.past \cup {picture.sec} \in SUBSET (1..MaxTime)
    BY <1>0, <2>1
  <2>3. picture' \in [content : 1..MaxWrites, sec : 1..MaxTime, past : SUBSET (1..MaxTime)]
    BY <2>1, <2>2
  <2> QED
    BY <2>1, <2>3 DEF ThumbTypes, JobFits
<1>3. ASSUME NEW j \in Jobs,
             \/ H!ThumbEntry(j) \/ H!Lookup(j) \/ H!Failed(j) \/ H!Generate(j) \/ H!Render(j)
             \/ H!Write(j) \/ H!WriteFails(j)
      PROVE  ThumbTypes'
  <2>1. JobFits(job[j]) /\ job[j] \in [at : ThumbSteps, slot : H!Slots \cup {None}, sec : Nat, image : Nat]
    BY DEF ThumbTypes, ThumbInv
  <2>2. JobFits(H!Idle)
    BY DEF JobFits
  <2>3. CASE H!Answered(j) /\ UNCHANGED <<picture, listed, made>>
    BY <1>0, <2>2, <2>3, RequestTypes DEF H!Answered
  <2>4. ASSUME NEW at \in {"failed", "generate", "render"}, job[j].at # "idle",
               H!Goto(j, at), UNCHANGED <<picture, listed, made>>
        PROVE  ThumbTypes'
    <3> DEFINE one == [job[j] EXCEPT !.at = at]
    <3>1. job' = [job EXCEPT ![j] = one]
      BY <2>4 DEF H!Goto, ThumbInv
    <3>2. one.at # "write" /\ one.slot = job[j].slot /\ one.sec = job[j].sec
      BY <2>1
    <3>3. job[j] # H!Idle
      BY <2>4 DEF H!Idle
    <3>4. JobFits(one)
      BY <2>1, <3>2, <3>3 DEF JobFits
    <3> HIDE DEF one
    <3> QED
      BY <1>0, <2>4, <3>1, <3>4, RequestTypes
  <2>5. CASE H!ThumbEntry(j)
    <3>1. PICK size \in Sizes, sec \in {listed, picture.sec} :
            job' = [job EXCEPT ![j] = [at |-> "lookup", slot |-> size, sec |-> sec, image |-> 0]]
      BY <2>5 DEF H!ThumbEntry
    <3> DEFINE one == [at |-> "lookup", slot |-> size, sec |-> sec, image |-> 0]
    <3>2. JobFits(one)
      BY <1>0, <3>1 DEF JobFits, H!Slots
    <3> QED
      BY <1>0, <2>5, <3>1, <3>2, RequestTypes DEF H!ThumbEntry
  <2>6. CASE H!Render(j)
    <3>1. PICK slot \in {job[j].slot, H!Fail} :
            job' = [job EXCEPT ![j] = [at |-> "write", slot |-> slot, sec |-> job[j].sec, image |-> picture.content]]
      BY <2>6 DEF H!Render
    <3> DEFINE one == [at |-> "write", slot |-> slot, sec |-> job[j].sec, image |-> picture.content]
    <3>2. job[j] # H!Idle
      BY <2>6 DEF H!Render, H!Idle
    <3>3. job[j].slot \in H!Slots /\ job[j].sec \in 1..MaxTime /\ slot \in H!Slots
      BY <2>1, <3>1, <3>2 DEF JobFits, H!Slots
    <3>4. JobFits(one)
      BY <1>0, <3>3 DEF JobFits
    <3> QED
      BY <1>0, <2>6, <3>1, <3>4, RequestTypes DEF H!Render
  <2>7. CASE H!Write(j)
    <3> DEFINE thumb == [sec |-> job[j].sec, content |-> job[j].image]
    <3>1. job[j].at = "write" /\ job[j] # H!Idle
      BY <2>7 DEF H!Write, H!Idle
    <3>2. thumb \in [sec : 1..MaxTime, content : 1..MaxWrites]
      BY <2>1, <3>1 DEF JobFits
    <3>3. /\ made' = [made EXCEPT ![job[j].slot] = thumb] /\ UNCHANGED <<picture, listed>>
          /\ job' = [job EXCEPT ![j] = H!Idle]
      BY <2>7 DEF H!Write, H!Answered, H!Second
    <3> HIDE DEF thumb
    <3>4. made' \in [H!Slots -> Thumbnails]
      BY <1>0, <3>2, <3>3
    <3> QED
      BY <2>2, <3>3, <3>4, RequestTypes
  <2>8. CASE H!Lookup(j) \/ H!Failed(j) \/ H!Generate(j) \/ H!WriteFails(j)
    <3>1. job[j].at # "idle"
      BY <2>8 DEF H!Lookup, H!Failed, H!Generate, H!WriteFails
    <3>2. \/ H!Answered(j) /\ UNCHANGED <<picture, listed, made>>
          \/ \E at \in {"failed", "generate", "render"} :
               H!Goto(j, at) /\ UNCHANGED <<picture, listed, made>>
      BY <2>8 DEF H!Lookup, H!Failed, H!Generate, H!WriteFails
    <3> QED
      BY <2>3, <2>4, <3>1, <3>2
  <2> QED
    BY <1>3, <2>5, <2>6, <2>7, <2>8
<1>4. CASE UNCHANGED H!vars
  BY <1>4 DEF H!vars, ThumbTypes, JobFits
<1> QED
  BY <1>1, <1>2, <1>3, <1>4 DEF H!Next

LEMMA ThumbTypesInductive == MCSpec => [](ThumbTypes /\ ThumbInv)
<1>1. H!Init => ThumbTypes /\ ThumbInv
  BY ThumbTypesInit, ThumbInit
<1>2. ThumbTypes /\ ThumbInv /\ [H!Next]_H!vars => (ThumbTypes /\ ThumbInv)'
  BY ThumbTypesStep, ThumbStep
<1> QED
  BY <1>1, <1>2, GroupThumbs, PTL DEF H!Spec

LEMMA GroupTrash == MCSpec => Spec
<1>1. MCInit => Init
  BY DEF MCInit
<1>2. [MCNext]_<<which, vars, shellvars, mimevars, thumbvars>> => [Next]_vars
  BY DEF MCNext, vars
<1> QED
  BY <1>1, <1>2, PTL DEF MCSpec, Spec

\* pidfile.go, shellfs.go, trash.go, mimeapps.go and thumbs.go: what lies on
\* the disk and what the processes know keeps its shape, and no two calls of
\* trash.go work on one name, for any number of processes, names and files.
THEOREM TypesCorrect == ASSUME Distinct PROVE MCSpec => []TypesOK
<1>1. MimeInv => M!TypeOK
  <2> SUFFICES ASSUME MimeInv PROVE M!TypeOK
    OBVIOUS
  <2>1. \A p \in Procs : /\ setting[p].at \in {"idle", "lock", "rename"} /\ setting[p].types \subseteq Types
                         /\ setting[p].app \in Paths \cup {None}
    BY DEF MimeInv, MimeShape, MimeCalls
  <2>2. {shared, overwritten} \subseteq BOOLEAN
    BY DEF MimeInv, MimeShape
  <2> QED
    BY <2>1, <2>2 DEF MimeInv, MimeShape, M!TypeOK
<1>2. ThumbTypes => H!TypeOK
  BY DEF ThumbTypes, JobFits, H!TypeOK
<1>3. ShellInv => U!TypeOK
  BY DEF ShellInv
<1>4. DiskInv /\ ThumbTypes /\ ShellInv /\ IInv => TypesOK
  <2>1. IInv => TypeOK /\ OwnNames
    BY DEF IInv, Shape, Safe, Own, OwnNames
  <2>2. DiskInv => /\ which \in {"trash", "shell", "mime", "thumbs"} /\ (which = "mime" => M!TypeOK)
    BY <1>1 DEF DiskInv
  <2> HIDE DEF DiskInv, ThumbTypes, ShellInv, IInv
  <2> QED
    BY <1>2, <1>3, <2>1, <2>2 DEF TypesOK
<1> QED
  BY <1>4, DiskInductive, ThumbTypesInductive, ShellInductive, GroupTrash, Inductive, PTL
=============================================================================

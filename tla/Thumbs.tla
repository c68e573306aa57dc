------------------------------- MODULE Thumbs -------------------------------
(***************************************************************************)
(* files/thumbs.go and Service.thumbnails: the thumbnails of one file in   *)
(* the cache all programs share.  What lies there carries the modification *)
(* second of the entry it was asked for, and counts while the entry has    *)
(* that second.  Requests look, and what they do not find the pool makes;  *)
(* the file changes at any moment.  The second is Lstat's: it need not be  *)
(* a new one when the content is, for a file moved in keeps its own, and   *)
(* a link keeps its own whatever becomes of the target that is decoded.    *)
(***************************************************************************)
EXTENDS Naturals

CONSTANTS Jobs,        \* requests for a thumbnail, each with its task of the pool
          Sizes,       \* the sizes
          MaxTime, MaxWrites,   \* bounds: seconds, and contents at the path
          None

VARIABLES
  file,      \* what the path leads to: its content, a number; the second of the
             \* entry's mtime; the seconds the entry had with earlier contents
  listed,    \* the second a watch of the directory knows
  made,      \* the thumbnail of each size, and the fail marker: second and content
  job        \* each request: where it is, the size, the second of its entry, its image

vars == <<file, listed, made, job>>

Fail  == "fail"
Slots == Sizes \cup {Fail}
Idle  == [at |-> "idle", slot |-> None, sec |-> 0, image |-> 0]

-----------------------------------------------------------------------------
\* It is written, now or in the second it was; another is renamed or copied to
\* its path with the time it has; it is a link and its target changes.
FileChanges ==
  /\ file.content < MaxWrites
  /\ \E sec \in 1..MaxTime :
       file' = [content |-> file.content + 1, sec |-> sec, past |-> file.past \cup {file.sec}]
  /\ UNCHANGED <<listed, made, job>>

\* The watch reads the entry again some time after the change.
WatchReads == /\ listed' = file.sec
              /\ UNCHANGED <<file, made, job>>

-----------------------------------------------------------------------------
\* valid
Valid(slot, sec) == made[slot] # None /\ made[slot].sec = sec

Goto(j, at) == job' = [job EXCEPT ![j].at = at]
Answered(j) == job' = [job EXCEPT ![j] = Idle]

\* thumbEntry: the entry of the watch, or Stat.
ThumbEntry(j) ==
  /\ job[j] = Idle
  /\ \E size \in Sizes, sec \in {listed, file.sec} :
       job' = [job EXCEPT ![j] = [at |-> "lookup", slot |-> size, sec |-> sec, image |-> 0]]
  /\ UNCHANGED <<file, listed, made>>

\* thumbnails: what is there is answered, what failed is told, the rest queued.
Lookup(j) ==
  /\ job[j].at = "lookup"
  /\ IF Valid(job[j].slot, job[j].sec) THEN Answered(j) ELSE Goto(j, "failed")
  /\ UNCHANGED <<file, listed, made>>

Failed(j) ==
  /\ job[j].at = "failed"
  /\ IF Valid(Fail, job[j].sec) THEN Answered(j) ELSE Goto(j, "generate")
  /\ UNCHANGED <<file, listed, made>>

\* Generate looks once more: another request may have made it.
Generate(j) ==
  /\ job[j].at = "generate"
  /\ IF Valid(job[j].slot, job[j].sec) THEN Answered(j) ELSE Goto(j, "render")
  /\ UNCHANGED <<file, listed, made>>

\* render reads the file as it is now; it may fail, for the content or for a
\* tool that is too slow.
Render(j) ==
  /\ job[j].at = "render"
  /\ \E slot \in {job[j].slot, Fail} :
       job' = [job EXCEPT ![j] = [at |-> "write", slot |-> slot, sec |-> job[j].sec, image |-> file.content]]
  /\ UNCHANGED <<file, listed, made>>

\* metadata: the second of the entry, which was read before the file was.
SecondNow(j) == file.sec   \* faulty: the second the file has when the thumbnail is written
Second(j) == job[j].sec

\* writePNGWithText and markFailed replace the file of the cache in one step.
Write(j) ==
  /\ job[j].at = "write"
  /\ made' = [made EXCEPT ![job[j].slot] = [sec |-> Second(j), content |-> job[j].image]]
  /\ Answered(j)
  /\ UNCHANGED <<file, listed>>

WriteFails(j) ==
  /\ job[j].at = "write" /\ Answered(j)
  /\ UNCHANGED <<file, listed, made>>

Init == /\ file = [content |-> 1, sec |-> 1, past |-> {}] /\ listed = 1
        /\ made = [s \in Slots |-> None] /\ job = [j \in Jobs |-> Idle]

Next == \/ FileChanges \/ WatchReads
        \/ \E j \in Jobs : \/ ThumbEntry(j) \/ Lookup(j) \/ Failed(j) \/ Generate(j) \/ Render(j)
                           \/ Write(j) \/ WriteFails(j)
Spec == Init /\ [][Next]_vars

-----------------------------------------------------------------------------
TypeOK ==
  /\ listed \in 1..MaxTime
  /\ file \in [content : 1..MaxWrites, sec : 1..MaxTime, past : SUBSET (1..MaxTime)]
  /\ made \in [Slots -> {None} \cup [sec : 1..MaxTime, content : 1..MaxWrites]]
  /\ \A j \in Jobs : job[j] = Idle \/ (job[j].slot \in Slots /\ job[j].sec \in 1..MaxTime)

\* What would be shown for the file as it is now, its fail marker included, was
\* made of the file as it is now, however the requests overlap with its changes,
\* unless its entry had the same second with an earlier content: the code goes
\* by nothing else.
ThumbsTrue ==
  \A s \in Slots : Valid(s, file.sec) /\ file.sec \notin file.past => made[s].content = file.content
=============================================================================

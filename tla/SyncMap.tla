------------------------------- MODULE SyncMap -------------------------------
(***************************************************************************)
(* The concurrent map of syncmap/syncmap.go, in which the wayland client   *)
(* keeps its proxies: an immutable read table consulted without the lock,  *)
(* a dirty table under mu, and one pointer per entry changed by            *)
(* compare-and-swap.                                                       *)
(*                                                                         *)
(* One step is one access another goroutine can see: the read table, an    *)
(* entry's pointer, or a critical section up to its first such access      *)
(* (what only mu protects is merged into it).  A process writes its own    *)
(* name, so that a value says who stored it; a pointer that is replaced by *)
(* another to an equal value counts as unchanged.  An entry no table and   *)
(* no process refers to any more is collected and may be allocated again.  *)
(***************************************************************************)
EXTENDS Naturals, FiniteSets

CONSTANTS Proc,       \* goroutines; each stores its own name
          Key,
          Entry,      \* bound: entries alive at once
          Kinds,      \* the operations the processes call
          Nil, Expunged, NoEntry, NoKey, Free

AllKinds == {"Load", "Swap", "LoadOrStore", "LoadAndDelete",
             "CompareAndSwap", "CompareAndDelete", "Range"}
Writers  == {"Swap", "LoadOrStore"}               \* may insert a key
Compares == {"CompareAndSwap", "CompareAndDelete"}

ASSUME SyncMapAssumption ==
  /\ Kinds \subseteq AllKinds
  /\ IsFiniteSet(Key)
  /\ Nil \notin Proc /\ Expunged \notin Proc /\ Free \notin Proc
  /\ Nil # Expunged
  /\ NoEntry \notin Entry
  /\ NoKey \notin Key

VARIABLES
  readM, amended,          \* Map.read: the table and its flag
  dirtyM, hasDirty,        \* Map.dirty, and whether it is allocated
  misses, mu,
  ptr,                     \* entry.p
  pc, req,                 \* each process: its step and the call it is in
  ent, seen,               \* the entry it holds and the pointer it loaded
  todo, snap,              \* keys still to copy or to visit, the table it ranges over
  res                      \* what its call answers

tables == <<readM, amended, dirtyM, hasDirty, misses>>
slot   == <<ent, seen>>
walk   == <<todo, snap>>
vars   == <<tables, mu, ptr, pc, req, slot, walk, res>>

Slot     == Entry \cup {NoEntry}
Table    == [Key -> Slot]
Pointer  == Proc \cup {Nil, Expunged}
Request  == [kind : Kinds, key : Key \cup {NoKey}, old : Proc \cup {Nil}]
NoAnswer == [val |-> Nil, ok |-> FALSE]

\* A call is well formed: Range names no key, the compares name a value.
Asks == {r \in Request : /\ (r.key = NoKey) <=> (r.kind = "Range")
                         /\ (r.old = Nil) <=> (r.kind \notin Compares)}
NoRequest == [kind |-> "none", key |-> NoKey, old |-> Nil]

EmptyTable == [k \in Key |-> NoEntry]
Present(t) == {k \in Key : t[k] # NoEntry}
Live(v)    == v \notin {Nil, Expunged}
AsValue(v) == IF Live(v) THEN v ELSE Nil

\* Entries that no table and no process can reach.
Unreachable ==
  {e \in Entry : /\ \A k \in Key : readM[k] # e /\ dirtyM[k] # e
                 /\ \A q \in Proc : ent[q] # e /\ \A k \in Key : snap[q][k] # e}

-----------------------------------------------------------------------------
\* Ends of a step.

Goto(p, l) == /\ pc' = [pc EXCEPT ![p] = l]
              /\ UNCHANGED <<req, res>>

Hold(p, e) == /\ ent' = [ent EXCEPT ![p] = e]
              /\ UNCHANGED seen

Answer(p, a) == /\ pc' = [pc EXCEPT ![p] = "done"]
                /\ res' = [res EXCEPT ![p] = a]
                /\ ent' = [ent EXCEPT ![p] = NoEntry]
                /\ seen' = [seen EXCEPT ![p] = Nil]
                /\ UNCHANGED req

\* The dirty table d becomes the read table.
PromoteKeepingMisses(d) ==
  /\ readM' = d /\ amended' = FALSE
  /\ dirtyM' = EmptyTable /\ hasDirty' = FALSE
  /\ misses' = misses + 1
Promote(d) ==
  /\ readM' = d /\ amended' = FALSE
  /\ dirtyM' = EmptyTable /\ hasDirty' = FALSE
  /\ misses' = 0

\* missLocked, with the dirty table as the caller leaves it.
Miss(d) ==
  IF misses + 1 < Cardinality(Present(d))
  THEN misses' = misses + 1 /\ dirtyM' = d /\ UNCHANGED <<readM, amended, hasDirty>>
  ELSE Promote(d)

\* End of a critical section that worked on the entry of `key`: one found in
\* the dirty table counts as a miss.
Release(p) ==
  IF mu = p
  THEN /\ mu' = Free
       /\ IF readM[req[p].key] # NoEntry THEN UNCHANGED tables ELSE Miss(dirtyM)
  ELSE UNCHANGED <<mu, tables>>

-----------------------------------------------------------------------------
Call(p, r) ==
  /\ pc[p] = "idle"
  /\ pc' = [pc EXCEPT ![p] = "read"]
  /\ req' = [req EXCEPT ![p] = r]
  /\ UNCHANGED <<tables, mu, ptr, slot, walk, res>>

Return(p) ==
  /\ pc[p] = "done"
  /\ pc' = [pc EXCEPT ![p] = "idle"]
  /\ req' = [req EXCEPT ![p] = NoRequest]
  /\ res' = [res EXCEPT ![p] = NoAnswer]
  /\ UNCHANGED <<tables, mu, ptr, slot, walk>>

\* The lookup in the read table every keyed operation starts with.
Look(p) ==
  /\ pc[p] = "read" /\ req[p].kind # "Range"
  /\ LET e == readM[req[p].key] IN
     \/ e # NoEntry /\ Goto(p, "peek") /\ Hold(p, e)
     \/ /\ e = NoEntry
        /\ amended \/ req[p].kind \in Writers
        /\ Goto(p, "lock") /\ UNCHANGED slot
     \/ /\ e = NoEntry
        /\ ~amended /\ req[p].kind \notin Writers
        /\ Answer(p, NoAnswer)
  /\ UNCHANGED <<tables, mu, ptr, walk>>

\* What a pointer just loaded tells the operation.
Decided(p, v) ==
  \/ req[p].kind = "Load"
  \/ req[p].kind = "LoadAndDelete" /\ ~Live(v)
  \/ req[p].kind = "LoadOrStore" /\ v # Nil
  \/ req[p].kind \in Compares /\ v # req[p].old

AnswerOf(p, v) == IF req[p].kind \in Compares THEN NoAnswer
                  ELSE [val |-> AsValue(v), ok |-> Live(v)]

\* Load of the entry's pointer in load, delete, trySwap, tryLoadOrStore,
\* tryCompareAndSwap and CompareAndDelete.
Peek(p) ==
  /\ pc[p] = "peek"
  /\ LET v == ptr[ent[p]]
         expunged == v = Expunged /\ req[p].kind \in Writers /\ mu # p
     IN
     \/ /\ expunged
        /\ Goto(p, "lock") /\ Hold(p, NoEntry) /\ UNCHANGED <<mu, tables>>
     \/ /\ ~expunged /\ Decided(p, v)
        /\ Answer(p, AnswerOf(p, v)) /\ Release(p)
     \/ /\ ~expunged /\ ~Decided(p, v)
        /\ Goto(p, "cas") /\ seen' = [seen EXCEPT ![p] = v]
        /\ UNCHANGED <<ent, mu, tables>>
  /\ UNCHANGED <<ptr, walk>>

Deletes(k) == k \in {"LoadAndDelete", "CompareAndDelete"}

\* What a successful compare-and-swap answers.
SwappedAnswer(p) ==
  CASE req[p].kind = "LoadOrStore" -> [val |-> p, ok |-> FALSE]
    [] req[p].kind \in Compares    -> [val |-> Nil, ok |-> TRUE]
    [] OTHER -> [val |-> AsValue(seen[p]), ok |-> Live(seen[p])]

Swapped(p) == IF Deletes(req[p].kind) THEN Nil ELSE p

BlindCas(p) ==
  /\ pc[p] = "cas"
  /\ ptr' = [ptr EXCEPT ![ent[p]] = Swapped(p)]
  /\ Answer(p, SwappedAnswer(p)) /\ Release(p)
  /\ UNCHANGED walk
Cas(p) ==
  /\ pc[p] = "cas"
  /\ \/ /\ ptr[ent[p]] = seen[p]
        /\ ptr' = [ptr EXCEPT ![ent[p]] = Swapped(p)]
        /\ Answer(p, SwappedAnswer(p)) /\ Release(p)
     \/ /\ ptr[ent[p]] # seen[p]
        /\ Goto(p, "peek") /\ seen' = [seen EXCEPT ![p] = Nil]
        /\ UNCHANGED <<ptr, ent, mu, tables>>
  /\ UNCHANGED walk

-----------------------------------------------------------------------------
\* Critical sections.

\* Load, LoadAndDelete, CompareAndDelete: the second lookup, under mu, then
\* the work on the entry after it is released.
LookLocked(p) ==
  /\ pc[p] = "lock" /\ mu = Free
  /\ req[p].kind \in {"Load", "LoadAndDelete", "CompareAndDelete"}
  /\ LET k == req[p].key
         e == readM[k]
         d == dirtyM[k]
         taken == IF req[p].kind = "LoadAndDelete"
                  THEN [dirtyM EXCEPT ![k] = NoEntry] ELSE dirtyM
     IN
     \/ /\ e # NoEntry
        /\ Goto(p, "peek") /\ Hold(p, e) /\ UNCHANGED tables
     \/ /\ e = NoEntry /\ ~amended
        /\ Answer(p, NoAnswer) /\ UNCHANGED tables
     \/ /\ e = NoEntry /\ amended
        /\ Miss(taken)
        /\ IF d # NoEntry THEN Goto(p, "peek") /\ Hold(p, d)
                          ELSE Answer(p, NoAnswer)
  /\ UNCHANGED <<mu, ptr, walk>>

\* CompareAndSwap keeps mu while it works on the entry.
CompareLocked(p) ==
  /\ pc[p] = "lock" /\ mu = Free /\ req[p].kind = "CompareAndSwap"
  /\ LET e == readM[req[p].key]
         d == dirtyM[req[p].key]
         found == IF e # NoEntry THEN e ELSE d
     IN
     \/ /\ found # NoEntry
        /\ mu' = p /\ Goto(p, "peek") /\ Hold(p, found)
     \/ /\ found = NoEntry
        /\ Answer(p, NoAnswer) /\ UNCHANGED mu
  /\ UNCHANGED <<tables, ptr, walk>>

\* Swap and LoadOrStore find the entry in a table: an expunged one goes back
\* to the dirty table first.
UnexpungeUnrecorded(e, k) ==
  /\ ptr' = [ptr EXCEPT ![e] = IF @ = Expunged THEN Nil ELSE @]
  /\ UNCHANGED dirtyM
Unexpunge(e, k) ==
  IF ptr[e] = Expunged
  THEN ptr' = [ptr EXCEPT ![e] = Nil] /\ dirtyM' = [dirtyM EXCEPT ![k] = e]
  ELSE UNCHANGED <<ptr, dirtyM>>

FoundLocked(p) ==
  /\ pc[p] = "lock" /\ mu = Free /\ req[p].kind \in Writers
  /\ LET k == req[p].key
         e == readM[k]
         d == dirtyM[k]
     IN
     /\ \/ e # NoEntry /\ Unexpunge(e, k) /\ Hold(p, e)
        \/ e = NoEntry /\ d # NoEntry /\ Hold(p, d) /\ UNCHANGED <<ptr, dirtyM>>
     /\ Goto(p, IF req[p].kind = "Swap" THEN "swap" ELSE "peek")
  /\ mu' = p
  /\ UNCHANGED <<readM, amended, hasDirty, misses, walk>>

\* They do not: dirtyLocked makes the dirty table if there is none.
AbsentLocked(p) ==
  /\ pc[p] = "lock" /\ mu = Free /\ req[p].kind \in Writers
  /\ readM[req[p].key] = NoEntry /\ dirtyM[req[p].key] = NoEntry
  /\ mu' = p
  /\ \/ /\ ~amended /\ ~hasDirty /\ Present(readM) # {}
        /\ hasDirty' = TRUE
        /\ todo' = [todo EXCEPT ![p] = Present(readM)]
        /\ Goto(p, "copy")
     \/ /\ amended \/ hasDirty \/ Present(readM) = {}
        /\ hasDirty' = TRUE
        /\ Goto(p, "insert") /\ UNCHANGED todo
  /\ UNCHANGED <<readM, amended, dirtyM, misses, ptr, slot, snap>>

\* tryExpungeLocked on one entry of the read table, and its copy.
CopyOne(p) ==
  /\ pc[p] = "copy"
  /\ \E k \in todo[p] :
       LET e == readM[k] IN
       /\ IF Live(ptr[e])
          THEN dirtyM' = [dirtyM EXCEPT ![k] = e] /\ UNCHANGED ptr
          ELSE ptr' = [ptr EXCEPT ![e] = Expunged] /\ UNCHANGED dirtyM
       /\ todo' = [todo EXCEPT ![p] = @ \ {k}]
       /\ Goto(p, IF todo[p] = {k} THEN "insert" ELSE "copy")
  /\ UNCHANGED <<readM, amended, hasDirty, misses, mu, slot, snap>>

\* The new key: read is marked amended, the entry goes in the dirty table.
Insert(p) ==
  /\ pc[p] = "insert" /\ Unreachable # {}
  /\ LET e == CHOOSE f \in Unreachable : TRUE IN
     /\ ptr' = [ptr EXCEPT ![e] = p]
     /\ dirtyM' = [dirtyM EXCEPT ![req[p].key] = e]
  /\ amended' = TRUE
  /\ mu' = Free
  /\ Answer(p, IF req[p].kind = "Swap" THEN NoAnswer ELSE [val |-> p, ok |-> FALSE])
  /\ UNCHANGED <<readM, hasDirty, misses, walk>>
\* swapLocked, then unlock.
SwapEarlyReturn(p) ==
  /\ pc[p] = "swap"
  /\ ptr' = [ptr EXCEPT ![ent[p]] = p]
  /\ mu' = IF Live(ptr[ent[p]]) THEN Free ELSE mu
  /\ Answer(p, [val |-> AsValue(ptr[ent[p]]), ok |-> Live(ptr[ent[p]])])
  /\ UNCHANGED <<tables, walk>>
SwapLocked(p) ==
  /\ pc[p] = "swap"
  /\ ptr' = [ptr EXCEPT ![ent[p]] = p]
  /\ mu' = Free
  /\ Answer(p, [val |-> AsValue(ptr[ent[p]]), ok |-> Live(ptr[ent[p]])])
  /\ UNCHANGED <<tables, walk>>

-----------------------------------------------------------------------------
\* Range.

StartVisits(p, t) == /\ snap' = [snap EXCEPT ![p] = t]
                     /\ todo' = [todo EXCEPT ![p] = Present(t)]
                     /\ Goto(p, "visit")

RangeReadOnly(p) ==
  /\ pc[p] = "read" /\ req[p].kind = "Range"
  /\ StartVisits(p, readM)
  /\ UNCHANGED <<tables, mu, ptr, slot>>
RangeLook(p) ==
  /\ pc[p] = "read" /\ req[p].kind = "Range"
  /\ \/ amended /\ Goto(p, "lock") /\ UNCHANGED walk
     \/ ~amended /\ StartVisits(p, readM)
  /\ UNCHANGED <<tables, mu, ptr, slot>>

RangeLocked(p) ==
  /\ pc[p] = "lock" /\ mu = Free /\ req[p].kind = "Range"
  /\ \/ amended /\ Promote(dirtyM) /\ StartVisits(p, dirtyM)
     \/ ~amended /\ StartVisits(p, readM) /\ UNCHANGED tables
  /\ UNCHANGED <<mu, ptr, slot>>

\* One entry of the iteration, in any order; the callback may end it early.
Visit(p) ==
  /\ pc[p] = "visit"
  /\ \E k \in todo[p], more \in BOOLEAN :
       /\ more \/ Live(ptr[snap[p][k]])
       /\ todo' = [todo EXCEPT ![p] = IF more THEN @ \ {k} ELSE {}]
  /\ UNCHANGED <<tables, mu, ptr, pc, req, slot, snap, res>>

VisitsDone(p) ==
  /\ pc[p] = "visit" /\ todo[p] = {}
  /\ snap' = [snap EXCEPT ![p] = EmptyTable]
  /\ Answer(p, NoAnswer)
  /\ UNCHANGED <<tables, mu, ptr, todo>>

-----------------------------------------------------------------------------
Init ==
  /\ readM = EmptyTable /\ amended = FALSE
  /\ dirtyM = EmptyTable /\ hasDirty = FALSE
  /\ misses = 0 /\ mu = Free
  /\ ptr = [e \in Entry |-> Nil]
  /\ pc = [p \in Proc |-> "idle"]
  /\ req = [p \in Proc |-> NoRequest]
  /\ ent = [p \in Proc |-> NoEntry]
  /\ seen = [p \in Proc |-> Nil]
  /\ todo = [p \in Proc |-> {}]
  /\ snap = [p \in Proc |-> EmptyTable]
  /\ res = [p \in Proc |-> NoAnswer]

\* The steps of a call between its start and its end.
Step(p) ==
  \/ Look(p) \/ Peek(p) \/ Cas(p)
  \/ LookLocked(p) \/ CompareLocked(p)
  \/ FoundLocked(p) \/ AbsentLocked(p) \/ CopyOne(p) \/ Insert(p) \/ SwapLocked(p)
  \/ RangeLook(p) \/ RangeLocked(p) \/ Visit(p) \/ VisitsDone(p)

Next == \E p \in Proc : (\E r \in Asks : Call(p, r)) \/ Step(p) \/ Return(p)

Spec == Init /\ [][Next]_vars

-----------------------------------------------------------------------------
\* The state's shape; misses in particular never outgrow the number of keys,
\* because reaching the size of the dirty table promotes it and clears them.
TypeOK ==
  /\ readM \in Table /\ amended \in BOOLEAN
  /\ dirtyM \in Table /\ hasDirty \in BOOLEAN
  /\ misses \in 0..Cardinality(Key)
  /\ mu \in Proc \cup {Free}
  /\ ptr \in [Entry -> Pointer]
  /\ pc \in [Proc -> {"idle", "read", "lock", "peek", "cas", "swap", "copy",
                     "insert", "visit", "done"}]
  /\ req \in [Proc -> Asks \cup {NoRequest}]
  /\ ent \in [Proc -> Slot] /\ seen \in [Proc -> Pointer]
  /\ todo \in [Proc -> SUBSET Key] /\ snap \in [Proc -> Table]
  /\ res \in [Proc -> [val : Proc \cup {Nil}, ok : BOOLEAN]]

\* The rule of the `entry` type's comment, at every instant and not only
\* when mu is free: an expunged entry of the read table has a dirty table to
\* go back to and is not in it (so unexpunging it never writes to a nil map),
\* every other one is in the dirty table, or about to be copied (so promotion
\* never loses a stored value), and the dirty table holds none expunged.
Copying(k) == \E p \in Proc : pc[p] = "copy" /\ k \in todo[p]
EntryRule ==
  \A k \in Key :
    /\ readM[k] # NoEntry =>
         IF ptr[readM[k]] = Expunged
         THEN hasDirty /\ dirtyM[k] = NoEntry
         ELSE hasDirty => dirtyM[k] = readM[k] \/ Copying(k)
    /\ dirtyM[k] # NoEntry => ptr[dirtyM[k]] # Expunged

\* A single call can be overtaken for ever by others (its compare-and-swap
\* fails each time), but the map as a whole cannot stop: while calls are under
\* way some call finishes, whoever holds mu.
LockFree == (\E p \in Proc : pc[p] # "idle") ~> (\E p \in Proc : pc[p] = "done")

\* The Go scheduler runs every goroutine that can run; nobody has to call.
FairSpec == Spec /\ \A p \in Proc : WF_vars(Step(p) \/ Return(p))
=============================================================================

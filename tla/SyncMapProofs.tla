---------------------------- MODULE SyncMapProofs ----------------------------
(***************************************************************************)
(* Proofs about SyncMap for any finite number of goroutines, keys and      *)
(* entries: its type invariant; the rule that ties an entry's pointer to   *)
(* the two tables; what a Range sees; and that every call answers as an    *)
(* atomic map could have answered it, the refinement of AtomicMap.         *)
(***************************************************************************)
EXTENDS SyncMapHistory, FiniteSetTheorems, WellFoundedInduction, TLAPS

USE DEF AllKinds, Writers, Compares

\* A well-formed call; Asks without its side conditions.
LEMMA AskTypes ==
  ASSUME NEW r \in Asks \cup {NoRequest}, r.kind # "Range", r.kind # "none"
  PROVE  r.key \in Key
<1>1. r \in Asks
  BY DEF NoRequest
<1> QED
  BY <1>1 DEF Asks, Request

LEMMA ComparedLive ==
  ASSUME NEW r \in Asks \cup {NoRequest}, r.kind \in Compares
  PROVE  r.old \in Proc
<1>1. r \in Asks
  BY DEF NoRequest
<1> QED
  BY <1>1 DEF Asks, Request

-----------------------------------------------------------------------------
\* Promotion and counting a miss keep the tables' types.
TablesOK == /\ readM \in Table /\ amended \in BOOLEAN
            /\ dirtyM \in Table /\ hasDirty \in BOOLEAN
            /\ misses \in 0..Cardinality(Key)

LEMMA EmptyTableType == EmptyTable \in Table
BY DEF EmptyTable, Table, Slot

LEMMA KeyCount == Cardinality(Key) \in Nat
BY FS_CardinalityType, SyncMapAssumption

LEMMA PresentCount ==
  ASSUME NEW d \in Table
  PROVE  Cardinality(Present(d)) \in Nat /\ Cardinality(Present(d)) <= Cardinality(Key)
<1>1. Present(d) \in SUBSET Key
  BY DEF Present
<1> QED
  BY <1>1, FS_Subset, FS_CardinalityType, SyncMapAssumption

LEMMA PromoteType ==
  ASSUME NEW d \in Table, Promote(d)
  PROVE  TablesOK'
<1>1. amended' \in BOOLEAN /\ hasDirty' \in BOOLEAN
  BY Zenon DEF Promote
<1>2. misses' \in 0..Cardinality(Key)
  BY KeyCount DEF Promote
<1>3. readM' \in Table /\ dirtyM' \in Table
  BY EmptyTableType DEF Promote
<1> QED
  BY <1>1, <1>2, <1>3 DEF TablesOK

LEMMA MissType ==
  ASSUME TablesOK, NEW d \in Table, Miss(d)
  PROVE  TablesOK'
<1>1. CASE misses + 1 < Cardinality(Present(d))
  BY <1>1, PresentCount, KeyCount DEF Miss, TablesOK
<1>2. CASE ~(misses + 1 < Cardinality(Present(d)))
  BY <1>2, PromoteType DEF Miss
<1> QED
  BY <1>1, <1>2

LEMMA ReleaseType ==
  ASSUME TablesOK, mu \in Proc \cup {Free}, NEW p \in Proc, Release(p)
  PROVE  TablesOK' /\ mu' \in Proc \cup {Free}
<1>1. CASE UNCHANGED tables
  BY <1>1 DEF Release, TablesOK, tables
<1>2. CASE mu' = Free /\ Miss(dirtyM)
  BY <1>2, MissType DEF TablesOK
<1> QED
  BY <1>1, <1>2 DEF Release

-----------------------------------------------------------------------------
\* The processes' own state; a call under way is a well-formed one, and a
\* process that works on an entry holds one.
Steps == {"idle", "read", "lock", "peek", "cas", "swap", "copy", "insert", "visit", "done"}
AnswerSet == [val : Proc \cup {Nil}, ok : BOOLEAN]

CallsOK == pc \in [Proc -> Steps] /\ req \in [Proc -> Asks \cup {NoRequest}]
           /\ res \in [Proc -> AnswerSet]
SlotsOK == ent \in [Proc -> Slot] /\ seen \in [Proc -> Pointer]
WalksOK == todo \in [Proc -> SUBSET Key] /\ snap \in [Proc -> Table]
WorkOK  == \A p \in Proc : /\ pc[p] # "idle" => req[p] \in Asks
                           /\ pc[p] \in {"peek", "cas", "swap"} => ent[p] \in Entry
ProcOK  == CallsOK /\ SlotsOK /\ WorkOK
PtrOK   == mu \in Proc \cup {Free} /\ ptr \in [Entry -> Pointer]
Good    == TablesOK /\ PtrOK /\ ProcOK /\ WalksOK

LEMMA GoodTypes == Good => TypeOK
BY DEF Good, TypeOK, TablesOK, PtrOK, ProcOK, CallsOK, SlotsOK, WalksOK, Steps, AnswerSet

LEMMA AnswerTypes ==
  ASSUME NEW p \in Proc, NEW v \in Pointer, seen \in [Proc -> Pointer]
  PROVE  /\ NoAnswer \in AnswerSet
         /\ [val |-> AsValue(v), ok |-> Live(v)] \in AnswerSet
         /\ [val |-> p, ok |-> FALSE] \in AnswerSet
         /\ AnswerOf(p, v) \in AnswerSet
         /\ SwappedAnswer(p) \in AnswerSet
<1>1. \A w \in Pointer : [val |-> AsValue(w), ok |-> Live(w)] \in AnswerSet
  BY DEF AsValue, Live, Pointer, AnswerSet
<1>2. NoAnswer \in AnswerSet /\ [val |-> p, ok |-> FALSE] \in AnswerSet
      /\ [val |-> Nil, ok |-> TRUE] \in AnswerSet
  BY DEF NoAnswer, AnswerSet
<1>3. AnswerOf(p, v) \in AnswerSet
  BY <1>1, <1>2 DEF AnswerOf
<1>4. seen[p] \in Pointer
  OBVIOUS
<1>5. SwappedAnswer(p) \in AnswerSet
  BY <1>1, <1>2, <1>4 DEF SwappedAnswer
<1> QED
  BY <1>1, <1>2, <1>3, <1>5

\* The ends of a step.
LEMMA AnswerType ==
  ASSUME ProcOK, NEW p \in Proc, NEW a \in AnswerSet, pc[p] # "idle", Answer(p, a)
  PROVE  ProcOK'
BY DEF ProcOK, CallsOK, SlotsOK, WorkOK, Answer, Slot, Pointer, Steps

LEMMA HoldType ==
  ASSUME ProcOK, NEW p \in Proc, NEW e \in Slot, NEW l \in Steps, pc[p] # "idle",
         Goto(p, l), Hold(p, e), l \in {"peek", "cas", "swap"} => e # NoEntry
  PROVE  ProcOK'
BY DEF ProcOK, CallsOK, SlotsOK, WorkOK, Goto, Hold, Slot

LEMMA GotoType ==
  ASSUME ProcOK, NEW p \in Proc, NEW l \in Steps \ {"peek", "cas", "swap"},
         pc[p] # "idle", Goto(p, l), UNCHANGED slot
  PROVE  ProcOK'
BY DEF ProcOK, CallsOK, SlotsOK, WorkOK, Goto, slot

LEMMA VisitsType ==
  ASSUME ProcOK, WalksOK, NEW p \in Proc, NEW t \in Table, pc[p] # "idle",
         StartVisits(p, t), UNCHANGED slot
  PROVE  ProcOK' /\ WalksOK'
<1>1. ProcOK'
  BY GotoType DEF StartVisits, Steps
<1>2. WalksOK'
  BY DEF WalksOK, StartVisits, Present
<1> QED
  BY <1>1, <1>2

-----------------------------------------------------------------------------
\* One lemma per action, or per pair of alike ones.
LEMMA SlotOfKey ==
  ASSUME TablesOK, ProcOK, NEW p \in Proc, pc[p] # "idle", req[p].kind # "Range"
  PROVE  /\ req[p].key \in Key
         /\ readM[req[p].key] \in Slot /\ dirtyM[req[p].key] \in Slot
<1>1. req[p].key \in Key
  BY DEF ProcOK, WorkOK, Asks, Request
<1> QED
  BY <1>1 DEF TablesOK, Table

LEMMA LookType == ASSUME Good, NEW p \in Proc, Look(p) PROVE Good'
<1>1. TablesOK' /\ PtrOK' /\ WalksOK'
  BY DEF Good, Look, TablesOK, PtrOK, WalksOK, tables, walk
<1>2. readM[req[p].key] \in Slot /\ pc[p] # "idle"
  BY SlotOfKey DEF Look, Good
<1>3. CASE readM[req[p].key] # NoEntry /\ Goto(p, "peek") /\ Hold(p, readM[req[p].key])
  BY <1>1, <1>2, <1>3, HoldType DEF Good, Steps
<1>4. CASE Goto(p, "lock") /\ UNCHANGED slot
  BY <1>1, <1>2, <1>4, GotoType DEF Good, Steps
<1>5. CASE Answer(p, NoAnswer)
  <2>1. NoAnswer \in AnswerSet
    BY DEF NoAnswer, AnswerSet
  <2> QED
    BY <1>1, <1>2, <1>5, <2>1, AnswerType DEF Good
<1> QED
  BY <1>3, <1>4, <1>5 DEF Look

LEMMA PeekType == ASSUME Good, NEW p \in Proc, Peek(p) PROVE Good'
<1> DEFINE v == ptr[ent[p]]
<1>1. v \in Pointer /\ pc[p] # "idle" /\ ent[p] \in Entry /\ seen \in [Proc -> Pointer]
  BY DEF Peek, Good, ProcOK, WorkOK, SlotsOK, PtrOK
<1>2. WalksOK' /\ ptr' \in [Entry -> Pointer]
  BY DEF Good, Peek, PtrOK, WalksOK, walk
<1>3. TablesOK' /\ mu' \in Proc \cup {Free}
  BY ReleaseType DEF Peek, Good, TablesOK, PtrOK, tables
<1>4. CASE Answer(p, AnswerOf(p, v))
  <2>1. AnswerOf(p, v) \in AnswerSet
    BY <1>1, AnswerTypes
  <2> QED
    BY <1>1, <1>2, <1>3, <1>4, <2>1, AnswerType DEF Good, PtrOK
<1>5. CASE Goto(p, "lock") /\ Hold(p, NoEntry)
  <2>1. ProcOK'
    BY <1>1, <1>5, HoldType DEF Good, Steps, Slot
  <2> QED
    BY <1>2, <1>3, <2>1 DEF Good, PtrOK
<1>6. CASE Goto(p, "cas") /\ seen' = [seen EXCEPT ![p] = v] /\ UNCHANGED ent
  <2>1. ProcOK'
    BY <1>1, <1>6 DEF Good, ProcOK, CallsOK, SlotsOK, WorkOK, Goto, Steps
  <2> QED
    BY <1>2, <1>3, <2>1 DEF Good, PtrOK
<1> QED
  BY <1>4, <1>5, <1>6 DEF Peek

LEMMA CasType == ASSUME Good, NEW p \in Proc, Cas(p) PROVE Good'
<1>1. pc[p] # "idle" /\ seen \in [Proc -> Pointer] /\ pc[p] = "cas" /\ ent[p] \in Entry
  BY DEF Cas, Good, ProcOK, WorkOK, SlotsOK
<1>2. WalksOK' /\ ptr' \in [Entry -> Pointer]
  BY DEF Good, Cas, Swapped, Pointer, PtrOK, WalksOK, walk
<1>3. TablesOK' /\ mu' \in Proc \cup {Free}
  BY ReleaseType DEF Cas, Good, TablesOK, PtrOK, tables
<1>4. CASE Answer(p, SwappedAnswer(p))
  <2>1. SwappedAnswer(p) \in AnswerSet
    BY <1>1, AnswerTypes DEF Pointer
  <2> QED
    BY <1>1, <1>2, <1>3, <1>4, <2>1, AnswerType DEF Good, PtrOK
<1>5. CASE Goto(p, "peek") /\ seen' = [seen EXCEPT ![p] = Nil] /\ UNCHANGED ent
  <2>1. ProcOK'
    BY <1>1, <1>5 DEF Good, ProcOK, CallsOK, SlotsOK, WorkOK, Goto, Steps, Pointer
  <2> QED
    BY <1>2, <1>3, <2>1 DEF Good, PtrOK
<1> QED
  BY <1>4, <1>5 DEF Cas

LEMMA NoAnswerType == NoAnswer \in AnswerSet
BY DEF NoAnswer, AnswerSet

LEMMA LookLockedType == ASSUME Good, NEW p \in Proc, LookLocked(p) PROVE Good'
<1> DEFINE k == req[p].key
           taken == IF req[p].kind = "LoadAndDelete"
                    THEN [dirtyM EXCEPT ![k] = NoEntry] ELSE dirtyM
<1>1. readM[k] \in Slot /\ dirtyM[k] \in Slot /\ pc[p] # "idle"
  BY SlotOfKey DEF LookLocked, Good
<1>2. taken \in Table
  BY DEF Good, TablesOK, Table, Slot
<1>3. PtrOK' /\ WalksOK'
  BY DEF LookLocked, Good, PtrOK, WalksOK, walk
<1>4. CASE readM[k] # NoEntry /\ Goto(p, "peek") /\ Hold(p, readM[k]) /\ UNCHANGED tables
  <2>1. ProcOK'
    BY <1>1, <1>4, HoldType DEF Good, Steps
  <2> QED
    BY <1>3, <1>4, <2>1 DEF Good, TablesOK, tables
<1>5. CASE Answer(p, NoAnswer) /\ UNCHANGED tables
  <2>1. ProcOK'
    BY <1>1, <1>5, AnswerType, NoAnswerType DEF Good
  <2> QED
    BY <1>3, <1>5, <2>1 DEF Good, TablesOK, tables
<1>6. CASE /\ Miss(taken)
           /\ IF dirtyM[k] # NoEntry THEN Goto(p, "peek") /\ Hold(p, dirtyM[k])
                                     ELSE Answer(p, NoAnswer)
  <2>1. TablesOK'
    BY <1>2, <1>6, MissType DEF Good
  <2>2. CASE dirtyM[k] # NoEntry
    <3>1. ProcOK'
      BY <1>1, <1>6, <2>2, HoldType DEF Good, Steps
    <3> QED
      BY <1>3, <2>1, <3>1 DEF Good
  <2>3. CASE dirtyM[k] = NoEntry
    <3>1. ProcOK'
      BY <1>1, <1>6, <2>3, AnswerType, NoAnswerType DEF Good
    <3> QED
      BY <1>3, <2>1, <3>1 DEF Good
  <2> QED
    BY <2>2, <2>3
<1> QED
  BY <1>4, <1>5, <1>6 DEF LookLocked

LEMMA CompareLockedType == ASSUME Good, NEW p \in Proc, CompareLocked(p) PROVE Good'
<1> DEFINE k == req[p].key
           found == IF readM[k] # NoEntry THEN readM[k] ELSE dirtyM[k]
<1>1. found \in Slot /\ pc[p] # "idle"
  BY SlotOfKey DEF CompareLocked, Good
<1>2. TablesOK' /\ PtrOK' /\ WalksOK'
  BY DEF CompareLocked, Good, TablesOK, PtrOK, WalksOK, tables, walk
<1>3. CASE found # NoEntry /\ Goto(p, "peek") /\ Hold(p, found)
  BY <1>1, <1>2, <1>3, HoldType DEF Good, Steps
<1>4. CASE Answer(p, NoAnswer)
  BY <1>1, <1>2, <1>4, AnswerType, NoAnswerType DEF Good
<1> QED
  BY <1>3, <1>4 DEF CompareLocked

LEMMA FoundLockedType == ASSUME Good, NEW p \in Proc, FoundLocked(p) PROVE Good'
<1> DEFINE k == req[p].key
           l == IF req[p].kind = "Swap" THEN "swap" ELSE "peek"
<1>1. readM[k] \in Slot /\ dirtyM[k] \in Slot /\ pc[p] # "idle" /\ l \in Steps
  BY SlotOfKey DEF FoundLocked, Good, Steps
<1>2. TablesOK' /\ PtrOK' /\ WalksOK'
  BY <1>1 DEF FoundLocked, Unexpunge, Good, TablesOK, PtrOK, WalksOK, walk, Table, Pointer
<1>3. CASE readM[k] # NoEntry /\ Hold(p, readM[k])
  <2>1. Goto(p, l)
    BY DEF FoundLocked
  <2> QED
    BY <1>1, <1>2, <1>3, <2>1, HoldType DEF Good
<1>4. CASE dirtyM[k] # NoEntry /\ Hold(p, dirtyM[k])
  <2>1. Goto(p, l)
    BY DEF FoundLocked
  <2> QED
    BY <1>1, <1>2, <1>4, <2>1, HoldType DEF Good
<1> QED
  BY <1>3, <1>4 DEF FoundLocked

LEMMA AbsentLockedType == ASSUME Good, NEW p \in Proc, AbsentLocked(p) PROVE Good'
<1>1. pc[p] # "idle" /\ UNCHANGED slot
  BY DEF AbsentLocked
<1>2. TablesOK' /\ PtrOK' /\ WalksOK'
  BY DEF AbsentLocked, Good, TablesOK, PtrOK, WalksOK, Present
<1>3. CASE Goto(p, "copy")
  BY <1>1, <1>2, <1>3, GotoType DEF Good, Steps
<1>4. CASE Goto(p, "insert")
  BY <1>1, <1>2, <1>4, GotoType DEF Good, Steps
<1> QED
  BY <1>3, <1>4 DEF AbsentLocked

LEMMA CopyOneType == ASSUME Good, NEW p \in Proc, CopyOne(p) PROVE Good'
<1> PICK k \in todo[p] :
      /\ IF Live(ptr[readM[k]])
         THEN dirtyM' = [dirtyM EXCEPT ![k] = readM[k]] /\ UNCHANGED ptr
         ELSE ptr' = [ptr EXCEPT ![readM[k]] = Expunged] /\ UNCHANGED dirtyM
      /\ todo' = [todo EXCEPT ![p] = @ \ {k}]
      /\ Goto(p, IF todo[p] = {k} THEN "insert" ELSE "copy")
  BY DEF CopyOne
<1>1. pc[p] # "idle" /\ UNCHANGED slot
  BY DEF CopyOne
<1>2. k \in Key /\ readM[k] \in Slot
  BY DEF Good, WalksOK, TablesOK, Table
<1>3. TablesOK' /\ PtrOK' /\ WalksOK'
  BY <1>2 DEF CopyOne, Good, TablesOK, PtrOK, WalksOK, Table, Pointer
<1>4. CASE Goto(p, "copy")
  BY <1>1, <1>3, <1>4, GotoType DEF Good, Steps
<1>5. CASE Goto(p, "insert")
  BY <1>1, <1>3, <1>5, GotoType DEF Good, Steps
<1> QED
  BY <1>4, <1>5

LEMMA InsertType == ASSUME Good, NEW p \in Proc, Insert(p) PROVE Good'
<1> DEFINE e == CHOOSE f \in Unreachable : TRUE
           a == IF req[p].kind = "Swap" THEN NoAnswer ELSE [val |-> p, ok |-> FALSE]
<1>1. pc[p] # "idle" /\ Answer(p, a)
  BY DEF Insert
<1>2. e \in Entry
  BY DEF Insert, Unreachable
<1>3. a \in AnswerSet
  BY NoAnswerType DEF AnswerSet
<1> HIDE DEF e, a
<1>4. /\ ptr' = [ptr EXCEPT ![e] = p] /\ dirtyM' = [dirtyM EXCEPT ![req[p].key] = e]
      /\ amended' = TRUE /\ mu' = Free /\ UNCHANGED <<readM, hasDirty, misses, walk>>
  BY DEF Insert, e
<1>5. TablesOK' /\ PtrOK' /\ WalksOK'
  BY <1>2, <1>4 DEF Good, TablesOK, PtrOK, WalksOK, Table, Slot, Pointer, walk
<1> QED
  BY <1>1, <1>3, <1>5, AnswerType DEF Good

LEMMA SwapLockedType == ASSUME Good, NEW p \in Proc, SwapLocked(p) PROVE Good'
<1> DEFINE v == ptr[ent[p]]
           a == [val |-> AsValue(v), ok |-> Live(v)]
<1>1. pc[p] # "idle" /\ Answer(p, a) /\ v \in Pointer
  BY DEF SwapLocked, Good, ProcOK, WorkOK, PtrOK
<1>2. a \in AnswerSet
  BY <1>1, AnswerTypes DEF Good, ProcOK, SlotsOK
<1>3. TablesOK' /\ PtrOK' /\ WalksOK'
  BY DEF SwapLocked, Good, TablesOK, PtrOK, WalksOK, Pointer, tables, walk
<1> QED
  BY <1>1, <1>2, <1>3, AnswerType DEF Good

LEMMA RangeLookType == ASSUME Good, NEW p \in Proc, RangeLook(p) PROVE Good'
<1>1. pc[p] # "idle" /\ TablesOK' /\ PtrOK' /\ UNCHANGED slot
  BY DEF RangeLook, Good, TablesOK, PtrOK, tables
<1>2. CASE Goto(p, "lock") /\ UNCHANGED walk
  BY <1>1, <1>2, GotoType DEF Good, WalksOK, walk, Steps
<1>3. CASE StartVisits(p, readM)
  BY <1>1, <1>3, VisitsType DEF Good, TablesOK
<1> QED
  BY <1>2, <1>3 DEF RangeLook

LEMMA RangeLockedType == ASSUME Good, NEW p \in Proc, RangeLocked(p) PROVE Good'
<1>1. pc[p] # "idle" /\ PtrOK' /\ UNCHANGED slot
  BY DEF RangeLocked, Good, PtrOK
<1>2. CASE Promote(dirtyM) /\ StartVisits(p, dirtyM)
  <2>1. TablesOK'
    BY <1>2, PromoteType DEF Good, TablesOK
  <2> QED
    BY <1>1, <1>2, <2>1, VisitsType DEF Good, TablesOK
<1>3. CASE StartVisits(p, readM) /\ UNCHANGED tables
  <2>1. TablesOK'
    BY <1>3 DEF Good, TablesOK, tables
  <2> QED
    BY <1>1, <1>3, <2>1, VisitsType DEF Good, TablesOK
<1> QED
  BY <1>2, <1>3 DEF RangeLocked

LEMMA VisitType == ASSUME Good, NEW p \in Proc, Visit(p) PROVE Good'
<1>1. TablesOK' /\ PtrOK' /\ ProcOK'
  BY DEF Visit, Good, TablesOK, PtrOK, ProcOK, CallsOK, SlotsOK, WorkOK, tables, slot
<1>2. WalksOK'
  BY DEF Visit, Good, WalksOK
<1> QED
  BY <1>1, <1>2 DEF Good

LEMMA VisitsDoneType == ASSUME Good, NEW p \in Proc, VisitsDone(p) PROVE Good'
<1>1. TablesOK' /\ PtrOK' /\ WalksOK' /\ pc[p] # "idle"
  BY EmptyTableType DEF VisitsDone, Good, TablesOK, PtrOK, WalksOK, tables
<1> QED
  BY <1>1, AnswerType, NoAnswerType DEF VisitsDone, Good

LEMMA StepType == ASSUME Good, NEW p \in Proc, Step(p) PROVE Good'
BY LookType, PeekType, CasType, LookLockedType, CompareLockedType, FoundLockedType,
   AbsentLockedType, CopyOneType, InsertType, SwapLockedType, RangeLookType,
   RangeLockedType, VisitType, VisitsDoneType DEF Step

LEMMA InitGood == ASSUME Init PROVE Good
<1>1. TablesOK
  <2>1. amended \in BOOLEAN /\ hasDirty \in BOOLEAN
    BY Zenon DEF Init
  <2>2. misses \in 0..Cardinality(Key)
    BY KeyCount DEF Init
  <2> QED
    BY <2>1, <2>2, EmptyTableType DEF Init, TablesOK
<1>2. PtrOK /\ WalksOK
  BY EmptyTableType DEF Init, PtrOK, WalksOK, Pointer
<1>3. ProcOK
  BY NoAnswerType DEF Init, ProcOK, CallsOK, SlotsOK, WorkOK, Pointer, Slot, Steps
<1> QED
  BY <1>1, <1>2, <1>3 DEF Good

LEMMA NextGood == ASSUME Good, [Next]_vars PROVE Good'
<1>1. CASE UNCHANGED vars
  BY <1>1 DEF vars, Good, TablesOK, PtrOK, ProcOK, CallsOK, SlotsOK, WorkOK, WalksOK,
              tables, slot, walk
<1>2. ASSUME NEW p \in Proc, NEW r \in Asks, Call(p, r) PROVE Good'
  BY <1>2 DEF Call, Good, TablesOK, PtrOK, ProcOK, CallsOK, SlotsOK, WorkOK, WalksOK,
              Steps, tables, slot, walk
<1>3. ASSUME NEW p \in Proc, Return(p) PROVE Good'
  BY <1>3, NoAnswerType DEF Return, Good, TablesOK, PtrOK, ProcOK, CallsOK, SlotsOK,
              WorkOK, WalksOK, Steps, tables, slot, walk
<1>4. ASSUME NEW p \in Proc, Step(p) PROVE Good'
  BY <1>4, StepType
<1> QED
  BY <1>1, <1>2, <1>3, <1>4 DEF Next

\* TypeOK of SyncMap, for the whole of sync map's operations; the inductive
\* invariant adds that a call under way is well formed and that a process
\* about to touch an entry holds one.
THEOREM TypeCorrect == Spec => []TypeOK
<1>1. Init => Good
  BY InitGood
<1>2. Good /\ [Next]_vars => Good'
  BY NextGood
<1>3. Good => TypeOK
  BY GoodTypes
<1> QED
  BY <1>1, <1>2, <1>3, PTL DEF Spec

-----------------------------------------------------------------------------
\* EntryRule is not inductive alone.  Who holds mu is where the steps of the
\* critical sections are; the holder's loop over the read table has not
\* copied what it still has to; and no pointer loaded for a compare-and-swap
\* is the expunged mark.
MuRule(p) ==
  /\ pc[p] \in {"copy", "insert", "swap"} => mu = p
  /\ mu = p => pc[p] \in {"peek", "cas", "copy", "insert", "swap"}
  /\ mu = p => req[p].kind # "Swap" \/ pc[p] \notin {"peek", "cas"}
  /\ pc[p] \in {"peek", "cas"} => req[p].kind # "Range"
  /\ pc[p] = "cas" => seen[p] # Expunged
  /\ pc[p] = "swap" => ptr[ent[p]] # Expunged
  /\ pc[p] \in {"copy", "insert"} => hasDirty /\ readM[req[p].key] = NoEntry
  /\ pc[p] = "copy" => \A k \in todo[p] : readM[k] # NoEntry /\ dirtyM[k] = NoEntry

\* An entry belongs to one key, in both tables.
Distinct ==
  \A j, k \in Key : j # k =>
    /\ readM[j] # NoEntry => readM[j] # readM[k] /\ readM[j] # dirtyM[k]
    /\ dirtyM[j] # NoEntry => dirtyM[j] # dirtyM[k]

\* No dirty table: nothing in it, and the read table is complete.
NoDirty == ~hasDirty => ~amended /\ \A k \in Key : dirtyM[k] = NoEntry

TablesRule == Distinct /\ NoDirty /\ EntryRule
IInv == Good /\ TablesRule /\ \A p \in Proc : MuRule(p)

-----------------------------------------------------------------------------
\* What most steps keep: which entries are expunged, and the copies to do.
PtrSame  == \A e \in Entry : ptr'[e] = Expunged <=> ptr[e] = Expunged
CopySame == \A k \in Key : Copying(k) => Copying(k)'

\* Only p's part of the processes' state changes, and mu is p's to change.
OthersSame(p) ==
  \A q \in Proc \ {p} : /\ pc'[q] = pc[q] /\ req'[q] = req[q]
                        /\ ent'[q] = ent[q] /\ seen'[q] = seen[q]
                        /\ todo'[q] = todo[q]
OnlyBy(p) == \/ mu' = mu /\ tables' = tables /\ PtrSame
             \/ mu \in {Free, p} /\ mu' \in {Free, p}

LEMMA OthersKept ==
  ASSUME Good, NEW p \in Proc, NEW q \in Proc, q # p, MuRule(q), OthersSame(p), OnlyBy(p)
  PROVE  MuRule(q)'
<1>1. /\ pc'[q] = pc[q] /\ req'[q] = req[q] /\ ent'[q] = ent[q] /\ seen'[q] = seen[q]
      /\ todo'[q] = todo[q]
  BY DEF OthersSame
<1>2. CASE mu' = mu /\ tables' = tables /\ PtrSame
  <2>1. pc[q] = "swap" => ptr'[ent[q]] # Expunged
    BY <1>2 DEF PtrSame, MuRule, Good, ProcOK, WorkOK
  <2> QED
    BY <1>1, <1>2, <2>1 DEF MuRule, tables
<1>3. CASE mu \in {Free, p} /\ mu' \in {Free, p}
  BY <1>1, <1>3, SyncMapAssumption DEF MuRule
<1> QED
  BY <1>2, <1>3 DEF OnlyBy

LEMMA CopiesKept ==
  ASSUME NEW p \in Proc, pc[p] # "copy", OthersSame(p)
  PROVE  CopySame
<1> SUFFICES ASSUME NEW k \in Key, NEW q \in Proc, pc[q] = "copy", k \in todo[q]
             PROVE  Copying(k)'
  BY DEF CopySame, Copying
<1>1. q # p
  OBVIOUS
<1> QED
  BY <1>1 DEF OthersSame, Copying

\* Steps that leave the tables alone, and no entry newly expunged or live.
LEMMA RuleKept ==
  ASSUME Good, TablesRule, tables' = tables, PtrSame, CopySame
  PROVE  TablesRule'
<1>1. Distinct' /\ NoDirty'
  BY DEF TablesRule, Distinct, NoDirty, tables
<1>2. \A k \in Key : readM[k] \in Entry \cup {NoEntry} /\ dirtyM[k] \in Entry \cup {NoEntry}
  BY DEF Good, TablesOK, Table, Slot
<1>3. EntryRule'
  BY <1>2 DEF TablesRule, EntryRule, tables, PtrSame, CopySame
<1> QED
  BY <1>1, <1>3 DEF TablesRule

\* The dirty table, with keys that are not in the read table perhaps removed,
\* replaces it: no stored value is lost.
LEMMA PromoteRule ==
  ASSUME Good, TablesRule, NEW d \in Table, Promote(d), PtrSame,
         \A k \in Key : d[k] \in {dirtyM[k], NoEntry}
  PROVE  TablesRule'
<1>1. readM' = d /\ amended' = FALSE /\ dirtyM' = EmptyTable /\ hasDirty' = FALSE
  BY DEF Promote
<1>2. \A k \in Key : dirtyM'[k] = NoEntry
  BY <1>1 DEF EmptyTable
<1>3. Distinct'
  BY <1>1, <1>2 DEF TablesRule, Distinct
<1>4. NoDirty'
  BY <1>1, <1>2 DEF NoDirty
<1>5. ASSUME NEW k \in Key, d[k] # NoEntry PROVE ptr'[d[k]] # Expunged
  <2>1. d[k] = dirtyM[k] /\ d[k] \in Entry
    BY <1>5 DEF Table, Slot
  <2> QED
    BY <1>5, <2>1 DEF TablesRule, EntryRule, PtrSame
<1>6. EntryRule'
  BY <1>1, <1>2, <1>5 DEF EntryRule
<1> QED
  BY <1>3, <1>4, <1>6 DEF TablesRule

LEMMA MissRule ==
  ASSUME Good, TablesRule, NEW d \in Table, Miss(d), PtrSame, CopySame,
         \A k \in Key : d[k] = dirtyM[k] \/ (d[k] = NoEntry /\ readM[k] = NoEntry)
  PROVE  TablesRule'
<1>1. CASE Promote(d)
  BY <1>1, PromoteRule
<1>2. CASE dirtyM' = d /\ UNCHANGED <<readM, amended, hasDirty>>
  <2>1. Distinct'
    BY <1>2 DEF TablesRule, Distinct
  <2>2. NoDirty'
    BY <1>2 DEF TablesRule, NoDirty
  <2>3. \A k \in Key : readM[k] \in Entry \cup {NoEntry} /\ dirtyM[k] \in Entry \cup {NoEntry}
    BY DEF Good, TablesOK, Table, Slot
  <2>4. EntryRule'
    BY <1>2, <2>3 DEF TablesRule, EntryRule, PtrSame, CopySame
  <2> QED
    BY <2>1, <2>2, <2>4 DEF TablesRule
<1> QED
  BY <1>1, <1>2 DEF Miss

LEMMA ReleaseRule ==
  ASSUME Good, TablesRule, NEW p \in Proc, Release(p), PtrSame, CopySame
  PROVE  TablesRule' /\ OnlyBy(p)
<1>1. dirtyM \in Table
  BY DEF Good, TablesOK
<1>2. CASE tables' = tables
  BY <1>2, RuleKept DEF Release, OnlyBy
<1>3. CASE mu = p /\ mu' = Free /\ Miss(dirtyM)
  <2>1. TablesRule'
    BY <1>1, <1>3, MissRule
  <2> QED
    BY <1>3, <2>1 DEF OnlyBy
<1>4. tables' = tables \/ (mu = p /\ mu' = Free /\ Miss(dirtyM))
  <2>1. CASE mu = p
    BY <2>1 DEF Release
  <2>2. CASE mu # p
    BY <2>2 DEF Release
  <2> QED
    BY <2>1, <2>2
<1> QED
  BY <1>2, <1>3, <1>4

-----------------------------------------------------------------------------
\* The steps, in the order of Step.
Rule(p) == TablesRule /\ \A q \in Proc : MuRule(q)

\* A step of p that leaves the tables, the pointers and mu alone.
LEMMA QuietRule ==
  ASSUME Good, NEW p \in Proc, Rule(p), OthersSame(p),
         tables' = tables, ptr' = ptr, mu' = mu, pc[p] # "copy", MuRule(p)'
  PROVE  Rule(p)'
<1>1. PtrSame /\ CopySame /\ OnlyBy(p)
  BY CopiesKept DEF PtrSame, OnlyBy
<1>2. TablesRule'
  BY <1>1, RuleKept DEF Rule
<1>3. \A q \in Proc \ {p} : MuRule(q)'
  BY <1>1, OthersKept DEF Rule
<1> QED
  BY <1>2, <1>3 DEF Rule

\* A step of p that ends or interrupts its call: it holds mu no longer.
LEMMA AnswerMu ==
  ASSUME Good, NEW p \in Proc, mu' # p,
         pc'[p] \in {"idle", "read", "lock", "peek", "visit", "done"},
         pc'[p] = "peek" => req'[p].kind # "Range"
  PROVE  MuRule(p)'
BY DEF MuRule

LEMMA LookRule == ASSUME Good, NEW p \in Proc, Rule(p), Look(p) PROVE Rule(p)'
<1>1. OthersSame(p) /\ tables' = tables /\ ptr' = ptr /\ mu' = mu /\ pc[p] = "read"
  BY DEF Look, Goto, Hold, Answer, OthersSame, slot, walk, Good, ProcOK, CallsOK, SlotsOK
<1>2. mu # p
  BY <1>1 DEF Rule, MuRule
<1>3. pc'[p] \in {"lock", "peek", "done"} /\ req'[p].kind # "Range"
  BY DEF Look, Goto, Answer, Good, ProcOK, CallsOK
<1>4. MuRule(p)'
  BY <1>1, <1>2, <1>3, AnswerMu
<1> QED
  BY <1>1, <1>4, QuietRule

LEMMA PeekRule == ASSUME Good, NEW p \in Proc, Rule(p), Peek(p) PROVE Rule(p)'
<1> DEFINE v == ptr[ent[p]]
<1>1. OthersSame(p) /\ ptr' = ptr /\ pc[p] = "peek" /\ PtrSame
  BY DEF Peek, Goto, Hold, Answer, OthersSame, PtrSame, walk, Good, ProcOK, CallsOK, SlotsOK
<1>2. CopySame
  BY <1>1, CopiesKept
<1>3. CASE Goto(p, "lock") /\ mu # p /\ UNCHANGED <<mu, tables>>
  <2>1. MuRule(p)'
    BY <1>3, AnswerMu DEF Goto, Good, ProcOK, CallsOK
  <2> QED
    BY <1>1, <1>3, <2>1, QuietRule
<1>4. CASE Answer(p, AnswerOf(p, v)) /\ Release(p)
  <2>1. TablesRule' /\ OnlyBy(p)
    BY <1>1, <1>2, <1>4, ReleaseRule DEF Rule
  <2>2. mu' # p
    BY <1>4, SyncMapAssumption DEF Release
  <2>3. MuRule(p)'
    BY <1>4, <2>2, AnswerMu DEF Answer, Good, ProcOK, CallsOK
  <2>4. \A q \in Proc \ {p} : MuRule(q)'
    BY <1>1, <2>1, OthersKept DEF Rule
  <2> QED
    BY <2>1, <2>3, <2>4 DEF Rule
<1>5. CASE /\ ~(v = Expunged /\ req[p].kind \in Writers /\ mu # p)
           /\ ~Decided(p, v)
           /\ Goto(p, "cas") /\ seen' = [seen EXCEPT ![p] = v]
           /\ UNCHANGED <<ent, mu, tables>>
  <2>1. v # Expunged
    <3> SUFFICES ASSUME v = Expunged PROVE FALSE
      OBVIOUS
    <3>1. req[p] \in Asks
      BY <1>1 DEF Good, ProcOK, WorkOK
    <3>2. req[p].kind \in AllKinds
      BY <3>1, SyncMapAssumption DEF Asks, Request
    <3>3. req[p].kind \in Compares => req[p].old # Expunged
      BY <3>1, ComparedLive, SyncMapAssumption
    <3>4. ~Live(v)
      BY DEF Live
    <3>5. req[p].kind \in {"Swap", "LoadOrStore"}
      BY <1>1, <1>5, <3>2, <3>3, <3>4 DEF Decided, Rule, MuRule
    <3> QED
      BY <1>1, <1>5, <3>5, SyncMapAssumption DEF Decided, Rule, MuRule
  <2>2. pc'[p] = "cas" /\ seen'[p] = v /\ req' = req
    BY <1>5 DEF Goto, Good, ProcOK, CallsOK, SlotsOK
  <2>3. MuRule(p)'
    BY <1>1, <1>5, <2>1, <2>2 DEF Rule, MuRule
  <2> QED
    BY <1>1, <1>5, <2>3, QuietRule
<1> QED
  BY <1>3, <1>4, <1>5 DEF Peek

LEMMA CasRule == ASSUME Good, NEW p \in Proc, Rule(p), Cas(p) PROVE Rule(p)'
<1>1. OthersSame(p) /\ pc[p] = "cas" /\ ent[p] \in Entry
  BY DEF Cas, Goto, Answer, OthersSame, walk, Good, ProcOK, CallsOK, SlotsOK, WorkOK
<1>2. CopySame
  BY <1>1, CopiesKept
<1>3. CASE /\ ptr[ent[p]] = seen[p]
           /\ ptr' = [ptr EXCEPT ![ent[p]] = Swapped(p)]
           /\ Answer(p, SwappedAnswer(p)) /\ Release(p)
  <2>1. seen[p] # Expunged /\ Swapped(p) # Expunged
    BY <1>1, SyncMapAssumption DEF Rule, MuRule, Swapped
  <2>2. PtrSame
    BY <1>1, <1>3, <2>1 DEF PtrSame, Good, PtrOK
  <2>3. TablesRule' /\ OnlyBy(p)
    BY <1>2, <1>3, <2>2, ReleaseRule DEF Rule
  <2>4. mu' # p
    BY <1>3, SyncMapAssumption DEF Release
  <2>5. MuRule(p)'
    BY <1>3, <2>4, AnswerMu DEF Answer, Good, ProcOK, CallsOK
  <2>6. \A q \in Proc \ {p} : MuRule(q)'
    BY <1>1, <2>3, OthersKept DEF Rule
  <2> QED
    BY <2>3, <2>5, <2>6 DEF Rule
<1>4. CASE Goto(p, "peek") /\ UNCHANGED <<ptr, ent, mu, tables>>
  <2>1. pc'[p] = "peek" /\ req' = req
    BY <1>4 DEF Goto, Good, ProcOK, CallsOK
  <2>2. MuRule(p)'
    BY <1>1, <1>4, <2>1 DEF Rule, MuRule
  <2> QED
    BY <1>1, <1>4, <2>2, QuietRule
<1> QED
  BY <1>3, <1>4 DEF Cas

LEMMA LookLockedRule == ASSUME Good, NEW p \in Proc, Rule(p), LookLocked(p) PROVE Rule(p)'
<1> DEFINE k == req[p].key
           taken == IF req[p].kind = "LoadAndDelete"
                    THEN [dirtyM EXCEPT ![k] = NoEntry] ELSE dirtyM
<1>1. OthersSame(p) /\ pc[p] = "lock" /\ ptr' = ptr /\ mu = Free /\ mu' = mu /\ k \in Key
  BY SlotOfKey DEF LookLocked, Goto, Hold, Answer, OthersSame, walk, Good, ProcOK,
                   CallsOK, SlotsOK
<1>2. PtrSame /\ CopySame /\ OnlyBy(p)
  BY <1>1, CopiesKept DEF PtrSame, OnlyBy
<1>3. pc'[p] \in {"peek", "done"} /\ req'[p].kind # "Range"
  BY DEF LookLocked, Goto, Answer, Good, ProcOK, CallsOK
<1>4. MuRule(p)'
  BY <1>1, <1>3, AnswerMu, SyncMapAssumption
<1>5. \A q \in Proc \ {p} : MuRule(q)'
  BY <1>1, <1>2, OthersKept DEF Rule
<1>6. TablesRule'
  <2>1. CASE UNCHANGED tables
    BY <1>2, <2>1, RuleKept DEF Rule
  <2>2. CASE readM[k] = NoEntry /\ Miss(taken)
    <3>1. taken \in Table
      BY DEF Good, TablesOK, Table, Slot
    <3>2. \A j \in Key : taken[j] = dirtyM[j] \/ (taken[j] = NoEntry /\ readM[j] = NoEntry)
      BY <2>2 DEF Good, TablesOK, Table
    <3> HIDE DEF taken
    <3> QED
      BY <1>2, <2>2, <3>1, <3>2, MissRule DEF Rule
  <2> QED
    BY <2>1, <2>2 DEF LookLocked
<1> QED
  BY <1>4, <1>5, <1>6 DEF Rule

LEMMA CompareLockedRule ==
  ASSUME Good, NEW p \in Proc, Rule(p), CompareLocked(p) PROVE Rule(p)'
<1>1. /\ OthersSame(p) /\ tables' = tables /\ ptr' = ptr /\ pc[p] = "lock"
      /\ mu = Free /\ req' = req /\ req[p].kind = "CompareAndSwap"
  BY DEF CompareLocked, Goto, Hold, Answer, OthersSame, walk, Good, ProcOK, CallsOK, SlotsOK
<1>2. (mu' = p /\ pc'[p] = "peek") \/ (mu' = Free /\ pc'[p] = "done")
  BY <1>1 DEF CompareLocked, Goto, Answer, Good, ProcOK, CallsOK
<1>3. PtrSame /\ CopySame /\ OnlyBy(p)
  BY <1>1, <1>2, CopiesKept DEF PtrSame, OnlyBy
<1>4. MuRule(p)'
  BY <1>1, <1>2, SyncMapAssumption DEF MuRule
<1>5. \A q \in Proc \ {p} : MuRule(q)'
  BY <1>1, <1>3, OthersKept DEF Rule
<1>6. TablesRule'
  BY <1>1, <1>3, RuleKept DEF Rule
<1> QED
  BY <1>4, <1>5, <1>6 DEF Rule

\* An expunged entry goes back to the dirty table, which EntryRule says is
\* there.
LEMMA UnexpungeRule ==
  ASSUME Good, TablesRule, NEW k \in Key, readM[k] # NoEntry, Unexpunge(readM[k], k),
         UNCHANGED <<readM, amended, hasDirty>>, CopySame
  PROVE  TablesRule' /\ ptr'[readM[k]] # Expunged
<1> DEFINE e == readM[k]
<1>1. CASE ptr[e] # Expunged
  <2>1. UNCHANGED <<ptr, dirtyM>>
    BY <1>1 DEF Unexpunge
  <2> QED
    BY <1>1, <2>1 DEF TablesRule, Distinct, NoDirty, EntryRule, CopySame
<1>2. CASE ptr[e] = Expunged
  <2>1. ptr' = [ptr EXCEPT ![e] = Nil] /\ dirtyM' = [dirtyM EXCEPT ![k] = e]
    BY <1>2 DEF Unexpunge
  <2>2. e \in Entry /\ Nil # Expunged
    BY SyncMapAssumption DEF Good, TablesOK, Table, Slot
  <2>3. ptr'[e] = Nil /\ \A f \in Entry \ {e} : ptr'[f] = ptr[f]
    BY <2>1, <2>2 DEF Good, PtrOK
  <2>4. dirtyM'[k] = e /\ \A j \in Key \ {k} : dirtyM'[j] = dirtyM[j]
    BY <2>1 DEF Good, TablesOK, Table
  <2>5. hasDirty
    BY <1>2 DEF TablesRule, EntryRule
  <2>6. Distinct'
    BY <2>4 DEF TablesRule, Distinct
  <2>7. NoDirty'
    BY <2>5 DEF NoDirty
  <2>8. \A j \in Key : readM[j] \in Entry \cup {NoEntry} /\ dirtyM[j] \in Entry \cup {NoEntry}
    BY DEF Good, TablesOK, Table, Slot
  <2>9. ASSUME NEW j \in Key, j # k
        PROVE  /\ readM'[j] = readM[j] /\ dirtyM'[j] = dirtyM[j]
               /\ readM[j] # NoEntry => ptr'[readM[j]] = ptr[readM[j]]
               /\ dirtyM[j] # NoEntry => ptr'[dirtyM[j]] = ptr[dirtyM[j]]
    <3>1. readM[j] # e /\ dirtyM[j] # e
      BY <2>9 DEF TablesRule, Distinct
    <3> QED
      BY <2>3, <2>4, <2>8, <2>9, <3>1
  <2>10. EntryRule'
    <3> HIDE DEF e
    <3> SUFFICES ASSUME NEW j \in Key
                 PROVE  /\ readM'[j] # NoEntry =>
                             IF ptr'[readM'[j]] = Expunged
                             THEN hasDirty' /\ dirtyM'[j] = NoEntry
                             ELSE hasDirty' => dirtyM'[j] = readM'[j] \/ Copying(j)'
                        /\ dirtyM'[j] # NoEntry => ptr'[dirtyM'[j]] # Expunged
      BY DEF EntryRule
    <3>1. CASE j = k
      BY <2>2, <2>3, <2>4, <3>1 DEF e
    <3>2. CASE j # k
      BY <2>9, <3>2 DEF TablesRule, EntryRule, CopySame
    <3> QED
      BY <3>1, <3>2
  <2> QED
    BY <2>2, <2>3, <2>6, <2>7, <2>10 DEF TablesRule
<1> QED
  BY <1>1, <1>2

LEMMA FoundLockedRule ==
  ASSUME Good, NEW p \in Proc, Rule(p), FoundLocked(p) PROVE Rule(p)'
<1> DEFINE k == req[p].key
           l == IF req[p].kind = "Swap" THEN "swap" ELSE "peek"
<1>1. /\ OthersSame(p) /\ pc[p] = "lock" /\ mu = Free /\ mu' = p /\ k \in Key
      /\ req' = req /\ pc'[p] = l /\ req[p].kind \in Writers
      /\ readM[k] \in Slot /\ dirtyM[k] \in Slot
  BY SlotOfKey DEF FoundLocked, Goto, Hold, OthersSame, walk, Good, ProcOK, CallsOK, SlotsOK
<1>2. CopySame /\ OnlyBy(p)
  BY <1>1, CopiesKept DEF OnlyBy
<1>3. TablesRule' /\ ptr'[ent'[p]] # Expunged
  <2>1. CASE readM[k] # NoEntry /\ Unexpunge(readM[k], k) /\ Hold(p, readM[k])
    <3>1. ent'[p] = readM[k] /\ UNCHANGED <<readM, amended, hasDirty>>
      BY <2>1 DEF Hold, FoundLocked, Good, ProcOK, SlotsOK
    <3> QED
      BY <1>1, <1>2, <2>1, <3>1, UnexpungeRule DEF Rule
  <2>2. CASE dirtyM[k] # NoEntry /\ Hold(p, dirtyM[k]) /\ UNCHANGED <<ptr, dirtyM>>
    <3>1. ent'[p] = dirtyM[k] /\ tables' = tables /\ PtrSame
      BY <2>2 DEF Hold, FoundLocked, Good, ProcOK, SlotsOK, tables, PtrSame
    <3>2. TablesRule'
      BY <1>2, <3>1, RuleKept DEF Rule
    <3> QED
      BY <1>1, <2>2, <3>1, <3>2 DEF Rule, TablesRule, EntryRule
  <2> QED
    BY <2>1, <2>2 DEF FoundLocked
<1>4. MuRule(p)'
  BY <1>1, <1>3, SyncMapAssumption DEF MuRule
<1>5. \A q \in Proc \ {p} : MuRule(q)'
  BY <1>1, <1>2, OthersKept DEF Rule
<1> QED
  BY <1>3, <1>4, <1>5 DEF Rule

LEMMA AbsentLockedRule ==
  ASSUME Good, NEW p \in Proc, Rule(p), AbsentLocked(p) PROVE Rule(p)'
<1>1. /\ OthersSame(p) /\ pc[p] = "lock" /\ mu = Free /\ mu' = p /\ req' = req
      /\ readM' = readM /\ amended' = amended /\ dirtyM' = dirtyM /\ ptr' = ptr
      /\ readM[req[p].key] = NoEntry /\ hasDirty' = TRUE
  BY DEF AbsentLocked, Goto, OthersSame, slot, Good, ProcOK, CallsOK, SlotsOK, WalksOK
<1>2. OnlyBy(p) /\ CopySame
  BY <1>1, CopiesKept DEF OnlyBy
<1>3. Distinct' /\ NoDirty'
  BY <1>1 DEF Rule, TablesRule, Distinct, NoDirty
<1>4. \A q \in Proc \ {p} : MuRule(q)'
  BY <1>1, <1>2, OthersKept DEF Rule
<1>5. CASE /\ ~hasDirty
           /\ todo' = [todo EXCEPT ![p] = Present(readM)] /\ Goto(p, "copy")
  <2>1. pc'[p] = "copy" /\ todo'[p] = Present(readM)
    BY <1>5 DEF Goto, Good, ProcOK, CallsOK, WalksOK
  <2>2. \A k \in Key : dirtyM[k] = NoEntry
    BY <1>5 DEF Rule, TablesRule, NoDirty
  <2>3. MuRule(p)'
    BY <1>1, <2>1, <2>2, SyncMapAssumption DEF MuRule, Present
  <2>4. \A k \in Key : readM[k] # NoEntry => Copying(k)' /\ ptr[readM[k]] # Expunged
    BY <1>5, <2>1 DEF Copying, Present, Rule, TablesRule, EntryRule
  <2>5. EntryRule'
    BY <1>1, <2>2, <2>4 DEF EntryRule
  <2> QED
    BY <1>3, <1>4, <2>3, <2>5 DEF Rule, TablesRule
<1>6. CASE (amended \/ hasDirty \/ Present(readM) = {}) /\ Goto(p, "insert")
  <2>1. pc'[p] = "insert"
    BY <1>6 DEF Goto, Good, ProcOK, CallsOK
  <2>2. MuRule(p)'
    BY <1>1, <2>1, SyncMapAssumption DEF MuRule
  <2>3. hasDirty \/ \A k \in Key : readM[k] = NoEntry
    BY <1>6 DEF Rule, TablesRule, NoDirty, Present
  <2>4. EntryRule'
    BY <1>1, <1>2, <2>3 DEF Rule, TablesRule, EntryRule, CopySame
  <2> QED
    BY <1>3, <1>4, <2>2, <2>4 DEF Rule, TablesRule
<1> QED
  BY <1>5, <1>6 DEF AbsentLocked

\* One turn of dirtyLocked's loop: the entry is expunged, or copied.
LEMMA CopyOneRule ==
  ASSUME Good, NEW p \in Proc, Rule(p), CopyOne(p) PROVE Rule(p)'
<1> PICK k \in todo[p] :
      /\ IF Live(ptr[readM[k]])
         THEN dirtyM' = [dirtyM EXCEPT ![k] = readM[k]] /\ UNCHANGED ptr
         ELSE ptr' = [ptr EXCEPT ![readM[k]] = Expunged] /\ UNCHANGED dirtyM
      /\ todo' = [todo EXCEPT ![p] = @ \ {k}]
      /\ Goto(p, IF todo[p] = {k} THEN "insert" ELSE "copy")
  BY DEF CopyOne
<1> DEFINE e == readM[k]
<1>1. /\ pc[p] = "copy" /\ UNCHANGED <<readM, amended, hasDirty, misses, mu, slot>>
      /\ k \in Key
  BY DEF CopyOne, Good, WalksOK
<1>2. OthersSame(p) /\ req' = req /\ todo'[p] = todo[p] \ {k}
      /\ pc'[p] = IF todo[p] = {k} THEN "insert" ELSE "copy"
  BY <1>1 DEF Goto, OthersSame, slot, Good, ProcOK, CallsOK, SlotsOK, WalksOK
<1>3. /\ mu = p /\ hasDirty /\ readM[req[p].key] = NoEntry
      /\ \A j \in todo[p] : readM[j] # NoEntry /\ dirtyM[j] = NoEntry
  BY <1>1 DEF Rule, MuRule
<1>4. \A q \in Proc \ {p} : MuRule(q)'
  <2>1. OnlyBy(p)
    BY <1>1, <1>3 DEF OnlyBy
  <2> QED
    BY <1>2, <2>1, OthersKept DEF Rule
<1>5. /\ e \in Entry /\ dirtyM[k] = NoEntry
      /\ \A j \in Key : readM[j] \in Entry \cup {NoEntry} /\ dirtyM[j] \in Entry \cup {NoEntry}
      /\ \A j \in Key \ {k} : readM[j] # e /\ dirtyM[j] # e
  BY <1>1, <1>3 DEF Good, TablesOK, Table, Slot, Rule, TablesRule, Distinct
\* What becomes of key k, and of the others.
<1>6. /\ \A j \in Key \ {k} : dirtyM'[j] = dirtyM[j]
      /\ \A f \in Entry \ {e} : ptr'[f] = ptr[f]
      /\ \/ ptr'[e] = Expunged /\ dirtyM'[k] = NoEntry
         \/ ptr'[e] # Expunged /\ dirtyM'[k] = e
  <2>1. CASE Live(ptr[e])
    BY <1>1, <1>5, <2>1 DEF Good, TablesOK, Table, Live
  <2>2. CASE ~Live(ptr[e])
    BY <1>1, <1>5, <2>2 DEF Good, TablesOK, Table, PtrOK
  <2> QED
    BY <2>1, <2>2
<1>7. MuRule(p)'
  BY <1>1, <1>2, <1>3, <1>6 DEF MuRule, Good, WalksOK
<1>8. Distinct'
  BY <1>1, <1>5, <1>6, SyncMapAssumption DEF Rule, TablesRule, Distinct
<1>9. NoDirty'
  BY <1>1, <1>3 DEF NoDirty
<1>10. ASSUME NEW j \in Key, j # k, Copying(j) PROVE Copying(j)'
  <2>1. PICK q \in Proc : pc[q] = "copy" /\ j \in todo[q]
    BY <1>10 DEF Copying
  <2>2. q = p
    BY <1>3, <2>1 DEF Rule, MuRule
  <2> QED
    BY <1>2, <1>10, <2>1, <2>2 DEF Copying
<1>11. EntryRule'
  <2> HIDE DEF e
  <2> SUFFICES ASSUME NEW j \in Key
               PROVE  /\ readM'[j] # NoEntry =>
                           IF ptr'[readM'[j]] = Expunged
                           THEN hasDirty' /\ dirtyM'[j] = NoEntry
                           ELSE hasDirty' => dirtyM'[j] = readM'[j] \/ Copying(j)'
                      /\ dirtyM'[j] # NoEntry => ptr'[dirtyM'[j]] # Expunged
    BY DEF EntryRule
  <2>1. CASE j = k
    BY <1>1, <1>3, <1>6, <2>1 DEF e
  <2>2. CASE j # k
    <3>1. /\ readM'[j] = readM[j] /\ dirtyM'[j] = dirtyM[j]
          /\ readM[j] # NoEntry => ptr'[readM[j]] = ptr[readM[j]]
          /\ dirtyM[j] # NoEntry => ptr'[dirtyM[j]] = ptr[dirtyM[j]]
      BY <1>1, <1>5, <1>6, <2>2
    <3> QED
      BY <1>1, <1>10, <2>2, <3>1 DEF Rule, TablesRule, EntryRule
  <2> QED
    BY <2>1, <2>2
<1> QED
  BY <1>4, <1>7, <1>8, <1>9, <1>11 DEF Rule, TablesRule

LEMMA InsertRule ==
  ASSUME Good, NEW p \in Proc, Rule(p), Insert(p) PROVE Rule(p)'
<1> DEFINE e == CHOOSE f \in Unreachable : TRUE
           k == req[p].key
<1>1. e \in Unreachable /\ pc[p] = "insert"
  BY DEF Insert
<1>2. /\ ptr' = [ptr EXCEPT ![e] = p] /\ dirtyM' = [dirtyM EXCEPT ![k] = e]
      /\ amended' = TRUE /\ mu' = Free /\ readM' = readM /\ hasDirty' = hasDirty
      /\ todo' = todo
  BY DEF Insert, walk
<1> HIDE DEF e
<1>3. e \in Entry /\ e # NoEntry /\ \A j \in Key : readM[j] # e /\ dirtyM[j] # e
  BY <1>1, SyncMapAssumption DEF Unreachable
<1>4. OthersSame(p) /\ pc'[p] = "done"
  BY <1>2 DEF Insert, Answer, OthersSame, Good, ProcOK, CallsOK, SlotsOK
<1>5. mu = p /\ hasDirty /\ readM[k] = NoEntry
  BY <1>1 DEF Rule, MuRule
<1>6. CopySame /\ OnlyBy(p)
  BY <1>1, <1>2, <1>4, <1>5, CopiesKept DEF OnlyBy
<1>7. MuRule(p)'
  BY <1>2, <1>4, AnswerMu, SyncMapAssumption
<1>8. \A q \in Proc \ {p} : MuRule(q)'
  BY <1>4, <1>6, OthersKept DEF Rule
<1>9. \A j \in Key : /\ j # k => dirtyM'[j] = dirtyM[j]
                     /\ j = k => dirtyM'[j] = e
  BY <1>2 DEF Good, TablesOK, Table
<1>10. ptr'[e] = p /\ p # Expunged /\ \A f \in Entry \ {e} : ptr'[f] = ptr[f]
  BY <1>2, <1>3, SyncMapAssumption DEF Good, PtrOK
<1>11. Distinct'
  BY <1>2, <1>3, <1>5, <1>9 DEF Rule, TablesRule, Distinct
<1>12. NoDirty'
  BY <1>2, <1>5 DEF NoDirty
<1>13. \A j \in Key : readM[j] \in Entry \cup {NoEntry} /\ dirtyM[j] \in Entry \cup {NoEntry}
  BY DEF Good, TablesOK, Table, Slot
<1>14. EntryRule'
  <2> SUFFICES ASSUME NEW j \in Key
               PROVE  /\ readM'[j] # NoEntry =>
                           IF ptr'[readM'[j]] = Expunged
                           THEN hasDirty' /\ dirtyM'[j] = NoEntry
                           ELSE hasDirty' => dirtyM'[j] = readM'[j] \/ Copying(j)'
                      /\ dirtyM'[j] # NoEntry => ptr'[dirtyM'[j]] # Expunged
    BY DEF EntryRule
  <2> HIDE DEF k
  <2>1. CASE j = k
    BY <1>2, <1>5, <1>9, <1>10, <2>1
  <2>2. CASE j # k
    <3>1. /\ readM'[j] = readM[j] /\ dirtyM'[j] = dirtyM[j]
          /\ readM[j] # NoEntry => ptr'[readM[j]] = ptr[readM[j]]
          /\ dirtyM[j] # NoEntry => ptr'[dirtyM[j]] = ptr[dirtyM[j]]
      BY <1>2, <1>3, <1>9, <1>10, <1>13, <2>2
    <3> QED
      BY <1>2, <1>6, <3>1 DEF Rule, TablesRule, EntryRule, CopySame
  <2> QED
    BY <2>1, <2>2
<1> QED
  BY <1>7, <1>8, <1>11, <1>12, <1>14 DEF Rule, TablesRule

LEMMA SwapLockedRule ==
  ASSUME Good, NEW p \in Proc, Rule(p), SwapLocked(p) PROVE Rule(p)'
<1>1. /\ OthersSame(p) /\ pc[p] = "swap" /\ tables' = tables /\ mu' = Free
      /\ ptr' = [ptr EXCEPT ![ent[p]] = p] /\ pc'[p] = "done" /\ ent[p] \in Entry
  BY DEF SwapLocked, Answer, OthersSame, walk, Good, ProcOK, CallsOK, SlotsOK, WorkOK
<1>2. mu = p /\ ptr[ent[p]] # Expunged
  BY <1>1 DEF Rule, MuRule
<1>3. PtrSame
  BY <1>1, <1>2, SyncMapAssumption DEF PtrSame, Good, PtrOK
<1>4. CopySame /\ OnlyBy(p)
  BY <1>1, <1>2, CopiesKept DEF OnlyBy
<1>5. TablesRule'
  BY <1>1, <1>3, <1>4, RuleKept DEF Rule
<1>6. MuRule(p)'
  BY <1>1, AnswerMu, SyncMapAssumption
<1>7. \A q \in Proc \ {p} : MuRule(q)'
  BY <1>1, <1>4, OthersKept DEF Rule
<1> QED
  BY <1>5, <1>6, <1>7 DEF Rule

LEMMA RangeRule ==
  ASSUME Good, NEW p \in Proc, Rule(p),
         RangeLook(p) \/ Visit(p) \/ VisitsDone(p) \/ Return(p) \/ \E r \in Asks : Call(p, r)
  PROVE  Rule(p)'
<1>1. /\ OthersSame(p) /\ tables' = tables /\ ptr' = ptr /\ mu' = mu
      /\ pc[p] \in {"idle", "read", "visit", "done"}
  BY DEF RangeLook, Visit, VisitsDone, Return, Call, StartVisits, Goto, Answer, OthersSame,
         slot, walk, Good, ProcOK, CallsOK, SlotsOK, WalksOK
<1>2. pc'[p] \in {"idle", "read", "lock", "visit", "done"}
  BY DEF RangeLook, Visit, VisitsDone, Return, Call, StartVisits, Goto, Answer,
         Good, ProcOK, CallsOK
<1>3. mu # p
  BY <1>1 DEF Rule, MuRule
<1>4. MuRule(p)'
  BY <1>1, <1>2, <1>3, AnswerMu
<1> QED
  BY <1>1, <1>4, QuietRule

LEMMA RangeLockedRule ==
  ASSUME Good, NEW p \in Proc, Rule(p), RangeLocked(p) PROVE Rule(p)'
<1>1. /\ OthersSame(p) /\ pc[p] = "lock" /\ mu = Free /\ mu' = mu /\ ptr' = ptr
      /\ pc'[p] = "visit"
  BY DEF RangeLocked, StartVisits, Goto, OthersSame, slot, Good, ProcOK, CallsOK,
         SlotsOK, WalksOK
<1>2. PtrSame /\ CopySame /\ OnlyBy(p)
  BY <1>1, CopiesKept DEF PtrSame, OnlyBy
<1>3. TablesRule'
  <2>1. CASE Promote(dirtyM)
    <3>1. dirtyM \in Table
      BY DEF Good, TablesOK
    <3> QED
      BY <1>2, <2>1, <3>1, PromoteRule DEF Rule
  <2>2. CASE UNCHANGED tables
    BY <1>2, <2>2, RuleKept DEF Rule
  <2> QED
    BY <2>1, <2>2 DEF RangeLocked
<1>4. MuRule(p)'
  BY <1>1, AnswerMu, SyncMapAssumption
<1>5. \A q \in Proc \ {p} : MuRule(q)'
  BY <1>1, <1>2, OthersKept DEF Rule
<1> QED
  BY <1>3, <1>4, <1>5 DEF Rule

-----------------------------------------------------------------------------
LEMMA InitRule == ASSUME Init PROVE TablesRule /\ \A p \in Proc : MuRule(p)
<1>1. \A k \in Key : readM[k] = NoEntry /\ dirtyM[k] = NoEntry
  BY DEF Init, EmptyTable
<1>2. TablesRule
  BY <1>1 DEF Init, TablesRule, Distinct, NoDirty, EntryRule
<1>3. \A p \in Proc : MuRule(p)
  BY SyncMapAssumption DEF Init, MuRule
<1> QED
  BY <1>2, <1>3

LEMMA NextRule == ASSUME IInv, [Next]_vars PROVE IInv'
<1>1. Good'
  BY NextGood DEF IInv
<1>2. CASE UNCHANGED vars
  <2>1. TablesRule'
    BY <1>2 DEF IInv, TablesRule, Distinct, NoDirty, EntryRule, Copying, vars, tables, walk
  <2>2. \A p \in Proc : MuRule(p)'
    BY <1>2 DEF IInv, MuRule, vars, tables, slot, walk
  <2> QED
    BY <1>1, <2>1, <2>2 DEF IInv
<1>3. ASSUME NEW p \in Proc, (\E r \in Asks : Call(p, r)) \/ Step(p) \/ Return(p)
      PROVE  IInv'
  <2>1. Rule(p) /\ Good
    BY DEF IInv, Rule
  <2>2. Rule(p)'
    BY <1>3, <2>1, LookRule, PeekRule, CasRule, LookLockedRule, CompareLockedRule,
       FoundLockedRule, AbsentLockedRule, CopyOneRule, InsertRule, SwapLockedRule,
       RangeRule, RangeLockedRule DEF Step
  <2> QED
    BY <1>1, <2>2 DEF IInv, Rule
<1> QED
  BY <1>2, <1>3 DEF Next

\* EntryRule of SyncMap at every instant, for any number of goroutines: an
\* expunged entry always has a dirty table to go back to and is not in it,
\* and a dirty table is never short of a stored value when it is promoted.
THEOREM EntryRuleCorrect == Spec => []EntryRule
<1>1. Init => IInv
  BY InitGood, InitRule DEF IInv
<1>2. IInv /\ [Next]_vars => IInv'
  BY NextRule
<1>3. IInv => EntryRule
  BY DEF IInv, TablesRule
<1> QED
  BY <1>1, <1>2, <1>3, PTL DEF Spec

-----------------------------------------------------------------------------
\* Every nonempty set of natural numbers has a least one: the form of
\* induction used below.
LEMMA Least ==
  ASSUME NEW S \in SUBSET Nat, S # {} PROVE \E n \in S : \A m \in S : ~(m < n)
<1>1. IsWellFoundedOn(OpToRel(<, Nat), Nat)
  BY NatLessThanWellFounded
<1>2. OpToRel(<, Nat) = {x \in Nat \X Nat : x[1] < x[2]}
  BY DEF OpToRel
<1>3. PICK n \in S : \A y \in S : <<y, n>> \notin {x \in Nat \X Nat : x[1] < x[2]}
  BY <1>1, <1>2, WFMin
<1>4. ASSUME NEW m \in S PROVE ~(m < n)
  <2>1. m \in Nat /\ n \in Nat
    OBVIOUS
  <2>2. <<m, n>> \notin {x \in Nat \X Nat : x[1] < x[2]}
    BY <1>3
  <2>3. <<m, n>> \in Nat \X Nat /\ <<m, n>>[1] = m /\ <<m, n>>[2] = n
    BY <2>1
  <2> QED
    BY <2>2, <2>3
<1> QED
  BY <1>4

LEMMA ProcCount == A!Cardinality(Proc) = Cardinality(Proc) /\ Cardinality(Proc) \in Nat
<1>1. A!Cardinality(Proc) = Cardinality(Proc)
  BY DEF A!Cardinality, Cardinality
<1>2. Cardinality(Proc) \in Nat
  BY HistoryAssumption, FS_CardinalityType
<1> QED
  BY <1>1, <1>2

\* The function Reach defines by recursion exists, and does what it says.
Approx(f, k, m) ==
  f = [n \in 0..m |-> IF n = 0 THEN can[k] ELSE A!Widen(f[n-1], k)]

LEMMA ApproxExists == ASSUME NEW k, NEW m \in Nat PROVE \E f : Approx(f, k, m)
<1> SUFFICES ASSUME ~ \E f : Approx(f, k, m) PROVE FALSE
  OBVIOUS
<1> DEFINE T == {i \in Nat : ~ \E f : Approx(f, k, i)}
<1>1. PICK i \in T : \A j \in T : ~(j < i)
  <2>1. T \in SUBSET Nat /\ T # {}
    OBVIOUS
  <2> HIDE DEF T
  <2> QED
    BY <2>1, Least
<1>2. CASE i = 0
  <2>1. Approx([n \in 0..0 |-> can[k]], k, 0)
    BY DEF Approx
  <2> QED
    BY <1>1, <1>2, <2>1
<1>3. CASE i # 0
  <2>1. i - 1 \in Nat /\ i - 1 \notin T /\ i \in Nat
    BY <1>1, <1>3
  <2>2. PICK f : Approx(f, k, i-1)
    BY <2>1
  <2> DEFINE g == [n \in 0..i |-> IF n = 0 THEN can[k] ELSE A!Widen(f[n-1], k)]
  <2>3. ASSUME NEW n \in 0..i, n # 0 PROVE g[n-1] = f[n-1]
    <3>1. n - 1 \in 0..i-1 /\ n - 1 \in 0..i
      BY <2>1, <2>3
    <3>2. g[n-1] = IF n - 1 = 0 THEN can[k] ELSE A!Widen(f[n-1-1], k)
      BY <3>1
    <3>3. f[n-1] = IF n - 1 = 0 THEN can[k] ELSE A!Widen(f[n-1-1], k)
      BY <2>2, <3>1 DEF Approx
    <3> QED
      BY <3>2, <3>3
  <2>4. Approx(g, k, i)
    BY <2>3 DEF Approx
  <2> QED
    BY <1>1, <2>4
<1> QED
  BY <1>2, <1>3

IsRun(f, k) == /\ f[0] = can[k]
               /\ \A n \in 1..Cardinality(Proc) : f[n] = A!Widen(f[n-1], k)
               /\ A!Reach(k) = f[Cardinality(Proc)]

LEMMA ReachRun == ASSUME NEW k PROVE \E f : IsRun(f, k)
<1> DEFINE after[n \in 0..A!Cardinality(Proc)] ==
             IF n = 0 THEN can[k] ELSE A!Widen(after[n-1], k)
<1>1. A!Reach(k) = after[A!Cardinality(Proc)]
  BY DEF A!Reach
<1>2. PICK g : Approx(g, k, A!Cardinality(Proc))
  BY ApproxExists, ProcCount
<1>3. after = [n \in 0..A!Cardinality(Proc) |->
                 IF n = 0 THEN can[k] ELSE A!Widen(after[n-1], k)]
  BY <1>2 DEF Approx
<1> HIDE DEF after
<1>4. \A n \in 0..Cardinality(Proc) :
        after[n] = IF n = 0 THEN can[k] ELSE A!Widen(after[n-1], k)
  BY <1>3, ProcCount
<1>5. after[0] = can[k]
  BY <1>4, ProcCount
<1>6. \A n \in 1..Cardinality(Proc) : after[n] = A!Widen(after[n-1], k)
  BY <1>4, ProcCount
<1> QED
  BY <1>1, <1>5, <1>6, ProcCount DEF IsRun

LEMMA ReachRunNext == ASSUME NEW CONSTANT k PROVE (\E f : IsRun(f, k))'
BY ReachRun, PTL

LEMMA RunGrows ==
  ASSUME NEW f, NEW k, IsRun(f, k), NEW n \in 0..Cardinality(Proc), NEW m \in 0..n
  PROVE  f[m] \subseteq f[n]
<1> SUFFICES ASSUME ~(f[m] \subseteq f[n]) PROVE FALSE
  OBVIOUS
<1> DEFINE T == {i \in Nat : m <= i /\ i <= Cardinality(Proc) /\ ~(f[m] \subseteq f[i])}
<1>1. PICK i \in T : \A j \in T : ~(j < i)
  <2>1. T \in SUBSET Nat /\ n \in T
    BY ProcCount
  <2> HIDE DEF T
  <2> QED
    BY <2>1, Least
<1>2. i # m /\ i \in 1..Cardinality(Proc) /\ i - 1 \in Nat /\ m <= i - 1 /\ i - 1 <= Cardinality(Proc)
  BY <1>1, ProcCount
<1>3. f[m] \subseteq f[i-1]
  BY <1>1, <1>2
<1>4. f[i] = A!Widen(f[i-1], k)
  BY <1>2 DEF IsRun
<1>5. f[i-1] \subseteq f[i]
  BY <1>4 DEF A!Widen
<1> QED
  BY <1>1, <1>3, <1>5

-----------------------------------------------------------------------------
\* A possibility, and what one call taking effect makes of it.
Given == [Proc -> AnswerSet \cup {A!Pending}]
Possible == [now : Proc \cup {Nil}, given : Given]
AskedOK == \A p \in Proc : Asked[p] \in A!Requests \cup {NoRequest}
Wants(p, k) == Asked[p].key = k

LEMMA PendingNoAnswer == A!Pending \notin AnswerSet
BY HistoryAssumption DEF A!Pending, AnswerSet

LEMMA TakeType ==
  ASSUME AskedOK, NEW k \in Key, NEW c \in Possible, NEW p \in Proc, Wants(p, k)
  PROVE  /\ A!Take(c, p) \in Possible
         /\ A!Take(c, p).given[p] \in AnswerSet
         /\ \A q \in Proc : q # p => A!Take(c, p).given[q] = c.given[q]
<1> DEFINE e == A!Effect(p, Asked[p], c.now)
<1>1. Asked[p] \in A!Requests
  BY SyncMapAssumption DEF AskedOK, Wants, NoRequest
<1>2. Asked[p].kind \in {"Load", "Swap", "LoadOrStore", "LoadAndDelete",
                         "CompareAndSwap", "CompareAndDelete"}
  BY <1>1, SyncMapAssumption DEF A!Requests
<1>3. c.now \in Proc \cup {Nil} /\ c.given \in Given
  BY DEF Possible
<1>4. e.now \in Proc \cup {Nil} /\ e.answer \in AnswerSet
  BY <1>2, <1>3 DEF A!Effect, AnswerSet
<1>5. A!Take(c, p) = [now |-> e.now, given |-> [c.given EXCEPT ![p] = e.answer]]
  BY DEF A!Take
<1> HIDE DEF e
<1>6. [c.given EXCEPT ![p] = e.answer] \in Given
  BY <1>3, <1>4 DEF Given
<1> QED
  BY <1>3, <1>4, <1>5, <1>6 DEF Possible, Given

\* The calls that have taken effect in c.
TakenIn(c) == {q \in Proc : c.given[q] # A!Pending}

LEMMA TakenCount ==
  ASSUME AskedOK, NEW k \in Key, NEW c \in Possible, NEW p \in Proc, Wants(p, k),
         c.given[p] = A!Pending
  PROVE  /\ Cardinality(TakenIn(c)) \in Nat
         /\ Cardinality(TakenIn(c)) < Cardinality(Proc)
         /\ Cardinality(TakenIn(A!Take(c, p))) = Cardinality(TakenIn(c)) + 1
<1>1. IsFiniteSet(Proc) /\ TakenIn(c) \subseteq Proc /\ p \notin TakenIn(c)
  BY HistoryAssumption DEF TakenIn
<1>2. IsFiniteSet(TakenIn(c)) /\ Cardinality(TakenIn(c)) \in Nat
  BY <1>1, FS_Subset, FS_CardinalityType
<1>3. TakenIn(A!Take(c, p)) = TakenIn(c) \cup {p}
  BY TakeType, PendingNoAnswer DEF TakenIn
<1>4. Cardinality(TakenIn(c) \cup {p}) = Cardinality(TakenIn(c)) + 1
  BY <1>1, <1>2, FS_AddElement
<1>5. Cardinality(TakenIn(c) \cup {p}) <= Cardinality(Proc)
  BY <1>1, FS_Subset
<1> QED
  BY <1>2, <1>3, <1>4, <1>5, ProcCount

\* A possibility is reached after at most as many rounds as calls took
\* effect in it, so that Reach's rounds are enough.
LEMMA Depth ==
  ASSUME AskedOK, NEW k \in Key, can[k] \subseteq Possible,
         NEW f, IsRun(f, k), NEW n \in 0..Cardinality(Proc), NEW c \in f[n]
  PROVE  /\ c \in Possible
         /\ \E m \in 0..n : m <= Cardinality(TakenIn(c)) /\ c \in f[m]
<1> DEFINE N == Cardinality(Proc)
           OK(d, i) == /\ d \in Possible
                       /\ \E m \in 0..i : m <= Cardinality(TakenIn(d)) /\ d \in f[m]
           T == {i \in Nat : i <= N /\ \E d \in f[i] : ~OK(d, i)}
<1> SUFFICES ASSUME ~OK(c, n) PROVE FALSE
  OBVIOUS
<1>1. PICK i \in T : \A j \in T : ~(j < i)
  <2>1. T \in SUBSET Nat /\ n \in T
    BY ProcCount
  <2> HIDE DEF T
  <2> QED
    BY <2>1, Least
<1>2. PICK d \in f[i] : ~OK(d, i)
  BY <1>1
<1>3. CASE i = 0
  <2>1. d \in Possible
    BY <1>2, <1>3 DEF IsRun
  <2>2. Cardinality(TakenIn(d)) \in Nat
    BY HistoryAssumption, FS_Subset, FS_CardinalityType DEF TakenIn
  <2> QED
    BY <1>2, <1>3, <2>1, <2>2
<1>4. CASE i # 0
  <2>1. i \in 1..N /\ i - 1 \in Nat /\ i - 1 \in 0..N /\ i - 1 < i
    BY <1>1, <1>4, ProcCount
  <2>2. \A b \in f[i-1] : OK(b, i-1)
    BY <1>1, <2>1
  <2>3. f[i] = A!Widen(f[i-1], k)
    BY <2>1 DEF IsRun
  <2>4. CASE d \in f[i-1]
    <3>1. OK(d, i-1)
      BY <2>2, <2>4
    <3> QED
      BY <1>2, <2>1, <3>1
  <2>5. CASE d \notin f[i-1]
    <3>1. PICK b \in f[i-1], p \in Proc :
            Asked[p].key = k /\ b.given[p] = A!Pending /\ d = A!Take(b, p)
      BY <2>3, <2>5 DEF A!Widen
    <3>2. OK(b, i-1)
      BY <2>2
    <3>3. PICK m \in 0..i-1 : m <= Cardinality(TakenIn(b)) /\ b \in f[m]
      BY <3>2
    <3>4. Cardinality(TakenIn(b)) \in Nat /\ Cardinality(TakenIn(d)) = Cardinality(TakenIn(b)) + 1
          /\ d \in Possible
      BY <3>1, <3>2, TakenCount, TakeType DEF Wants
    <3>5. m + 1 \in 1..N /\ m + 1 \in 0..i /\ m + 1 - 1 = m /\ m + 1 <= Cardinality(TakenIn(d))
      BY <2>1, <3>3, <3>4, ProcCount
    <3>6. f[m+1] = A!Widen(f[m], k)
      BY <3>5 DEF IsRun
    <3>7. d \in f[m+1]
      BY <3>1, <3>3, <3>6 DEF A!Widen
    <3> QED
      BY <1>2, <3>4, <3>5, <3>7
  <2> QED
    BY <2>4, <2>5
<1> QED
  BY <1>3, <1>4

-----------------------------------------------------------------------------
\* The three facts about Reach that the proof of Linearizable needs: it holds
\* what was possible already, one more call may take effect, and it only
\* grows when other calls begin or end.
LEMMA ReachKeeps ==
  ASSUME NEW k PROVE can[k] \subseteq A!Reach(k)
<1>1. PICK f : IsRun(f, k)
  BY ReachRun
<1>2. f[0] \subseteq f[Cardinality(Proc)]
  BY <1>1, RunGrows, ProcCount
<1> QED
  BY <1>1, <1>2 DEF IsRun

LEMMA ReachTypes ==
  ASSUME AskedOK, NEW k \in Key, can[k] \subseteq Possible
  PROVE  A!Reach(k) \subseteq Possible
<1>1. PICK f : IsRun(f, k)
  BY ReachRun
<1>2. Cardinality(Proc) \in 0..Cardinality(Proc)
  BY ProcCount
<1>3. \A c \in f[Cardinality(Proc)] : c \in Possible
  BY <1>1, <1>2, Depth
<1> QED
  BY <1>1, <1>3 DEF IsRun

LEMMA ReachTakes ==
  ASSUME AskedOK, NEW k \in Key, can[k] \subseteq Possible, NEW c \in A!Reach(k),
         NEW p \in Proc, Wants(p, k), c.given[p] = A!Pending
  PROVE  A!Take(c, p) \in A!Reach(k)
<1> DEFINE N == Cardinality(Proc)
<1>1. PICK f : IsRun(f, k)
  BY ReachRun
<1>2. N \in 0..N /\ c \in f[N]
  BY <1>1, ProcCount DEF IsRun
<1>3. c \in Possible /\ \E m \in 0..N : m <= Cardinality(TakenIn(c)) /\ c \in f[m]
  BY <1>1, <1>2, Depth
<1>4. PICK m \in 0..N : m <= Cardinality(TakenIn(c)) /\ c \in f[m]
  BY <1>3
<1>5. Cardinality(TakenIn(c)) \in Nat /\ Cardinality(TakenIn(c)) < N
  BY <1>3, TakenCount
<1>6. m + 1 \in 1..N /\ m + 1 \in 0..N /\ m + 1 - 1 = m
  BY <1>4, <1>5, ProcCount
<1>7. f[m+1] = A!Widen(f[m], k)
  BY <1>1, <1>6 DEF IsRun
<1>8. A!Take(c, p) \in f[m+1]
  BY <1>4, <1>7 DEF A!Widen, Wants
<1>9. f[m+1] \subseteq f[N]
  BY <1>1, <1>2, <1>6, RunGrows
<1> QED
  BY <1>1, <1>8, <1>9 DEF IsRun

LEMMA ReachSteady ==
  ASSUME NEW CONSTANT k \in Key, can[k] = can'[k],
         \A p \in Proc : Wants(p, k) => Asked'[p] = Asked[p]
  PROVE  A!Reach(k) \subseteq A!Reach(k)'
<1> DEFINE N == Cardinality(Proc)
<1>1. PICK f : IsRun(f, k)
  BY ReachRun
<1>2. PICK g : IsRun(g, k)'
  BY ReachRunNext
<1>3. \A n \in 0..N : f[n] \subseteq g[n]
  <2> DEFINE T == {i \in Nat : i <= N /\ ~(f[i] \subseteq g[i])}
  <2> SUFFICES ASSUME T # {} PROVE FALSE
    BY ProcCount
  <2>1. PICK i \in T : \A j \in T : ~(j < i)
    <3>1. T \in SUBSET Nat
      OBVIOUS
    <3> HIDE DEF T
    <3> QED
      BY <3>1, Least
  <2>2. CASE i = 0
    BY <1>1, <1>2, <2>1, <2>2 DEF IsRun
  <2>3. CASE i # 0
    <3>1. i \in 1..N /\ i - 1 \in Nat /\ i - 1 <= N /\ i - 1 < i
      BY <2>1, <2>3, ProcCount
    <3>2. f[i-1] \subseteq g[i-1]
      BY <2>1, <3>1
    <3>3. f[i] = A!Widen(f[i-1], k) /\ g[i] = A!Widen(g[i-1], k)'
      BY <1>1, <1>2, <3>1 DEF IsRun
    <3>4. ASSUME NEW c \in f[i] PROVE c \in g[i]
      <4>1. CASE c \in f[i-1]
        BY <3>2, <3>3, <4>1 DEF A!Widen
      <4>2. CASE c \notin f[i-1]
        <5>1. PICK b \in f[i-1], p \in Proc :
                Asked[p].key = k /\ b.given[p] = A!Pending /\ c = A!Take(b, p)
          BY <3>3, <4>2 DEF A!Widen
        <5>2. Asked'[p] = Asked[p]
          BY <5>1 DEF Wants
        <5>3. A!Take(b, p)' = A!Take(b, p)
          BY <5>2 DEF A!Take
        <5>4. b \in g[i-1] /\ Asked'[p].key = k
          BY <3>2, <5>1, <5>2
        <5>5. A!Take(b, p)' \in A!Widen(g[i-1], k)'
          BY <5>1, <5>4 DEF A!Widen
        <5> QED
          BY <3>3, <5>1, <5>3, <5>5
      <4> QED
        BY <4>1, <4>2
    <3> QED
      BY <2>1, <3>4
  <2> QED
    BY <2>2, <2>3
<1>4. N \in 0..N
  BY ProcCount
<1> QED
  BY <1>1, <1>2, <1>3, <1>4 DEF IsRun

-----------------------------------------------------------------------------
\* The entry a key has in the tables, whichever of them it is in.
EntryOf(k) == IF readM[k] # NoEntry THEN readM[k] ELSE dirtyM[k]
InTables(e) == \E k \in Key : EntryOf(k) = e
Working(p) == pc[p] \in {"peek", "cas", "swap"}
Orphan(p)  == pc[p] \in {"peek", "cas"} /\ ent[p] # EntryOf(req[p].key)
Loners == {"Load", "LoadAndDelete", "CompareAndDelete"}

CallRule(p) ==
  /\ pc[p] = "idle" => req[p] = NoRequest
  /\ pc[p] = "visit" => req[p].kind = "Range"
  /\ req[p].kind = "Range" => pc[p] \in {"read", "lock", "visit", "done"}
  /\ pc[p] \in {"copy", "insert", "swap"} => req[p].kind \in Writers
  /\ pc[p] = "swap" => req[p].kind = "Swap"
  /\ pc[p] \in {"copy", "insert"} => dirtyM[req[p].key] = NoEntry
  /\ ent[p] # NoEntry => Working(p)
  /\ pc[p] # "visit" => snap[p] = EmptyTable
  /\ mu = p /\ Working(p) =>
       /\ ent[p] = EntryOf(req[p].key)
       /\ req[p].kind = "LoadOrStore" => ptr[ent[p]] # Expunged
SeenRule(p) ==
  pc[p] = "cas" => /\ req[p].kind # "Load"
                   /\ req[p].kind = "LoadAndDelete" => Live(seen[p])
                   /\ req[p].kind = "LoadOrStore" => seen[p] = Nil
                   /\ req[p].kind \in Compares => seen[p] = req[p].old

SnapRule(p) ==
  \A k \in Key : snap[p][k] # NoEntry =>
    \/ snap[p][k] = readM[k]
    \/ ptr[snap[p][k]] = Expunged /\ ~InTables(snap[p][k])

OwnRule(p) ==
  ent[p] # NoEntry =>
    /\ \A k \in Key : ent[p] = EntryOf(k) => req[p].key = k
    /\ \A q \in Proc : ent[q] = ent[p] => req[q].key = req[p].key

AmendRule == ~amended => \A k \in Key : readM[k] = NoEntry => dirtyM[k] = NoEntry

DirtyOnlyRule(p) ==
  Working(p) /\ readM[req[p].key] = NoEntry /\ dirtyM[req[p].key] = ent[p] =>
    mu = p \/ req[p].kind \in {"Load", "CompareAndDelete"}

OrphanRule(p) ==
  Orphan(p) =>
    /\ ~InTables(ent[p])
    /\ ptr[ent[p]] # Expunged => req[p].kind \in Loners
    /\ Live(ptr[ent[p]]) => \E d \in Proc : \A x \in Proc :
          ent[x] = ent[p] /\ req[x].kind = "LoadAndDelete" <=> x = d

KeyRule(p) == /\ CallRule(p) /\ SeenRule(p) /\ SnapRule(p) /\ OwnRule(p)
              /\ DirtyOnlyRule(p) /\ OrphanRule(p)
HInv == IInv /\ AmendRule /\ \A p \in Proc : KeyRule(p)

-----------------------------------------------------------------------------
LEMMA Entries ==
  ASSUME IInv, NEW k \in Key
  PROVE  /\ EntryOf(k) \in Slot
         /\ readM[k] \in {EntryOf(k), NoEntry} /\ dirtyM[k] \in {EntryOf(k), NoEntry}
<1>1. readM[k] \in Slot /\ dirtyM[k] \in Slot
  BY DEF IInv, Good, TablesOK, Table
<1>2. ASSUME dirtyM[k] # NoEntry, readM[k] # NoEntry PROVE dirtyM[k] = readM[k]
  <2>1. hasDirty
    BY <1>2 DEF IInv, TablesRule, NoDirty
  <2>2. ~Copying(k)
    BY <1>2 DEF Copying, IInv, MuRule
  <2> QED
    BY <1>2, <2>1, <2>2 DEF IInv, TablesRule, EntryRule
<1> QED
  BY <1>1, <1>2 DEF EntryOf

LEMMA EntriesApart ==
  ASSUME IInv, NEW j \in Key, NEW k \in Key, j # k, EntryOf(j) # NoEntry
  PROVE  EntryOf(j) # EntryOf(k)
BY DEF IInv, TablesRule, Distinct, EntryOf

LEMMA FreshApart ==
  ASSUME IInv, NEW e \in Unreachable
  PROVE  /\ e \in Entry /\ e # NoEntry /\ ~InTables(e)
         /\ \A q \in Proc : ent[q] # e /\ \A k \in Key : snap[q][k] # e
BY SyncMapAssumption DEF Unreachable, InTables, EntryOf

-----------------------------------------------------------------------------
\* What a step does to the tables, key by key.
Keep(k) ==
  /\ readM'[k] \in {EntryOf(k), NoEntry} /\ dirtyM'[k] \in {EntryOf(k), NoEntry}
  /\ readM'[k] = NoEntry => readM[k] = NoEntry /\ dirtyM'[k] = dirtyM[k]
Drop(k) ==
  /\ readM[k] # NoEntry /\ dirtyM[k] = NoEntry
  /\ ptr[readM[k]] = Expunged /\ ptr'[readM[k]] = Expunged
  /\ readM'[k] = NoEntry /\ dirtyM'[k] = NoEntry
Fresh(p, k) ==
  /\ pc[p] = "insert" /\ k = req[p].key /\ EntryOf(k) = NoEntry
  /\ readM'[k] = NoEntry /\ dirtyM'[k] \in Unreachable
Removed(p, k) ==
  /\ pc[p] = "lock" /\ mu = Free /\ req[p].kind = "LoadAndDelete" /\ k = req[p].key
  /\ readM[k] = NoEntry /\ dirtyM[k] # NoEntry
  /\ readM'[k] = NoEntry /\ dirtyM'[k] = NoEntry
  /\ pc'[p] = "peek" /\ ent'[p] = dirtyM[k] /\ ptr' = ptr

TableMove(p, k) == Keep(k) \/ Drop(k) \/ Fresh(p, k) \/ Removed(p, k)

\* And to the entries, one by one.
PtrMove(p, e) ==
  \/ ptr'[e] = ptr[e]
  \/ InTables(e) /\ ~Live(ptr[e]) /\ ~Live(ptr'[e])
  \/ /\ e = ent[p] /\ pc[p] \in {"cas", "swap"} /\ ptr[e] # Expunged
     /\ ptr'[e] = Swapped(p) /\ ent'[p] = NoEntry
  \/ e \in Unreachable

\* And to the entry it works on.
EntMove(p) ==
  \/ ent'[p] = NoEntry
  \/ ent'[p] = ent[p] /\ req'[p] = req[p]
  \/ /\ pc[p] \in {"read", "lock"} /\ req'[p] = req[p] /\ req[p].key \in Key
     /\ ent'[p] = EntryOf(req[p].key)

Leaves(p) ==
  ent'[p] # ent[p] /\ ent[p] # NoEntry /\ Live(ptr'[ent[p]]) /\ Orphan(p)
    => req[p].kind # "LoadAndDelete"

Others(p) ==
  OthersSame(p) /\ \A q \in Proc \ {p} : snap'[q] = snap[q] /\ res'[q] = res[q]

Moves(p) == /\ Others(p) /\ OnlyBy(p) /\ EntMove(p) /\ Leaves(p) /\ AmendRule'
            /\ \A k \in Key : TableMove(p, k)
            /\ \A e \in Entry : PtrMove(p, e)

LEMMA EntryMoves ==
  ASSUME IInv, NEW p \in Proc, NEW k \in Key, TableMove(p, k)
  PROVE  /\ Keep(k) => EntryOf(k)' = EntryOf(k)
         /\ Drop(k) \/ Removed(p, k) => EntryOf(k)' = NoEntry
         /\ Fresh(p, k) => EntryOf(k)' \in Unreachable
         /\ EntryOf(k)' \in {EntryOf(k), NoEntry} \/ EntryOf(k)' \in Unreachable
<1>1. Keep(k) => EntryOf(k)' = EntryOf(k)
  BY Entries DEF Keep, EntryOf
<1>2. Drop(k) \/ Removed(p, k) => EntryOf(k)' = NoEntry
  BY DEF Drop, Removed, EntryOf
<1>3. Fresh(p, k) => EntryOf(k)' \in Unreachable
  BY DEF Fresh, EntryOf
<1> QED
  BY <1>1, <1>2, <1>3 DEF TableMove

\* An entry that has left the tables never comes back.
LEMMA OutOfTables ==
  ASSUME IInv, NEW p \in Proc, \A k \in Key : TableMove(p, k), NEW e \in Entry,
         ~InTables(e), e \notin Unreachable
  PROVE  ~InTables(e)'
<1> SUFFICES ASSUME NEW k \in Key PROVE EntryOf(k)' # e
  BY DEF InTables
<1> QED
  BY EntryMoves, SyncMapAssumption DEF InTables

LEMMA SnapMoves ==
  ASSUME HInv, NEW p \in Proc, Moves(p), NEW q \in Proc, snap'[q] = snap[q]
  PROVE  SnapRule(q)'
<1> SUFFICES ASSUME NEW k \in Key, snap[q][k] # NoEntry
             PROVE  snap[q][k] = readM'[k] \/ (ptr'[snap[q][k]] = Expunged /\ ~InTables(snap[q][k])')
  BY DEF SnapRule
<1> DEFINE e == snap[q][k]
<1>1. e \in Entry /\ e \notin Unreachable
  BY DEF HInv, IInv, Good, WalksOK, Table, Slot, Unreachable
<1>2. CASE e = readM[k]
  <2>1. e = EntryOf(k)
    BY <1>1, <1>2, SyncMapAssumption DEF EntryOf
  <2>2. CASE Keep(k)
    BY <1>1, <1>2, <2>1, <2>2, SyncMapAssumption DEF Keep
  <2>3. CASE Drop(k)
    <3>1. ptr[e] = Expunged
      BY <1>2, <2>3 DEF Drop
    <3>2. ASSUME NEW j \in Key PROVE EntryOf(j)' # e
      <4>1. CASE j = k
        BY <1>1, <2>3, <4>1, EntryMoves, SyncMapAssumption DEF Moves, HInv
      <4>2. CASE j # k
        <5>1. EntryOf(j) # e
          BY <1>1, <2>1, <4>2, EntriesApart, SyncMapAssumption DEF HInv
        <5> QED
          BY <1>1, <5>1, EntryMoves, SyncMapAssumption DEF Moves, HInv
      <4> QED
        BY <4>1, <4>2
    <3>3. ptr'[e] = Expunged
      BY <1>2, <2>3 DEF Drop
    <3> QED
      BY <3>2, <3>3 DEF InTables
  <2>4. ~Fresh(p, k) /\ ~Removed(p, k)
    BY <1>1, <1>2, <2>1, SyncMapAssumption DEF Fresh, Removed
  <2> QED
    BY <2>2, <2>3, <2>4 DEF Moves, TableMove
<1>3. CASE ptr[e] = Expunged /\ ~InTables(e)
  <2>1. ~InTables(e)'
    BY <1>1, <1>3, OutOfTables DEF Moves, HInv
  <2>2. PtrMove(p, e)
    BY <1>1 DEF Moves
  <2> QED
    BY <1>1, <1>3, <2>1, <2>2 DEF PtrMove
<1> QED
  BY <1>2, <1>3 DEF HInv, KeyRule, SnapRule
LEMMA HeldBy ==
  ASSUME Good, NEW p \in Proc, Others(p), EntMove(p), NEW q \in Proc, ent'[q] # NoEntry
  PROVE  /\ req'[q] = req[q]
         /\ \/ ent'[q] = ent[q]
            \/ q = p /\ req[q].key \in Key /\ ent'[q] = EntryOf(req[q].key) /\ pc[p] \in {"read", "lock"}
<1>1. CASE q = p
  BY <1>1 DEF EntMove
<1>2. CASE q # p
  BY <1>2 DEF Others, OthersSame
<1> QED
  BY <1>1, <1>2

LEMMA OwnMoves ==
  ASSUME HInv, NEW p \in Proc, Moves(p), NEW q \in Proc
  PROVE  OwnRule(q)'
<1> SUFFICES ASSUME ent'[q] # NoEntry
             PROVE  /\ \A k \in Key : ent'[q] = EntryOf(k)' => req'[q].key = k
                    /\ \A x \in Proc : ent'[x] = ent'[q] => req'[x].key = req'[q].key
  BY DEF OwnRule
<1>1. /\ req'[q] = req[q]
      /\ ent'[q] = ent[q] \/ (req[q].key \in Key /\ ent'[q] = EntryOf(req[q].key))
  BY HeldBy DEF Moves, HInv, IInv
<1>2. \A k \in Key : ent[q] # NoEntry /\ ent[q] = EntryOf(k) => req[q].key = k
  BY DEF HInv, KeyRule, OwnRule
<1>3. ent'[q] \notin Unreachable
  BY <1>1, FreshApart DEF HInv, InTables
<1>4. ASSUME NEW k \in Key, ent'[q] = EntryOf(k)' PROVE req'[q].key = k
  <2>1. ent'[q] = EntryOf(k)
    BY <1>3, <1>4, EntryMoves DEF Moves, HInv
  <2>2. CASE ent'[q] = ent[q]
    BY <1>1, <1>2, <2>1, <2>2
  <2>3. CASE req[q].key \in Key /\ ent'[q] = EntryOf(req[q].key)
    BY <1>1, <2>1, <2>3, EntriesApart DEF HInv
  <2> QED
    BY <1>1, <2>2, <2>3
<1>5. ASSUME NEW x \in Proc, ent'[x] = ent'[q] PROVE req'[x].key = req'[q].key
  <2>1. /\ req'[x] = req[x]
        /\ ent'[x] = ent[x] \/ (req[x].key \in Key /\ ent'[x] = EntryOf(req[x].key))
    BY <1>5, HeldBy DEF Moves, HInv, IInv
  <2>2. \A k \in Key : ent[x] # NoEntry /\ ent[x] = EntryOf(k) => req[x].key = k
    BY DEF HInv, KeyRule, OwnRule
  <2>3. CASE ent'[q] = ent[q] /\ ent'[x] = ent[x]
    BY <1>1, <1>5, <2>1, <2>3 DEF HInv, KeyRule, OwnRule
  <2>4. CASE req[q].key \in Key /\ ent'[q] = EntryOf(req[q].key) /\ ent'[x] = ent[x]
    BY <1>1, <1>5, <2>1, <2>2, <2>4
  <2>5. CASE ent'[q] = ent[q] /\ req[x].key \in Key /\ ent'[x] = EntryOf(req[x].key)
    BY <1>1, <1>2, <1>5, <2>1, <2>5
  <2>6. CASE /\ req[q].key \in Key /\ ent'[q] = EntryOf(req[q].key)
             /\ req[x].key \in Key /\ ent'[x] = EntryOf(req[x].key)
    BY <1>1, <1>5, <2>1, <2>6, EntriesApart DEF HInv
  <2> QED
    BY <1>1, <2>1, <2>3, <2>4, <2>5, <2>6
<1> QED
  BY <1>4, <1>5

LEMMA KeyOf ==
  ASSUME HInv, NEW q \in Proc, Working(q)
  PROVE  /\ req[q].key \in Key /\ ent[q] \in Entry /\ ent[q] # NoEntry
         /\ ent[q] \notin Unreachable
         /\ req[q] \in Asks /\ req[q].kind # "Range"
<1>1. pc[q] # "idle" /\ req[q].kind # "Range" /\ ent[q] \in Entry
  BY DEF Working, HInv, IInv, Good, ProcOK, WorkOK, KeyRule, CallRule
<1>2. req[q].key \in Key /\ req[q] \in Asks
  BY <1>1 DEF HInv, IInv, Good, ProcOK, WorkOK, Asks, Request
<1> QED
  BY <1>1, <1>2, SyncMapAssumption DEF Unreachable

\* The other processes' rules that a step of p leaves intact.
LEMMA OtherCalls ==
  ASSUME HInv, NEW p \in Proc, Moves(p), NEW q \in Proc, q # p
  PROVE  CallRule(q)' /\ SeenRule(q)'
<1>1. /\ pc'[q] = pc[q] /\ req'[q] = req[q] /\ ent'[q] = ent[q] /\ seen'[q] = seen[q]
      /\ todo'[q] = todo[q] /\ snap'[q] = snap[q]
  BY DEF Moves, Others, OthersSame
<1>2. CallRule(q) /\ SeenRule(q) /\ MuRule(q)
  BY DEF HInv, IInv, KeyRule
<1>3. SeenRule(q)'
  BY <1>1, <1>2 DEF SeenRule
<1>4. CASE mu' = mu /\ tables' = tables /\ PtrSame
  <2>1. readM' = readM /\ dirtyM' = dirtyM
    BY <1>4 DEF tables
  <2>2. Working(q) => ptr'[ent[q]] = Expunged <=> ptr[ent[q]] = Expunged
    BY <1>4, KeyOf DEF PtrSame
  <2>3. CallRule(q)'
    BY <1>1, <1>2, <1>4, <2>1, <2>2 DEF CallRule, Working, EntryOf
  <2> QED
    BY <1>3, <2>3
<1>5. CASE mu \in {Free, p} /\ mu' \in {Free, p}
  <2>1. mu # q /\ mu' # q
    BY <1>5, SyncMapAssumption
  <2>2. pc[q] \notin {"copy", "insert", "swap"}
    BY <1>2, <2>1 DEF MuRule
  <2>3. CallRule(q)'
    BY <1>1, <1>2, <2>1, <2>2 DEF CallRule, Working
  <2> QED
    BY <1>3, <2>3
<1> QED
  BY <1>4, <1>5 DEF Moves, OnlyBy

LEMMA OtherDirtyOnly ==
  ASSUME HInv, NEW p \in Proc, Moves(p), NEW q \in Proc, q # p
  PROVE  DirtyOnlyRule(q)'
<1>1. /\ pc'[q] = pc[q] /\ req'[q] = req[q] /\ ent'[q] = ent[q]
  BY DEF Moves, Others, OthersSame
<1> DEFINE k == req[q].key
<1> SUFFICES ASSUME Working(q), readM'[k] = NoEntry, dirtyM'[k] = ent[q], mu' # q
             PROVE  req[q].kind \in {"Load", "CompareAndDelete"}
  BY <1>1 DEF DirtyOnlyRule, Working
<1>2. k \in Key /\ ent[q] # NoEntry /\ ent[q] \notin Unreachable
  BY KeyOf
<1>3. Keep(k)
  BY <1>2 DEF Moves, TableMove, Drop, Fresh, Removed
<1>4. readM[k] = NoEntry /\ dirtyM[k] = ent[q]
  BY <1>3 DEF Keep
<1>5. mu # q
  BY SyncMapAssumption DEF Moves, OnlyBy
<1> QED
  BY <1>4, <1>5 DEF HInv, KeyRule, DirtyOnlyRule

\* The one LoadAndDelete that took an entry out of the tables stays with it
\* as long as it holds a value.
LEMMA OtherOrphans ==
  ASSUME HInv, NEW p \in Proc, Moves(p), NEW q \in Proc, q # p
  PROVE  OrphanRule(q)'
<1>1. /\ pc'[q] = pc[q] /\ req'[q] = req[q] /\ ent'[q] = ent[q]
  BY DEF Moves, Others, OthersSame
<1> DEFINE k == req[q].key
           e == ent[q]
<1> SUFFICES ASSUME pc[q] \in {"peek", "cas"}, e # EntryOf(k)'
             PROVE  /\ ~InTables(e)'
                    /\ ptr'[e] # Expunged => req[q].kind \in Loners
                    /\ Live(ptr'[e]) => \E d \in Proc : \A x \in Proc :
                         ent'[x] = e /\ req'[x].kind = "LoadAndDelete" <=> x = d
  BY <1>1 DEF OrphanRule, Orphan
<1>2. k \in Key /\ e \in Entry /\ e # NoEntry /\ e \notin Unreachable
  BY KeyOf DEF Working
<1>3. PtrMove(p, e) /\ TableMove(p, k)
  BY <1>2 DEF Moves
<1>4. \A j \in Key : EntryOf(j)' = e => EntryOf(j) = e
  BY <1>2, EntryMoves DEF Moves, HInv
<1>5. \A j \in Key : EntryOf(j) = e => j = k
  BY <1>2 DEF HInv, KeyRule, OwnRule
<1>6. ~InTables(e)'
  BY <1>1, <1>4, <1>5 DEF InTables
<1>7. CASE Orphan(q)
  <2>1. OrphanRule(q) /\ ~InTables(e)
    BY <1>7 DEF HInv, KeyRule, OrphanRule
  <2>2. ptr[e] = Expunged => ptr'[e] = Expunged
    BY <1>2, <1>3, <2>1 DEF PtrMove
  <2>3. ASSUME Live(ptr'[e])
        PROVE  \E d \in Proc : \A x \in Proc :
                 ent'[x] = e /\ req'[x].kind = "LoadAndDelete" <=> x = d
    <3>1. CASE ptr'[e] = ptr[e]
      <4>1. PICK d \in Proc : \A x \in Proc :
                 ent[x] = e /\ req[x].kind = "LoadAndDelete" <=> x = d
        BY <1>7, <2>1, <2>3, <3>1 DEF OrphanRule
      <4>2. \A x \in Proc : ent'[x] = e => ent[x] = e /\ req'[x] = req[x]
        BY <1>2, <2>1, HeldBy DEF InTables, Moves, HInv, IInv
      <4>3. ent[d] = e /\ req[d].kind = "LoadAndDelete"
        BY <4>1
      <4>4. ent'[d] = e /\ req'[d] = req[d]
        <5>1. CASE d # p
          BY <4>3, <5>1 DEF Moves, Others, OthersSame
        <5>2. CASE d = p
          <6>1. Working(p) /\ req[p].key = k
            BY <1>2, <4>3, <5>2 DEF HInv, KeyRule, CallRule, OwnRule
          <6>2. Orphan(p)
            BY <1>2, <2>1, <4>3, <5>2, <6>1 DEF Orphan, InTables, Working, HInv, KeyRule, CallRule
          <6>3. ent'[p] = ent[p]
            BY <1>2, <2>3, <4>3, <5>2, <6>2 DEF Moves, Leaves
          <6> QED
            BY <1>2, <4>3, <5>2, <6>3 DEF Moves, EntMove
        <5> QED
          BY <5>1, <5>2
      <4> QED
        BY <4>1, <4>2, <4>4
    <3>2. CASE ptr'[e] # ptr[e]
      <4>1. e = ent[p] /\ pc[p] \in {"cas", "swap"} /\ ptr[e] # Expunged /\ ptr'[e] = Swapped(p)
        BY <1>2, <1>3, <2>1, <3>2 DEF PtrMove
      <4>2. Working(p) /\ req[p].key = k
        BY <1>2, <4>1 DEF Working, HInv, KeyRule, OwnRule
      <4>3. pc[p] = "cas"
        BY <1>2, <2>1, <4>1, <4>2 DEF InTables, HInv, IInv, MuRule, KeyRule, CallRule
      <4>4. Orphan(p)
        BY <1>2, <2>1, <4>1, <4>2, <4>3 DEF Orphan, InTables
      <4>5. req[p].kind \in Loners /\ req[p].kind # "Load"
        BY <4>1, <4>3, <4>4 DEF HInv, KeyRule, OrphanRule, SeenRule
      <4> QED
        BY <2>3, <4>1, <4>5 DEF Swapped, Deletes, Loners, Live
    <3> QED
      BY <3>1, <3>2
  <2> QED
    BY <1>6, <1>7, <2>1, <2>2, <2>3 DEF OrphanRule
<1>8. CASE ~Orphan(q)
  <2>1. e = EntryOf(k)
    BY <1>8 DEF Orphan
  <2>2. CASE Drop(k)
    <3>1. ptr'[e] = Expunged
      BY <2>1, <2>2 DEF Drop, EntryOf
    <3> QED
      BY <1>6, <3>1 DEF Live
  <2>3. CASE Removed(p, k)
    <3>1. /\ ptr' = ptr /\ readM[k] = NoEntry /\ dirtyM[k] = e /\ mu = Free
          /\ ent'[p] = e /\ req[p].kind = "LoadAndDelete" /\ req'[p] = req[p]
          /\ k = req[p].key
      BY <1>2, <2>1, <2>3, HeldBy DEF Removed, EntryOf, Moves, HInv, IInv
    <3>2. req[q].kind \in {"Load", "CompareAndDelete"}
      BY <3>1, SyncMapAssumption DEF HInv, KeyRule, DirtyOnlyRule, Working
    <3>3. ASSUME NEW x \in Proc, ent'[x] = e, req'[x].kind = "LoadAndDelete" PROVE x = p
      <4> SUFFICES ASSUME x # p PROVE FALSE
        OBVIOUS
      <4>1. ent[x] = e /\ req[x].kind = "LoadAndDelete"
        BY <3>3 DEF Moves, Others, OthersSame
      <4>2. Working(x) /\ req[x].key = k
        BY <1>2, <4>1 DEF HInv, KeyRule, CallRule, OwnRule
      <4> QED
        BY <3>1, <4>1, <4>2, SyncMapAssumption DEF HInv, KeyRule, DirtyOnlyRule
    <3>4. \A x \in Proc : ent'[x] = e /\ req'[x].kind = "LoadAndDelete" <=> x = p
      BY <3>1, <3>3
    <3> QED
      BY <1>6, <3>2, <3>4 DEF Loners
  <2>4. ~Keep(k) /\ ~Fresh(p, k)
    BY <1>1, <1>2, <1>3, <2>1, EntryMoves DEF HInv, Fresh
  <2> QED
    BY <1>3, <2>2, <2>3, <2>4 DEF TableMove
<1> QED
  BY <1>7, <1>8

-----------------------------------------------------------------------------
\* The ways a step moves the tables and the entries.
LEMMA StillTables ==
  ASSUME HInv, UNCHANGED tables, NEW k \in Key
  PROVE  Keep(k)
BY Entries DEF Keep, tables, HInv

LEMMA StillAmend ==
  ASSUME HInv, UNCHANGED tables
  PROVE  AmendRule'
BY DEF HInv, AmendRule, tables

LEMMA PromoteMove ==
  ASSUME HInv, NEW d \in Table, Promote(d), PtrSame, hasDirty, \A j \in Key : ~Copying(j),
         NEW k \in Key, d[k] = dirtyM[k]
  PROVE  Keep(k) \/ Drop(k)
<1>1. readM' = d /\ dirtyM'[k] = NoEntry
  BY DEF Promote, EmptyTable
<1>2. readM[k] \in Slot /\ EntryOf(k) \in Slot
  BY Entries DEF HInv, IInv, Good, TablesOK, Table
<1>3. CASE dirtyM[k] # NoEntry
  <2>1. EntryOf(k) = dirtyM[k]
    BY <1>3, Entries DEF HInv
  <2> QED
    BY <1>1, <1>3, <2>1 DEF Keep
<1>4. CASE dirtyM[k] = NoEntry /\ readM[k] = NoEntry
  BY <1>1, <1>4 DEF Keep, EntryOf
<1>5. CASE dirtyM[k] = NoEntry /\ readM[k] # NoEntry
  <2>1. ptr[readM[k]] = Expunged
    BY <1>5 DEF HInv, IInv, TablesRule, EntryRule
  <2>2. readM[k] \in Entry
    BY <1>2, <1>5 DEF Slot
  <2> QED
    BY <1>1, <1>5, <2>1, <2>2 DEF Drop, PtrSame
<1> QED
  BY <1>3, <1>4, <1>5

LEMMA MissMove ==
  ASSUME HInv, NEW d \in Table, Miss(d), PtrSame, hasDirty, \A j \in Key : ~Copying(j),
         NEW k \in Key, d[k] = dirtyM[k]
  PROVE  Keep(k) \/ Drop(k)
<1>1. CASE Promote(d)
  BY <1>1, PromoteMove
<1>2. CASE dirtyM' = d /\ UNCHANGED <<readM, amended, hasDirty>>
  BY <1>2, Entries DEF Keep, HInv
<1> QED
  BY <1>1, <1>2 DEF Miss

LEMMA PromoteAmend == ASSUME NEW d, Promote(d) PROVE AmendRule'
BY DEF Promote, AmendRule, EmptyTable

LEMMA MissAmend ==
  ASSUME HInv, NEW d \in Table, Miss(d), \A k \in Key : d[k] \in {dirtyM[k], NoEntry}
  PROVE  AmendRule'
<1>1. CASE Promote(d)
  BY <1>1, PromoteAmend
<1>2. CASE dirtyM' = d /\ UNCHANGED <<readM, amended, hasDirty>>
  BY <1>2 DEF HInv, AmendRule
<1> QED
  BY <1>1, <1>2 DEF Miss

LEMMA ReleaseMove ==
  ASSUME HInv, NEW p \in Proc, pc[p] \in {"peek", "cas"}, Release(p), PtrSame
  PROVE  AmendRule' /\ \A k \in Key : Keep(k) \/ Drop(k)
<1>1. dirtyM \in Table
  BY DEF HInv, IInv, Good, TablesOK
<1>2. CASE UNCHANGED tables
  BY <1>2, StillTables, StillAmend
<1>3. CASE mu = p /\ readM[req[p].key] = NoEntry /\ Miss(dirtyM)
  <2>1. ent[p] = EntryOf(req[p].key) /\ req[p].key \in Key /\ ent[p] # NoEntry
    BY <1>3, KeyOf DEF Working, HInv, KeyRule, CallRule
  <2>2. hasDirty
    BY <1>3, <2>1 DEF HInv, IInv, TablesRule, NoDirty, EntryOf
  <2>3. \A j \in Key : ~Copying(j)
    BY <1>3 DEF Copying, HInv, IInv, MuRule
  <2>4. \A k \in Key : Keep(k) \/ Drop(k)
    BY <1>1, <1>3, <2>2, <2>3, MissMove
  <2> QED
    BY <1>1, <1>3, <2>4, MissAmend
<1> QED
  BY <1>2, <1>3 DEF Release

\* A process between calls, or not working on an entry.
LEMMA RestRules ==
  ASSUME NEW p \in Proc, pc'[p] \in {"idle", "read", "lock", "done"}, ent'[p] = NoEntry,
         snap'[p] = EmptyTable, pc'[p] = "idle" => req'[p] = NoRequest
  PROVE  CallRule(p)' /\ SeenRule(p)' /\ DirtyOnlyRule(p)' /\ OrphanRule(p)'
<1>1. CallRule(p)'
  BY DEF CallRule, Working, NoRequest
<1>2. SeenRule(p)' /\ DirtyOnlyRule(p)' /\ OrphanRule(p)'
  BY DEF SeenRule, DirtyOnlyRule, OrphanRule, Working, Orphan
<1> QED
  BY <1>1, <1>2

\* What a step of p shows, for the rules to hold after it.
Proper(p) == /\ Moves(p) /\ SnapRule(p)' 
             /\ CallRule(p)' /\ SeenRule(p)' /\ DirtyOnlyRule(p)' /\ OrphanRule(p)'

LEMMA ProperKeeps ==
  ASSUME HInv, IInv', NEW p \in Proc, Proper(p)
  PROVE  HInv'
<1>1. ASSUME NEW q \in Proc PROVE KeyRule(q)'
  <2>1. OwnRule(q)'
    BY OwnMoves DEF Proper
  <2>2. CASE q = p
    BY <2>1, <2>2 DEF KeyRule, Proper
  <2>3. CASE q # p
    <3>1. snap'[q] = snap[q]
      BY <2>3 DEF Proper, Moves, Others
    <3> QED
      BY <2>1, <2>3, <3>1, SnapMoves, OtherCalls, OtherDirtyOnly, OtherOrphans DEF KeyRule, Proper
  <2> QED
    BY <2>2, <2>3
<1> QED
  BY <1>1 DEF HInv, Proper, Moves

-----------------------------------------------------------------------------
LEMMA LookProper == ASSUME HInv, NEW p \in Proc, Look(p) PROVE Proper(p)
<1> DEFINE k == req[p].key
<1>1. /\ UNCHANGED tables /\ mu' = mu /\ ptr' = ptr /\ pc[p] = "read" /\ req' = req
      /\ snap' = snap /\ req[p].kind # "Range" /\ Others(p)
  BY DEF Look, Goto, Hold, Answer, Others, OthersSame, slot, walk, HInv, IInv, Good, ProcOK,
         CallsOK, SlotsOK, WalksOK
<1>2. k \in Key /\ ent[p] = NoEntry /\ snap[p] = EmptyTable /\ mu # p
  <2>1. k \in Key
    BY <1>1, SlotOfKey DEF HInv, IInv, Good
  <2> QED
    BY <1>1, <2>1 DEF HInv, IInv, MuRule, KeyRule, CallRule, Working
<1>3. \/ pc'[p] = "peek" /\ ent'[p] = readM[k] /\ readM[k] # NoEntry
      \/ pc'[p] \in {"lock", "done"} /\ ent'[p] = NoEntry
  BY <1>1, <1>2 DEF Look, Goto, Hold, Answer, slot, HInv, IInv, Good, ProcOK, CallsOK, SlotsOK
<1>4. EntMove(p) /\ Leaves(p)
  BY <1>1, <1>2, <1>3 DEF EntMove, Leaves, EntryOf
<1>5. OnlyBy(p)
  BY <1>1 DEF OnlyBy, PtrSame
<1>6. Moves(p)
  BY <1>1, <1>4, <1>5, StillTables, StillAmend DEF Moves, TableMove, PtrMove
<1>7. SnapRule(p)'
  BY <1>1, <1>6, SnapMoves
<1>8. CASE pc'[p] \in {"lock", "done"} /\ ent'[p] = NoEntry
  <2>1. snap'[p] = EmptyTable
    BY <1>1, <1>2
  <2> QED
    BY <1>6, <1>7, <1>8, <2>1, RestRules DEF Proper
<1>9. CASE pc'[p] = "peek" /\ ent'[p] = readM[k] /\ readM[k] # NoEntry
  <2>1. CallRule(p)' /\ SeenRule(p)'
    BY <1>1, <1>2, <1>9 DEF CallRule, SeenRule, Working
  <2>2. DirtyOnlyRule(p)' /\ OrphanRule(p)'
    BY <1>1, <1>9 DEF DirtyOnlyRule, OrphanRule, Orphan, EntryOf, tables
  <2> QED
    BY <1>6, <1>7, <2>1, <2>2 DEF Proper
<1> QED
  BY <1>3, <1>8, <1>9

LEMMA PeekProper == ASSUME HInv, NEW p \in Proc, Peek(p) PROVE Proper(p)
<1> DEFINE v == ptr[ent[p]]
<1>1. /\ ptr' = ptr /\ pc[p] = "peek" /\ req' = req /\ snap' = snap /\ Others(p) /\ PtrSame
  BY DEF Peek, Goto, Hold, Answer, Others, OthersSame, walk, HInv, IInv, Good, ProcOK,
         CallsOK, SlotsOK, WalksOK, PtrSame
<1>2. Working(p) /\ snap[p] = EmptyTable
  BY <1>1 DEF Working, HInv, KeyRule, CallRule
<1>3. \A e \in Entry : PtrMove(p, e)
  BY <1>1 DEF PtrMove
<1>4. CASE /\ v = Expunged /\ req[p].kind \in Writers /\ mu # p
           /\ Goto(p, "lock") /\ Hold(p, NoEntry) /\ UNCHANGED <<mu, tables>>
  <2>1. pc'[p] = "lock" /\ ent'[p] = NoEntry
    BY <1>4 DEF Goto, Hold, HInv, IInv, Good, ProcOK, CallsOK, SlotsOK
  <2>2. EntMove(p) /\ Leaves(p) /\ OnlyBy(p)
    BY <1>1, <1>4, <2>1 DEF EntMove, Leaves, OnlyBy
  <2>3. Moves(p)
    BY <1>1, <1>3, <1>4, <2>2, StillTables, StillAmend DEF Moves, TableMove
  <2>4. SnapRule(p)' /\ snap'[p] = EmptyTable
    BY <1>1, <1>2, <2>3, SnapMoves
  <2> QED
    BY <2>1, <2>3, <2>4, RestRules DEF Proper
<1>5. CASE Decided(p, v) /\ Answer(p, AnswerOf(p, v)) /\ Release(p)
  <2>1. pc'[p] = "done" /\ ent'[p] = NoEntry
    BY <1>5 DEF Answer, HInv, IInv, Good, ProcOK, CallsOK, SlotsOK
  <2>2. EntMove(p) /\ Leaves(p)
    BY <1>1, <1>5, <2>1 DEF EntMove, Leaves, Decided
  <2>3. OnlyBy(p)
    <3>1. CopySame
      BY <1>1, CopiesKept DEF Others
    <3> QED
      BY <1>1, <1>5, <3>1, ReleaseRule DEF HInv, IInv
  <2>4. AmendRule' /\ \A k \in Key : Keep(k) \/ Drop(k)
    BY <1>1, <1>5, ReleaseMove
  <2>5. Moves(p)
    BY <1>1, <1>3, <2>2, <2>3, <2>4 DEF Moves, TableMove
  <2>6. SnapRule(p)' /\ snap'[p] = EmptyTable
    BY <1>1, <1>2, <2>5, SnapMoves
  <2> QED
    BY <2>1, <2>5, <2>6, RestRules DEF Proper
<1>6. CASE /\ ~Decided(p, v)
           /\ Goto(p, "cas") /\ seen' = [seen EXCEPT ![p] = v]
           /\ UNCHANGED <<ent, mu, tables>>
  <2>1. pc'[p] = "cas" /\ ent'[p] = ent[p] /\ seen'[p] = v
    BY <1>6 DEF Goto, HInv, IInv, Good, ProcOK, CallsOK, SlotsOK
  <2>2. EntMove(p) /\ Leaves(p) /\ OnlyBy(p)
    BY <1>1, <1>6, <2>1 DEF EntMove, Leaves, OnlyBy
  <2>3. Moves(p)
    BY <1>1, <1>3, <1>6, <2>2, StillTables, StillAmend DEF Moves, TableMove
  <2>4. SnapRule(p)'
    BY <1>1, <2>3, SnapMoves
  <2>5. /\ CallRule(p) /\ DirtyOnlyRule(p) /\ OrphanRule(p)
        /\ readM' = readM /\ dirtyM' = dirtyM
    BY <1>6 DEF HInv, KeyRule, tables
  <2>6. CallRule(p)'
    BY <1>1, <1>6, <2>1, <2>5 DEF CallRule, Working, EntryOf
  <2>7. SeenRule(p)'
    BY <1>1, <1>6, <2>1 DEF SeenRule, Decided
  <2>8. DirtyOnlyRule(p)'
    BY <1>1, <1>6, <2>1, <2>5 DEF DirtyOnlyRule, Working
  <2>9. OrphanRule(p)'
    <3>1. \A x \in Proc : ent'[x] = ent[x]
      BY <1>6
    <3> QED
      BY <1>1, <2>1, <2>5, <3>1 DEF OrphanRule, Orphan, EntryOf, InTables
  <2> QED
    BY <2>3, <2>4, <2>6, <2>7, <2>8, <2>9 DEF Proper
<1> QED
  BY <1>4, <1>5, <1>6 DEF Peek

-----------------------------------------------------------------------------
LEMMA CasProper == ASSUME HInv, NEW p \in Proc, Cas(p) PROVE Proper(p)
<1>1. /\ pc[p] = "cas" /\ req' = req /\ snap' = snap /\ Others(p)
  BY DEF Cas, Goto, Answer, Others, OthersSame, walk, HInv, IInv, Good, ProcOK,
         CallsOK, SlotsOK, WalksOK
<1>2. Working(p) /\ snap[p] = EmptyTable /\ ent[p] \in Entry
  BY <1>1, KeyOf DEF Working, HInv, KeyRule, CallRule
<1>3. CASE /\ ptr[ent[p]] = seen[p]
           /\ ptr' = [ptr EXCEPT ![ent[p]] = Swapped(p)]
           /\ Answer(p, SwappedAnswer(p)) /\ Release(p)
  <2>1. pc'[p] = "done" /\ ent'[p] = NoEntry
    BY <1>3 DEF Answer, HInv, IInv, Good, ProcOK, CallsOK, SlotsOK
  <2>2. seen[p] # Expunged /\ Swapped(p) # Expunged
    BY <1>1, SyncMapAssumption DEF HInv, IInv, MuRule, Swapped
  <2>3. ptr'[ent[p]] = Swapped(p) /\ \A e \in Entry \ {ent[p]} : ptr'[e] = ptr[e]
    BY <1>2, <1>3 DEF HInv, IInv, Good, PtrOK
  <2>4. PtrSame /\ \A e \in Entry : PtrMove(p, e)
    BY <1>1, <1>3, <2>1, <2>2, <2>3 DEF PtrSame, PtrMove
  <2>5. EntMove(p) /\ Leaves(p)
    BY <1>1, <2>1, <2>3 DEF EntMove, Leaves, Swapped, Deletes, Live
  <2>6. OnlyBy(p)
    <3>1. CopySame
      BY <1>1, CopiesKept DEF Others
    <3> QED
      BY <1>1, <1>3, <2>4, <3>1, ReleaseRule DEF HInv, IInv
  <2>7. AmendRule' /\ \A k \in Key : Keep(k) \/ Drop(k)
    BY <1>1, <1>3, <2>4, ReleaseMove
  <2>8. Moves(p)
    BY <1>1, <2>4, <2>5, <2>6, <2>7 DEF Moves, TableMove
  <2>9. SnapRule(p)' /\ snap'[p] = EmptyTable
    BY <1>1, <1>2, <2>8, SnapMoves
  <2> QED
    BY <2>1, <2>8, <2>9, RestRules DEF Proper
<1>4. CASE /\ Goto(p, "peek") /\ seen' = [seen EXCEPT ![p] = Nil]
           /\ UNCHANGED <<ptr, ent, mu, tables>>
  <2>1. pc'[p] = "peek" /\ ent'[p] = ent[p]
    BY <1>4 DEF Goto, HInv, IInv, Good, ProcOK, CallsOK, SlotsOK
  <2>2. EntMove(p) /\ Leaves(p) /\ OnlyBy(p) /\ \A e \in Entry : PtrMove(p, e)
    BY <1>1, <1>4, <2>1 DEF EntMove, Leaves, OnlyBy, PtrMove, PtrSame
  <2>3. Moves(p)
    BY <1>1, <1>4, <2>2, StillTables, StillAmend DEF Moves, TableMove
  <2>4. SnapRule(p)'
    BY <1>1, <2>3, SnapMoves
  <2>5. /\ CallRule(p) /\ DirtyOnlyRule(p) /\ OrphanRule(p)
        /\ readM' = readM /\ dirtyM' = dirtyM
    BY <1>4 DEF HInv, KeyRule, tables
  <2>6. CallRule(p)'
    BY <1>1, <1>4, <2>1, <2>5 DEF CallRule, Working, EntryOf
  <2>7. SeenRule(p)' /\ DirtyOnlyRule(p)'
    BY <1>1, <1>4, <2>1, <2>5 DEF SeenRule, DirtyOnlyRule, Working
  <2>8. OrphanRule(p)'
    <3>1. \A x \in Proc : ent'[x] = ent[x]
      BY <1>4
    <3> QED
      BY <1>1, <1>4, <2>1, <2>5, <3>1 DEF OrphanRule, Orphan, EntryOf, InTables
  <2> QED
    BY <2>3, <2>4, <2>6, <2>7, <2>8 DEF Proper
<1> QED
  BY <1>3, <1>4 DEF Cas

LEMMA LookLockedProper == ASSUME HInv, NEW p \in Proc, LookLocked(p) PROVE Proper(p)
<1> DEFINE k == req[p].key
           taken == IF req[p].kind = "LoadAndDelete"
                    THEN [dirtyM EXCEPT ![k] = NoEntry] ELSE dirtyM
<1>1. /\ mu = Free /\ mu' = mu /\ ptr' = ptr /\ pc[p] = "lock" /\ req' = req
      /\ snap' = snap /\ req[p].kind \in Loners /\ Others(p) /\ PtrSame
  BY DEF LookLocked, Goto, Hold, Answer, Others, OthersSame, walk, HInv, IInv, Good, ProcOK,
         CallsOK, SlotsOK, WalksOK, Loners, PtrSame
<1>2. /\ k \in Key /\ ent[p] = NoEntry /\ snap[p] = EmptyTable /\ mu # p
      /\ readM[k] \in Slot /\ dirtyM[k] \in Slot
  <2>1. k \in Key /\ readM[k] \in Slot /\ dirtyM[k] \in Slot
    BY <1>1, SlotOfKey DEF HInv, IInv, Good, Loners
  <2> QED
    BY <1>1, <2>1, SyncMapAssumption DEF HInv, KeyRule, CallRule, Working
<1>3. OnlyBy(p) /\ \A e \in Entry : PtrMove(p, e)
  BY <1>1 DEF OnlyBy, PtrMove
\* What is left of each way to end: where p is, and whether it holds an entry.
<1>4. ASSUME Moves(p), pc'[p] = "done", ent'[p] = NoEntry PROVE Proper(p)
  <2>1. SnapRule(p)' /\ snap'[p] = EmptyTable
    BY <1>1, <1>2, <1>4, SnapMoves
  <2> QED
    BY <1>4, <2>1, RestRules DEF Proper
<1>5. ASSUME Moves(p), pc'[p] = "peek", ent'[p] # NoEntry,
             DirtyOnlyRule(p)', OrphanRule(p)'
      PROVE  Proper(p)
  <2>1. SnapRule(p)' /\ snap'[p] = EmptyTable
    BY <1>1, <1>2, <1>5, SnapMoves
  <2>2. CallRule(p)' /\ SeenRule(p)'
    BY <1>1, <1>2, <1>5, <2>1 DEF CallRule, SeenRule, Working, Loners
  <2> QED
    BY <1>5, <2>1, <2>2 DEF Proper
<1>6. CASE readM[k] # NoEntry /\ Goto(p, "peek") /\ Hold(p, readM[k]) /\ UNCHANGED tables
  <2>1. pc'[p] = "peek" /\ ent'[p] = readM[k] /\ ent'[p] = EntryOf(k) /\ readM' = readM
    BY <1>6 DEF Goto, Hold, HInv, IInv, Good, ProcOK, CallsOK, SlotsOK, EntryOf, tables
  <2>2. Moves(p)
    BY <1>1, <1>2, <1>3, <1>6, <2>1, StillTables, StillAmend
       DEF Moves, TableMove, EntMove, Leaves
  <2>3. DirtyOnlyRule(p)' /\ OrphanRule(p)'
    BY <1>1, <1>6, <2>1 DEF DirtyOnlyRule, OrphanRule, Orphan, EntryOf
  <2> QED
    BY <1>5, <1>6, <2>1, <2>2, <2>3
<1>7. CASE Answer(p, NoAnswer) /\ UNCHANGED tables
  <2>1. pc'[p] = "done" /\ ent'[p] = NoEntry
    BY <1>7 DEF Answer, HInv, IInv, Good, ProcOK, CallsOK, SlotsOK
  <2>2. Moves(p)
    BY <1>1, <1>2, <1>3, <1>7, <2>1, StillTables, StillAmend
       DEF Moves, TableMove, EntMove, Leaves
  <2> QED
    BY <1>4, <2>1, <2>2
<1>8. CASE /\ readM[k] = NoEntry /\ amended /\ Miss(taken)
           /\ IF dirtyM[k] # NoEntry THEN Goto(p, "peek") /\ Hold(p, dirtyM[k])
                                     ELSE Answer(p, NoAnswer)
  <2>1. taken \in Table /\ \A j \in Key : /\ taken[j] \in {dirtyM[j], NoEntry}
                                          /\ j # k => taken[j] = dirtyM[j]
    BY DEF HInv, IInv, Good, TablesOK, Table, Slot
  <2>2. req[p].kind = "LoadAndDelete" => taken[k] = NoEntry
    BY <1>2 DEF HInv, IInv, Good, TablesOK, Table
  <2>3. req[p].kind # "LoadAndDelete" => taken = dirtyM
    OBVIOUS
  <2> HIDE DEF taken
  <2>4. hasDirty /\ \A j \in Key : ~Copying(j)
    BY <1>1, <1>8, SyncMapAssumption DEF Copying, HInv, IInv, MuRule, TablesRule, NoDirty
  <2>5. AmendRule'
    BY <1>8, <2>1, MissAmend
  <2>6. \A j \in Key : j # k \/ taken[k] = dirtyM[k] => Keep(j) \/ Drop(j)
    BY <1>1, <1>8, <2>1, <2>4, MissMove
  <2>7. \/ dirtyM' = taken /\ readM' = readM
        \/ readM' = taken /\ dirtyM' = EmptyTable
    BY <1>8 DEF Miss, Promote
  <2>8. CASE dirtyM[k] = NoEntry
    <3>1. pc'[p] = "done" /\ ent'[p] = NoEntry
      BY <1>8, <2>8 DEF Answer, HInv, IInv, Good, ProcOK, CallsOK, SlotsOK
    <3>2. taken[k] = dirtyM[k]
      BY <1>2, <2>1, <2>8
    <3>3. Moves(p)
      BY <1>1, <1>2, <1>3, <2>5, <2>6, <3>1, <3>2 DEF Moves, TableMove, EntMove, Leaves
    <3> QED
      BY <1>4, <3>1, <3>3
  <2>9. CASE dirtyM[k] # NoEntry /\ req[p].kind # "LoadAndDelete"
    <3>1. pc'[p] = "peek" /\ ent'[p] = dirtyM[k] /\ ent'[p] = EntryOf(k)
      BY <1>8, <2>9 DEF Goto, Hold, HInv, IInv, Good, ProcOK, CallsOK, SlotsOK, EntryOf
    <3>2. Moves(p)
      BY <1>1, <1>2, <1>3, <2>3, <2>5, <2>6, <2>9, <3>1
         DEF Moves, TableMove, EntMove, Leaves
    <3>3. EntryOf(k)' = ent'[p]
      BY <1>1, <1>2, <1>8, <2>3, <2>7, <2>9, <3>1 DEF EntryOf, EmptyTable
    <3>4. DirtyOnlyRule(p)' /\ OrphanRule(p)'
      BY <1>1, <2>9, <3>1, <3>3 DEF DirtyOnlyRule, OrphanRule, Orphan, Loners
    <3> QED
      BY <1>5, <2>9, <3>1, <3>2, <3>4
  <2>10. CASE dirtyM[k] # NoEntry /\ req[p].kind = "LoadAndDelete"
    <3>1. pc'[p] = "peek" /\ ent'[p] = dirtyM[k] /\ ent'[p] = EntryOf(k)
      BY <1>8, <2>10 DEF Goto, Hold, HInv, IInv, Good, ProcOK, CallsOK, SlotsOK, EntryOf
    <3>2. readM'[k] = NoEntry /\ dirtyM'[k] = NoEntry
      BY <1>2, <1>8, <2>2, <2>7, <2>10 DEF EmptyTable
    <3>3. Removed(p, k)
      BY <1>1, <1>8, <2>10, <3>1, <3>2 DEF Removed
    <3>4. \A j \in Key : TableMove(p, j)
      BY <2>6, <3>3 DEF TableMove
    <3>5. Moves(p)
      BY <1>1, <1>2, <1>3, <2>5, <3>1, <3>4 DEF Moves, EntMove, Leaves
    <3>6. DirtyOnlyRule(p)'
      BY <1>1, <2>10, <3>1, <3>2 DEF DirtyOnlyRule
    <3>7. OrphanRule(p)'
      <4> DEFINE e == dirtyM[k]
      <4>1. ASSUME NEW x \in Proc, ent'[x] = e, req'[x].kind = "LoadAndDelete" PROVE x = p
        <5> SUFFICES ASSUME x # p PROVE FALSE
          OBVIOUS
        <5>1. ent[x] = e /\ req[x].kind = "LoadAndDelete"
          BY <1>1, <4>1 DEF Others, OthersSame
        <5>2. Working(x) /\ req[x].key = k
          BY <1>2, <2>10, <3>1, <5>1 DEF HInv, KeyRule, CallRule, OwnRule
        <5> QED
          BY <1>1, <1>8, <5>1, <5>2, SyncMapAssumption DEF HInv, KeyRule, DirtyOnlyRule
      <4>2. \A x \in Proc : ent'[x] = e /\ req'[x].kind = "LoadAndDelete" <=> x = p
        BY <1>1, <2>10, <3>1, <4>1
      <4>3. ASSUME NEW j \in Key PROVE EntryOf(j)' # e
        <5>1. e \in Entry
          BY <1>2, <2>10 DEF Slot
        <5>2. e \notin Unreachable
          BY <1>2 DEF Unreachable
        <5>3. EntryOf(j)' = e => EntryOf(j) = e
          BY <2>10, <3>4, <5>2, EntryMoves DEF HInv
        <5>4. EntryOf(j) = e => j = k
          BY <1>2, <2>10, <3>1, EntriesApart DEF HInv
        <5>5. j = k => EntryOf(j)' = NoEntry
          BY <3>2 DEF EntryOf
        <5> QED
          BY <2>10, <5>3, <5>4, <5>5
      <4> QED
        BY <1>1, <3>1, <4>2, <4>3 DEF OrphanRule, InTables
    <3> QED
      BY <1>5, <2>10, <3>1, <3>5, <3>6, <3>7
  <2> QED
    BY <2>8, <2>9, <2>10
<1> QED
  BY <1>6, <1>7, <1>8 DEF LookLocked

LEMMA CompareLockedProper == ASSUME HInv, NEW p \in Proc, CompareLocked(p) PROVE Proper(p)
<1> DEFINE k == req[p].key
<1>1. /\ UNCHANGED tables /\ ptr' = ptr /\ pc[p] = "lock" /\ mu = Free /\ req' = req
      /\ snap' = snap /\ req[p].kind = "CompareAndSwap" /\ Others(p)
  BY DEF CompareLocked, Goto, Hold, Answer, Others, OthersSame, walk, HInv, IInv, Good, ProcOK,
         CallsOK, SlotsOK, WalksOK
<1>2. /\ k \in Key /\ ent[p] = NoEntry /\ snap[p] = EmptyTable
      /\ readM' = readM /\ dirtyM' = dirtyM
  <2>1. k \in Key
    BY <1>1, SlotOfKey DEF HInv, IInv, Good
  <2> QED
    BY <1>1, <2>1 DEF HInv, KeyRule, CallRule, Working, tables
<1>3. \/ pc'[p] = "peek" /\ ent'[p] = EntryOf(k) /\ EntryOf(k) # NoEntry /\ mu' = p
      \/ pc'[p] = "done" /\ ent'[p] = NoEntry /\ mu' = mu
  BY <1>1, <1>2 DEF CompareLocked, Goto, Hold, Answer, EntryOf, HInv, IInv, Good, ProcOK,
                    CallsOK, SlotsOK
<1>4. EntMove(p) /\ Leaves(p) /\ OnlyBy(p)
  BY <1>1, <1>2, <1>3 DEF EntMove, Leaves, OnlyBy, PtrSame
<1>5. Moves(p)
  BY <1>1, <1>4, StillTables, StillAmend DEF Moves, TableMove, PtrMove
<1>6. SnapRule(p)' /\ snap'[p] = EmptyTable
  BY <1>1, <1>2, <1>5, SnapMoves
<1>7. CASE pc'[p] = "done" /\ ent'[p] = NoEntry
  BY <1>5, <1>6, <1>7, RestRules DEF Proper
<1>8. CASE pc'[p] = "peek" /\ ent'[p] = EntryOf(k) /\ EntryOf(k) # NoEntry /\ mu' = p
  <2>1. CallRule(p)' /\ SeenRule(p)'
    BY <1>1, <1>2, <1>6, <1>8 DEF CallRule, SeenRule, Working, EntryOf
  <2>2. DirtyOnlyRule(p)' /\ OrphanRule(p)'
    BY <1>1, <1>2, <1>8 DEF DirtyOnlyRule, OrphanRule, Orphan, EntryOf
  <2> QED
    BY <1>5, <1>6, <2>1, <2>2 DEF Proper
<1> QED
  BY <1>3, <1>7, <1>8

LEMMA FoundLockedProper == ASSUME HInv, NEW p \in Proc, FoundLocked(p) PROVE Proper(p)
<1> DEFINE k == req[p].key
           e == EntryOf(k)
           l == IF req[p].kind = "Swap" THEN "swap" ELSE "peek"
<1>1. /\ pc[p] = "lock" /\ mu = Free /\ mu' = p /\ req' = req /\ snap' = snap
      /\ readM' = readM /\ amended' = amended /\ req[p].kind \in Writers /\ pc'[p] = l /\ Others(p)
  BY DEF FoundLocked, Goto, Hold, Others, OthersSame, walk, HInv, IInv, Good, ProcOK,
         CallsOK, SlotsOK, WalksOK
<1>2. /\ k \in Key /\ ent[p] = NoEntry /\ snap[p] = EmptyTable
      /\ readM[k] \in Slot /\ dirtyM[k] \in Slot
  <2>1. k \in Key /\ readM[k] \in Slot /\ dirtyM[k] \in Slot
    BY <1>1, SlotOfKey DEF HInv, IInv, Good
  <2> QED
    BY <1>1, <2>1 DEF HInv, KeyRule, CallRule, Working
<1>3. OnlyBy(p)
  BY <1>1 DEF OnlyBy
\* The tables keep every entry, and this one's pointer if it was expunged.
<1>4. /\ e \in Entry /\ e # NoEntry /\ ent'[p] = e
      /\ \A f \in Entry : PtrMove(p, f)
      /\ ptr'[e] # Expunged
      /\ \A j \in Key : Keep(j)
  <2>1. CASE readM[k] # NoEntry /\ Unexpunge(readM[k], k) /\ Hold(p, readM[k])
    <3>1. e = readM[k] /\ e \in Entry /\ ent'[p] = e
      BY <1>2, <2>1 DEF Hold, Slot, EntryOf, HInv, IInv, Good, ProcOK, SlotsOK
    <3>2. \/ UNCHANGED <<ptr, dirtyM>> /\ ptr[e] # Expunged
          \/ /\ ptr[e] = Expunged /\ ptr'[e] = Nil /\ \A f \in Entry \ {e} : ptr'[f] = ptr[f]
             /\ dirtyM'[k] = e /\ \A j \in Key \ {k} : dirtyM'[j] = dirtyM[j]
      BY <1>2, <2>1, <3>1 DEF Unexpunge, HInv, IInv, Good, PtrOK, TablesOK, Table
    <3>3. InTables(e)
      BY <1>2 DEF InTables
    <3>4. \A f \in Entry : PtrMove(p, f)
      BY <3>1, <3>2, <3>3 DEF PtrMove, Live
    <3>5. ptr'[e] # Expunged
      BY <3>2, SyncMapAssumption
    <3>6. \A j \in Key : Keep(j)
      BY <1>1, <2>1, <3>1, <3>2, Entries DEF Keep, HInv
    <3> QED
      BY <3>1, <3>4, <3>5, <3>6, SyncMapAssumption
  <2>2. CASE readM[k] = NoEntry /\ dirtyM[k] # NoEntry /\ Hold(p, dirtyM[k]) /\ UNCHANGED <<ptr, dirtyM>>
    <3>1. e = dirtyM[k] /\ e \in Entry /\ ent'[p] = e
      BY <1>2, <2>2 DEF Hold, Slot, EntryOf, HInv, IInv, Good, ProcOK, SlotsOK
    <3>2. ptr[e] # Expunged
      BY <1>2, <2>2, <3>1 DEF HInv, IInv, TablesRule, EntryRule
    <3>3. \A j \in Key : Keep(j)
      BY <1>1, <2>2, Entries DEF Keep, HInv
    <3> QED
      BY <2>2, <3>1, <3>2, <3>3, SyncMapAssumption DEF PtrMove
  <2> QED
    BY <2>1, <2>2 DEF FoundLocked
<1>5. AmendRule'
  <2>1. \A j \in Key : readM'[j] = NoEntry => dirtyM'[j] = dirtyM[j]
    BY <1>1, <1>4 DEF Keep
  <2> QED
    BY <1>1, <2>1 DEF HInv, AmendRule
<1>6. EntMove(p) /\ Leaves(p)
  BY <1>1, <1>2, <1>4 DEF EntMove, Leaves
<1>7. Moves(p)
  BY <1>1, <1>3, <1>4, <1>5, <1>6 DEF Moves, TableMove
<1>8. SnapRule(p)' /\ snap'[p] = EmptyTable
  BY <1>1, <1>2, <1>7, SnapMoves
<1>9. EntryOf(k)' = ent'[p] /\ ent'[p] # NoEntry
  <2>1. Keep(k)
    BY <1>2, <1>4
  <2>2. readM'[k] \in {e, NoEntry} /\ (readM'[k] = NoEntry => dirtyM'[k] = dirtyM[k] /\ readM[k] = NoEntry)
    BY <2>1 DEF Keep
  <2> QED
    BY <1>1, <1>4, <2>2 DEF EntryOf
<1>10. CallRule(p)' /\ SeenRule(p)'
  BY <1>1, <1>4, <1>8, <1>9, SyncMapAssumption DEF CallRule, SeenRule, Working
<1>11. DirtyOnlyRule(p)' /\ OrphanRule(p)'
  BY <1>1, <1>9 DEF DirtyOnlyRule, OrphanRule, Orphan
<1> QED
  BY <1>7, <1>8, <1>10, <1>11 DEF Proper

LEMMA AbsentLockedProper == ASSUME HInv, NEW p \in Proc, AbsentLocked(p) PROVE Proper(p)
<1>1. /\ pc[p] = "lock" /\ mu = Free /\ mu' = p /\ req' = req /\ snap' = snap /\ ptr' = ptr
      /\ readM' = readM /\ amended' = amended /\ dirtyM' = dirtyM /\ ent' = ent
      /\ req[p].kind \in Writers /\ Others(p) /\ pc'[p] \in {"copy", "insert"}
      /\ dirtyM[req[p].key] = NoEntry
  BY DEF AbsentLocked, Goto, Others, OthersSame, slot, HInv, IInv, Good, ProcOK,
         CallsOK, SlotsOK, WalksOK
<1>2. ent[p] = NoEntry /\ snap[p] = EmptyTable
  BY <1>1 DEF HInv, KeyRule, CallRule, Working
<1>3. EntMove(p) /\ Leaves(p) /\ OnlyBy(p) /\ \A e \in Entry : PtrMove(p, e)
  BY <1>1, <1>2 DEF EntMove, Leaves, OnlyBy, PtrMove
<1>4. AmendRule' /\ \A k \in Key : Keep(k)
  BY <1>1, Entries DEF HInv, AmendRule, Keep
<1>5. Moves(p)
  BY <1>1, <1>3, <1>4 DEF Moves, TableMove
<1>6. SnapRule(p)' /\ snap'[p] = EmptyTable
  BY <1>1, <1>2, <1>5, SnapMoves
<1>7. CallRule(p)' /\ SeenRule(p)' /\ DirtyOnlyRule(p)' /\ OrphanRule(p)'
  BY <1>1, <1>2, <1>6 DEF CallRule, SeenRule, DirtyOnlyRule, OrphanRule, Orphan, Working
<1> QED
  BY <1>5, <1>6, <1>7 DEF Proper

LEMMA CopyOneProper == ASSUME HInv, NEW p \in Proc, CopyOne(p) PROVE Proper(p)
<1> PICK k \in todo[p] :
      /\ IF Live(ptr[readM[k]])
         THEN dirtyM' = [dirtyM EXCEPT ![k] = readM[k]] /\ UNCHANGED ptr
         ELSE ptr' = [ptr EXCEPT ![readM[k]] = Expunged] /\ UNCHANGED dirtyM
      /\ todo' = [todo EXCEPT ![p] = @ \ {k}]
      /\ Goto(p, IF todo[p] = {k} THEN "insert" ELSE "copy")
  BY DEF CopyOne
<1> DEFINE e == readM[k]
<1>1. /\ pc[p] = "copy" /\ req' = req /\ snap' = snap /\ mu' = mu
      /\ readM' = readM /\ amended' = amended /\ ent' = ent
      /\ Others(p) /\ pc'[p] \in {"copy", "insert"} /\ k \in Key
  BY DEF CopyOne, Goto, Others, OthersSame, slot, HInv, IInv, Good, ProcOK,
         CallsOK, SlotsOK, WalksOK
<1>2. /\ ent[p] = NoEntry /\ snap[p] = EmptyTable /\ mu = p
      /\ req[p].kind \in Writers /\ dirtyM[req[p].key] = NoEntry
      /\ readM[req[p].key] = NoEntry /\ e # NoEntry /\ dirtyM[k] = NoEntry
  BY <1>1 DEF HInv, IInv, MuRule, KeyRule, CallRule, Working
<1>3. e \in Entry /\ e = EntryOf(k) /\ InTables(e)
  BY <1>1, <1>2 DEF EntryOf, InTables, HInv, IInv, Good, TablesOK, Table, Slot
<1>4. /\ \A j \in Key \ {k} : dirtyM'[j] = dirtyM[j]
      /\ \A f \in Entry \ {e} : ptr'[f] = ptr[f]
      /\ \/ ~Live(ptr[e]) /\ ptr'[e] = Expunged /\ dirtyM'[k] = NoEntry
         \/ ptr'[e] = ptr[e] /\ dirtyM'[k] = e
  <2>1. CASE Live(ptr[e])
    BY <1>1, <1>2, <2>1 DEF HInv, IInv, Good, TablesOK, Table
  <2>2. CASE ~Live(ptr[e])
    BY <1>1, <1>2, <1>3, <2>2 DEF HInv, IInv, Good, PtrOK
  <2> QED
    BY <2>1, <2>2
<1>5. EntMove(p) /\ Leaves(p) /\ OnlyBy(p)
  BY <1>1, <1>2 DEF EntMove, Leaves, OnlyBy
<1>6. \A f \in Entry : PtrMove(p, f)
  BY <1>3, <1>4 DEF PtrMove, Live
<1>7. \A j \in Key : Keep(j)
  BY <1>1, <1>2, <1>3, <1>4, Entries DEF HInv, Keep
<1>8. AmendRule'
  BY <1>1, <1>2, <1>4 DEF HInv, AmendRule
<1>9. Moves(p)
  BY <1>1, <1>5, <1>6, <1>7, <1>8 DEF Moves, TableMove
<1>10. SnapRule(p)' /\ snap'[p] = EmptyTable
  BY <1>1, <1>2, <1>9, SnapMoves
<1>11. dirtyM'[req[p].key] = NoEntry
  BY <1>1, <1>2, <1>3, <1>4, SlotOfKey DEF HInv, IInv, Good
<1>12. CallRule(p)' /\ SeenRule(p)' /\ DirtyOnlyRule(p)' /\ OrphanRule(p)'
  BY <1>1, <1>2, <1>10, <1>11 DEF CallRule, SeenRule, DirtyOnlyRule, OrphanRule, Orphan, Working
<1> QED
  BY <1>9, <1>10, <1>12 DEF Proper

LEMMA InsertProper == ASSUME HInv, NEW p \in Proc, Insert(p) PROVE Proper(p)
<1> DEFINE e == CHOOSE f \in Unreachable : TRUE
           k == req[p].key
<1>1. e \in Unreachable /\ pc[p] = "insert"
  BY DEF Insert
<1>2. /\ ptr' = [ptr EXCEPT ![e] = p] /\ dirtyM' = [dirtyM EXCEPT ![k] = e]
      /\ amended' = TRUE /\ mu' = Free /\ readM' = readM /\ snap' = snap /\ req' = req
      /\ pc'[p] = "done" /\ ent'[p] = NoEntry /\ Others(p)
  BY DEF Insert, Answer, Others, OthersSame, walk, HInv, IInv, Good, ProcOK,
         CallsOK, SlotsOK, WalksOK
<1> HIDE DEF e
<1>3. /\ ent[p] = NoEntry /\ snap[p] = EmptyTable /\ mu = p /\ k \in Key
      /\ dirtyM[k] = NoEntry /\ readM[k] = NoEntry
  <2>1. req[p].kind \in Writers
    BY <1>1 DEF HInv, KeyRule, CallRule
  <2>2. k \in Key
    BY <1>1, <2>1, SlotOfKey DEF HInv, IInv, Good
  <2> QED
    BY <1>1, <2>1, <2>2 DEF HInv, IInv, MuRule, KeyRule, CallRule, Working
<1>4. /\ \A j \in Key : j # k => dirtyM'[j] = dirtyM[j]
      /\ dirtyM'[k] = e
      /\ \A f \in Entry \ {e} : ptr'[f] = ptr[f]
  BY <1>2, <1>3 DEF HInv, IInv, Good, TablesOK, Table, PtrOK
<1>5. EntMove(p) /\ Leaves(p) /\ OnlyBy(p) /\ AmendRule'
  BY <1>2, <1>3 DEF EntMove, Leaves, OnlyBy, AmendRule
<1>6. \A f \in Entry : PtrMove(p, f)
  BY <1>1, <1>4 DEF PtrMove
<1>7. \A j \in Key : TableMove(p, j)
  <2>1. Fresh(p, k)
    BY <1>1, <1>2, <1>3, <1>4 DEF Fresh, EntryOf
  <2>2. \A j \in Key : j # k => Keep(j)
    BY <1>2, <1>4, Entries DEF Keep, HInv
  <2> QED
    BY <2>1, <2>2 DEF TableMove
<1>8. Moves(p)
  BY <1>2, <1>5, <1>6, <1>7 DEF Moves
<1>9. SnapRule(p)' /\ snap'[p] = EmptyTable
  BY <1>2, <1>3, <1>8, SnapMoves
<1> QED
  BY <1>2, <1>8, <1>9, RestRules DEF Proper

LEMMA SwapLockedProper == ASSUME HInv, NEW p \in Proc, SwapLocked(p) PROVE Proper(p)
<1>1. /\ pc[p] = "swap" /\ req' = req /\ snap' = snap /\ Others(p) /\ UNCHANGED tables /\ mu' = Free
      /\ ptr' = [ptr EXCEPT ![ent[p]] = p] /\ pc'[p] = "done" /\ ent'[p] = NoEntry
  BY DEF SwapLocked, Answer, Others, OthersSame, walk, HInv, IInv, Good, ProcOK,
         CallsOK, SlotsOK, WalksOK
<1>2. /\ Working(p) /\ snap[p] = EmptyTable /\ ent[p] \in Entry /\ mu = p
      /\ ptr[ent[p]] # Expunged /\ req[p].kind = "Swap"
  BY <1>1, KeyOf DEF Working, HInv, IInv, MuRule, KeyRule, CallRule
<1>3. ptr'[ent[p]] = p /\ Swapped(p) = p /\ \A f \in Entry \ {ent[p]} : ptr'[f] = ptr[f]
  BY <1>1, <1>2 DEF HInv, IInv, Good, PtrOK, Swapped, Deletes
<1>4. EntMove(p) /\ Leaves(p) /\ OnlyBy(p) /\ \A e \in Entry : PtrMove(p, e)
  BY <1>1, <1>2, <1>3 DEF EntMove, Leaves, OnlyBy, PtrMove
<1>5. Moves(p)
  BY <1>1, <1>4, StillTables, StillAmend DEF Moves, TableMove
<1>6. SnapRule(p)' /\ snap'[p] = EmptyTable
  BY <1>1, <1>2, <1>5, SnapMoves
<1> QED
  BY <1>1, <1>5, <1>6, RestRules DEF Proper

\* The steps of Range, and the ends of a call.
LEMMA QuietMoves ==
  ASSUME HInv, NEW p \in Proc, Others(p), UNCHANGED tables, ptr' = ptr, mu' = mu,
         ent[p] = NoEntry, ent'[p] = NoEntry
  PROVE  Moves(p)
<1>1. EntMove(p) /\ Leaves(p) /\ OnlyBy(p) /\ \A e \in Entry : PtrMove(p, e)
  BY DEF EntMove, Leaves, OnlyBy, PtrMove, PtrSame
<1> QED
  BY <1>1, StillTables, StillAmend DEF Moves, TableMove

LEMMA VisitRules ==
  ASSUME NEW p \in Proc, pc'[p] = "visit", ent'[p] = NoEntry, req'[p].kind = "Range"
  PROVE  CallRule(p)' /\ SeenRule(p)' /\ DirtyOnlyRule(p)' /\ OrphanRule(p)'
BY DEF CallRule, SeenRule, DirtyOnlyRule, OrphanRule, Orphan, Working

LEMMA RangeLookProper == ASSUME HInv, NEW p \in Proc, RangeLook(p) PROVE Proper(p)
<1>1. /\ pc[p] = "read" /\ req' = req /\ mu' = mu /\ ptr' = ptr /\ ent' = ent /\ UNCHANGED tables
      /\ Others(p) /\ req[p].kind = "Range"
  BY DEF RangeLook, StartVisits, Goto, Others, OthersSame, slot, walk, HInv, IInv, Good, ProcOK,
         CallsOK, SlotsOK, WalksOK
<1>2. ent[p] = NoEntry /\ snap[p] = EmptyTable
  BY <1>1 DEF HInv, KeyRule, CallRule, Working
<1>3. Moves(p)
  BY <1>1, <1>2, QuietMoves
<1>4. CASE Goto(p, "lock") /\ UNCHANGED walk
  <2>1. pc'[p] = "lock" /\ snap' = snap
    BY <1>4 DEF Goto, walk, HInv, IInv, Good, ProcOK, CallsOK
  <2> QED
    BY <1>1, <1>2, <1>3, <2>1, SnapMoves, RestRules DEF Proper
<1>5. CASE StartVisits(p, readM)
  <2>1. pc'[p] = "visit" /\ snap'[p] = readM /\ readM' = readM
    BY <1>1, <1>5 DEF StartVisits, Goto, tables, HInv, IInv, Good, ProcOK, CallsOK, WalksOK
  <2>2. SnapRule(p)'
    BY <2>1 DEF SnapRule
  <2> QED
    BY <1>1, <1>2, <1>3, <2>1, <2>2, VisitRules DEF Proper
<1> QED
  BY <1>4, <1>5 DEF RangeLook

LEMMA RangeLockedProper == ASSUME HInv, NEW p \in Proc, RangeLocked(p) PROVE Proper(p)
<1>1. /\ pc[p] = "lock" /\ req' = req /\ mu = Free /\ mu' = mu /\ ptr' = ptr /\ ent' = ent
      /\ Others(p) /\ req[p].kind = "Range" /\ pc'[p] = "visit" /\ PtrSame
  BY DEF RangeLocked, StartVisits, Goto, Others, OthersSame, slot, walk, HInv, IInv, Good, ProcOK,
         CallsOK, SlotsOK, WalksOK, PtrSame
<1>2. ent[p] = NoEntry
  BY <1>1 DEF HInv, KeyRule, CallRule, Working
<1>3. CASE amended /\ Promote(dirtyM) /\ StartVisits(p, dirtyM)
  <2>1. dirtyM \in Table /\ hasDirty /\ \A j \in Key : ~Copying(j)
    BY <1>1, <1>3, SyncMapAssumption
       DEF Copying, HInv, IInv, Good, TablesOK, MuRule, TablesRule, NoDirty
  <2>2. \A k \in Key : Keep(k) \/ Drop(k)
    BY <1>1, <1>3, <2>1, PromoteMove
  <2>3. AmendRule'
    BY <1>3, PromoteAmend
  <2>4. Moves(p)
    BY <1>1, <1>2, <2>2, <2>3 DEF Moves, TableMove, EntMove, Leaves, OnlyBy, PtrMove
  <2>5. snap'[p] = dirtyM /\ readM' = dirtyM
    BY <1>3 DEF StartVisits, Promote, HInv, IInv, Good, WalksOK
  <2>6. SnapRule(p)'
    BY <2>5 DEF SnapRule
  <2> QED
    BY <1>1, <1>2, <2>4, <2>6, VisitRules DEF Proper
<1>4. CASE StartVisits(p, readM) /\ UNCHANGED tables
  <2>1. snap'[p] = readM /\ readM' = readM
    BY <1>4 DEF StartVisits, tables, HInv, IInv, Good, WalksOK
  <2>2. SnapRule(p)'
    BY <2>1 DEF SnapRule
  <2>3. Moves(p)
    BY <1>1, <1>2, <1>4, QuietMoves
  <2> QED
    BY <1>1, <1>2, <2>2, <2>3, VisitRules DEF Proper
<1> QED
  BY <1>3, <1>4 DEF RangeLocked

LEMMA VisitProper == ASSUME HInv, NEW p \in Proc, Visit(p) PROVE Proper(p)
<1>1. /\ pc[p] = "visit" /\ pc' = pc /\ req' = req /\ mu' = mu /\ ptr' = ptr /\ ent' = ent
      /\ UNCHANGED tables /\ snap' = snap /\ Others(p)
  BY DEF Visit, Others, OthersSame, slot, HInv, IInv, Good, WalksOK
<1>2. ent[p] = NoEntry /\ req[p].kind = "Range"
  BY <1>1 DEF HInv, KeyRule, CallRule, Working
<1>3. Moves(p)
  BY <1>1, <1>2, QuietMoves
<1> QED
  BY <1>1, <1>2, <1>3, SnapMoves, VisitRules DEF Proper

LEMMA VisitsDoneProper == ASSUME HInv, NEW p \in Proc, VisitsDone(p) PROVE Proper(p)
<1>1. /\ pc[p] = "visit" /\ pc'[p] = "done" /\ req' = req /\ mu' = mu /\ ptr' = ptr
      /\ ent'[p] = NoEntry /\ UNCHANGED tables /\ snap'[p] = EmptyTable /\ Others(p)
  BY DEF VisitsDone, Answer, Others, OthersSame, slot, HInv, IInv, Good, ProcOK, CallsOK,
         SlotsOK, WalksOK
<1>2. ent[p] = NoEntry
  BY <1>1 DEF HInv, KeyRule, CallRule, Working
<1>3. Moves(p)
  BY <1>1, <1>2, QuietMoves
<1>4. SnapRule(p)'
  BY <1>1 DEF SnapRule, EmptyTable
<1> QED
  BY <1>1, <1>3, <1>4, RestRules DEF Proper

LEMMA EndsProper ==
  ASSUME HInv, NEW p \in Proc, Return(p) \/ \E r \in Asks : Call(p, r)
  PROVE  Proper(p)
<1>1. /\ pc[p] \in {"idle", "done"} /\ pc'[p] \in {"idle", "read"} /\ mu' = mu /\ ptr' = ptr
      /\ ent' = ent /\ UNCHANGED tables /\ snap' = snap /\ Others(p)
      /\ pc'[p] = "idle" => req'[p] = NoRequest
  BY DEF Return, Call, Others, OthersSame, slot, walk, HInv, IInv, Good, ProcOK, CallsOK
<1>2. ent[p] = NoEntry /\ snap[p] = EmptyTable
  BY <1>1 DEF HInv, KeyRule, CallRule, Working
<1>3. Moves(p)
  BY <1>1, <1>2, QuietMoves
<1> QED
  BY <1>1, <1>2, <1>3, SnapMoves, RestRules DEF Proper

LEMMA StepProper == ASSUME HInv, NEW p \in Proc, Step(p) PROVE Proper(p)
BY LookProper, PeekProper, CasProper, LookLockedProper, CompareLockedProper,
   FoundLockedProper, AbsentLockedProper, CopyOneProper, InsertProper, SwapLockedProper,
   RangeLookProper, RangeLockedProper, VisitProper, VisitsDoneProper DEF Step

LEMMA InitHInv == ASSUME Init PROVE HInv
<1>1. IInv
  BY InitGood, InitRule DEF IInv
<1>2. AmendRule
  BY DEF Init, AmendRule, EmptyTable
<1>3. ASSUME NEW p \in Proc PROVE KeyRule(p)
  BY SyncMapAssumption DEF Init, KeyRule, CallRule, SeenRule, SnapRule, OwnRule, DirtyOnlyRule,
     OrphanRule, Working, Orphan, EmptyTable, NoRequest
<1> QED
  BY <1>1, <1>2, <1>3 DEF HInv

-----------------------------------------------------------------------------
LEMMA CurrentIs ==
  ASSUME NEW k \in Key
  PROVE  Current(k) = IF EntryOf(k) = NoEntry THEN Nil ELSE AsValue(ptr[EntryOf(k)])
BY DEF Current, EntryOf

LEMMA CurrentIsNext ==
  ASSUME NEW CONSTANT k \in Key
  PROVE  Current(k)' = IF EntryOf(k)' = NoEntry THEN Nil ELSE AsValue(ptr'[EntryOf(k)'])
BY DEF Current, EntryOf, AsValue, Live

\* The value of a key changes only where p writes to its entry, inserts it
\* or removes it.
LEMMA CurrentKept ==
  ASSUME HInv, NEW p \in Proc, Moves(p), NEW CONSTANT k \in Key,
         ~Fresh(p, k), ~Removed(p, k),
         ent[p] = EntryOf(k) /\ pc[p] \in {"cas", "swap"} => ptr'[ent[p]] = ptr[ent[p]]
  PROVE  Current(k)' = Current(k)
<1>1. EntryOf(k) \in Slot
  BY Entries DEF HInv
<1>2. CASE Drop(k)
  <2>1. EntryOf(k)' = NoEntry
    BY <1>2, EntryMoves DEF Moves, HInv
  <2>2. EntryOf(k) = readM[k] /\ ptr[readM[k]] = Expunged
    BY <1>2 DEF Drop, EntryOf
  <2> QED
    BY <2>1, <2>2, CurrentIs, CurrentIsNext DEF AsValue, Live
<1>3. CASE Keep(k)
  <2>1. EntryOf(k)' = EntryOf(k)
    BY <1>3, EntryMoves DEF Moves, HInv
  <2>2. CASE EntryOf(k) = NoEntry
    BY <2>1, <2>2, CurrentIs, CurrentIsNext
  <2>3. CASE EntryOf(k) # NoEntry
    <3>1. EntryOf(k) \in Entry /\ EntryOf(k) \notin Unreachable
      BY <1>1, <2>3, FreshApart DEF Slot, InTables, HInv
    <3>2. PtrMove(p, EntryOf(k))
      BY <3>1 DEF Moves
    <3>3. AsValue(ptr'[EntryOf(k)]) = AsValue(ptr[EntryOf(k)])
      BY <3>1, <3>2 DEF PtrMove, AsValue
    <3> QED
      BY <2>1, <2>3, <3>3, CurrentIs, CurrentIsNext
  <2> QED
    BY <2>2, <2>3
<1> QED
  BY <1>2, <1>3 DEF Moves, TableMove

-----------------------------------------------------------------------------
\* Range.  A call of it has seen what every key holds now; and what it still
\* has to visit is in the read table, or was seen gone.
HeldRule(p) == Ranging(p) => \A k \in Key : Current(k) \in held[p][k]
VisitRule(p) ==
  pc[p] = "visit" => \A k \in todo[p] : /\ snap[p][k] # NoEntry
                                        /\ snap[p][k] = readM[k] \/ Nil \in held[p][k]
SeesInv == HInv /\ \A p \in Proc : HeldRule(p) /\ VisitRule(p)

NewHeld == held' = [p \in Proc |-> [k \in Key |->
                      IF Ranging(p)' THEN held[p][k] \cup {Current(k)'} ELSE {}]]

LEMMA HeldNext ==
  ASSUME NewHeld, NEW p \in Proc, Ranging(p)'
  PROVE  HeldRule(p)' /\ \A k \in Key : held'[p][k] = held[p][k] \cup {Current(k)'}
<1>1. \A k \in Key : held'[p][k] = held[p][k] \cup {Current(k)'}
  BY DEF NewHeld
<1> QED
  BY <1>1 DEF HeldRule

\* A key the iteration has yet to visit.
LEMMA ToVisit ==
  ASSUME SeesInv, HInv', NewHeld, NEW p \in Proc, Moves(p), NEW q \in Proc, Ranging(q)',
         pc[q] = "visit", snap'[q] = snap[q], NEW CONSTANT k \in Key, k \in todo[q]
  PROVE  snap'[q][k] # NoEntry /\ (snap'[q][k] = readM'[k] \/ Nil \in held'[q][k])
<1>1. snap[q][k] # NoEntry /\ (snap[q][k] = readM[k] \/ Nil \in held[q][k])
  BY DEF SeesInv, VisitRule
<1>2. held'[q][k] = held[q][k] \cup {Current(k)'}
  BY HeldNext
<1>3. CASE Nil \in held[q][k]
  BY <1>1, <1>2, <1>3
<1>4. CASE snap[q][k] = readM[k] /\ readM'[k] # readM[k]
  <2>1. readM[k] = EntryOf(k) /\ EntryOf(k) # NoEntry
    BY <1>1, <1>4 DEF EntryOf
  <2>2. ~Keep(k) /\ ~Fresh(p, k) /\ ~Removed(p, k)
    BY <1>1, <1>4, <2>1 DEF Keep, Fresh, Removed
  <2>3. EntryOf(k)' = NoEntry
    BY <2>2, EntryMoves DEF Moves, TableMove, SeesInv, HInv
  <2>4. Current(k)' = Nil
    BY <2>3, CurrentIsNext
  <2> QED
    BY <1>1, <1>2, <2>4
<1> QED
  BY <1>1, <1>3, <1>4

\* The iteration begins: the keys it will not visit are absent now.
LEMMA Begins ==
  ASSUME HInv, HInv', NewHeld, NEW p \in Proc, Ranging(p)', ~amended',
         snap'[p] = readM', todo'[p] = Present(readM')
  PROVE  /\ \A k \in Key \ todo'[p] : Nil \in held'[p][k]
         /\ VisitRule(p)'
<1>1. ASSUME NEW CONSTANT k \in Key, k \notin todo'[p] PROVE Nil \in held'[p][k]
  <2>1. readM'[k] = NoEntry /\ dirtyM'[k] = NoEntry
    BY <1>1 DEF Present, HInv, AmendRule
  <2>2. Current(k)' = Nil
    BY <2>1, CurrentIsNext DEF EntryOf
  <2> QED
    BY <2>2, HeldNext
<1>2. VisitRule(p)'
  BY DEF VisitRule, Present
<1> QED
  BY <1>1, <1>2

BeginSees(p) == pc[p] # "visit" /\ pc'[p] = "visit" => \A k \in Key \ todo'[p] : Nil \in held'[p][k]

\* A step of p, for what p's own Range sees.
LEMMA OwnVisits ==
  ASSUME SeesInv, HInv', NewHeld, NEW p \in Proc, Proper(p),
         Step(p) \/ Return(p) \/ \E r \in Asks : Call(p, r)
  PROVE  VisitRule(p)' /\ BeginSees(p)
<1>1. CASE pc'[p] # "visit"
  BY <1>1 DEF VisitRule, BeginSees
<1>2. CASE pc'[p] = "visit"
  <2>1. Ranging(p)'
    BY <1>2 DEF Ranging, HInv, KeyRule, CallRule
  <2>2. \/ RangeLook(p) /\ ~amended /\ StartVisits(p, readM)
        \/ RangeLocked(p) \/ Visit(p)
    <3>1. req[p].kind = "Range"
      <4>1. req'[p] = req[p]
        BY <1>2 DEF Step, Look, Peek, Cas, LookLocked, CompareLocked, FoundLocked, AbsentLocked,
           CopyOne, Insert, SwapLocked, RangeLook, RangeLocked, Visit, VisitsDone, StartVisits,
           Goto, Answer, Return, Call, SeesInv, HInv, IInv, Good, ProcOK, CallsOK
      <4> QED
        BY <2>1, <4>1 DEF Ranging
    <3>2. pc[p] \in {"read", "lock", "visit", "done", "idle"}
      BY <3>1 DEF SeesInv, HInv, KeyRule, CallRule
    <3>3. ~Return(p) /\ ~(\E r \in Asks : Call(p, r)) /\ ~VisitsDone(p)
      BY <1>2 DEF Return, Call, VisitsDone, Answer, SeesInv, HInv, IInv, Good, ProcOK, CallsOK
    <3>4. RangeLook(p) \/ RangeLocked(p) \/ Visit(p)
      BY <3>1, <3>2, <3>3 DEF Step, Look, Peek, Cas, LookLocked, CompareLocked, FoundLocked,
         AbsentLocked, CopyOne, Insert, SwapLocked
    <3>5. ~Goto(p, "lock")
      BY <1>2 DEF Goto, SeesInv, HInv, IInv, Good, ProcOK, CallsOK
    <3> QED
      BY <3>4, <3>5 DEF RangeLook
  <2>3. CASE RangeLook(p) /\ ~amended /\ StartVisits(p, readM)
    <3>1. /\ snap'[p] = readM /\ todo'[p] = Present(readM) /\ UNCHANGED tables
      BY <2>3 DEF StartVisits, RangeLook, SeesInv, HInv, IInv, Good, WalksOK
    <3>2. readM' = readM /\ ~amended'
      BY <2>3, <3>1 DEF tables
    <3> QED
      BY <2>1, <3>1, <3>2, Begins DEF SeesInv, BeginSees
  <2>4. CASE RangeLocked(p)
    <3>1. /\ snap'[p] = readM' /\ todo'[p] = Present(readM') /\ ~amended'
      <4>1. CASE Promote(dirtyM) /\ StartVisits(p, dirtyM)
        BY <4>1 DEF StartVisits, Promote, SeesInv, HInv, IInv, Good, WalksOK
      <4>2. CASE ~amended /\ StartVisits(p, readM) /\ UNCHANGED tables
        BY <4>2 DEF StartVisits, tables, SeesInv, HInv, IInv, Good, WalksOK
      <4> QED
        BY <2>4, <4>1, <4>2 DEF RangeLocked
    <3> QED
      BY <2>1, <3>1, Begins DEF SeesInv, BeginSees
  <2>5. CASE Visit(p)
    <3>1. pc[p] = "visit" /\ snap' = snap /\ todo'[p] \subseteq todo[p] /\ todo'[p] \subseteq Key
      BY <2>5 DEF Visit, SeesInv, HInv, IInv, Good, WalksOK
    <3>2. ASSUME NEW CONSTANT k \in Key, k \in todo'[p]
          PROVE  snap'[p][k] # NoEntry /\ (snap'[p][k] = readM'[k] \/ Nil \in held'[p][k])
      BY <2>1, <3>1, <3>2, ToVisit DEF Proper
    <3> QED
      BY <3>1, <3>2 DEF VisitRule, BeginSees
  <2> QED
    BY <2>2, <2>3, <2>4, <2>5
<1> QED
  BY <1>1, <1>2

LEMMA StepSees ==
  ASSUME SeesInv, HInv', NewHeld, NEW p \in Proc, Proper(p),
         Step(p) \/ Return(p) \/ \E r \in Asks : Call(p, r)
  PROVE  SeesInv' /\ \A q \in Proc : BeginSees(q)
<1>1. ASSUME NEW q \in Proc PROVE HeldRule(q)'
  BY HeldNext DEF HeldRule
<1>2. ASSUME NEW q \in Proc PROVE VisitRule(q)' /\ BeginSees(q)
  <2>1. CASE q = p
    BY <2>1, OwnVisits
  <2>2. CASE q # p
    <3>1. pc'[q] = pc[q] /\ snap'[q] = snap[q] /\ todo'[q] = todo[q] /\ req'[q] = req[q]
      BY <2>2 DEF Proper, Moves, Others, OthersSame
    <3>2. BeginSees(q)
      BY <3>1 DEF BeginSees
    <3>3. CASE pc[q] = "visit"
      <4>1. Ranging(q)' /\ todo[q] \subseteq Key
        BY <3>1, <3>3 DEF Ranging, SeesInv, HInv, IInv, Good, WalksOK, KeyRule, CallRule
      <4>2. ASSUME NEW CONSTANT k \in Key, k \in todo[q]
            PROVE  snap'[q][k] # NoEntry /\ (snap'[q][k] = readM'[k] \/ Nil \in held'[q][k])
        BY <3>1, <3>3, <4>1, <4>2, ToVisit DEF Proper
      <4> QED
        BY <3>1, <3>2, <4>1, <4>2 DEF VisitRule
    <3>4. CASE pc[q] # "visit"
      BY <3>1, <3>2, <3>4 DEF VisitRule
    <3> QED
      BY <3>3, <3>4
  <2> QED
    BY <2>1, <2>2
<1> QED
  BY <1>1, <1>2 DEF SeesInv

\* A step of the specification with its history is a step of one process.
LEMMA StepOfOne ==
  ASSUME HInv, HNext
  PROVE  /\ HInv' /\ NewHeld
         /\ \E p \in Proc : Proper(p) /\ (Step(p) \/ Return(p) \/ \E r \in Asks : Call(p, r))
<1>1. PICK p \in Proc : Step(p) \/ Return(p) \/ \E r \in Asks : Call(p, r)
  BY DEF HNext
<1>2. Proper(p)
  BY <1>1, StepProper, EndsProper
<1>3. IInv'
  BY <1>1, NextRule DEF HInv, Next
<1> QED
  BY <1>1, <1>2, <1>3, ProperKeeps DEF HNext, NewHeld

LEMMA SeesNext == ASSUME SeesInv, [HNext]_hvars PROVE SeesInv' /\ \A q \in Proc : BeginSees(q)
<1>1. CASE UNCHANGED hvars
  BY <1>1 DEF hvars, vars, tables, slot, walk, SeesInv, HInv, IInv, Good, TablesOK, PtrOK, ProcOK,
     CallsOK, SlotsOK, WorkOK, WalksOK, TablesRule, Distinct, NoDirty, EntryRule, Copying, MuRule,
     AmendRule, KeyRule, CallRule, SeenRule, SnapRule, OwnRule, DirtyOnlyRule, OrphanRule, Working,
     Orphan, InTables, EntryOf, HeldRule, VisitRule, Ranging, Current, BeginSees
<1>2. CASE HNext
  BY <1>2, StepOfOne, StepSees DEF SeesInv
<1> QED
  BY <1>1, <1>2

LEMMA SeesInit == ASSUME HInit PROVE SeesInv
<1>1. HInv
  BY InitHInv DEF HInit
<1>2. \A p \in Proc : HeldRule(p) /\ VisitRule(p)
  BY DEF HInit, Init, HeldRule, VisitRule, Ranging, NoRequest
<1> QED
  BY <1>1, <1>2 DEF SeesInv

LEMMA VisitedHeld ==
  ASSUME SeesInv, NEW p \in Proc, pc[p] = "visit", NEW k \in todo[p]
  PROVE  AsValue(ptr[snap[p][k]]) \in held[p][k]
<1>1. k \in Key /\ Ranging(p)
  BY DEF Ranging, SeesInv, HInv, IInv, Good, WalksOK, KeyRule, CallRule
<1>2. snap[p][k] # NoEntry /\ (snap[p][k] = readM[k] \/ Nil \in held[p][k])
  BY DEF SeesInv, VisitRule
<1>3. CASE snap[p][k] = readM[k]
  <2>1. Current(k) = AsValue(ptr[snap[p][k]])
    BY <1>2, <1>3 DEF Current
  <2> QED
    BY <1>1, <2>1 DEF SeesInv, HeldRule
<1>4. CASE snap[p][k] # readM[k]
  <2>1. ptr[snap[p][k]] = Expunged
    BY <1>1, <1>2, <1>4 DEF SeesInv, HInv, KeyRule, SnapRule
  <2> QED
    BY <1>2, <1>4, <2>1 DEF AsValue, Live
<1> QED
  BY <1>3, <1>4

\* RangeSees of SyncMapHistory, for any number of goroutines and keys: every
\* value Range hands out, and every key it leaves out, was the map's at some
\* moment since the call began.
THEOREM RangeCorrect == HSpec => RangeSees
<1> DEFINE Sees == \A p \in Proc :
             LET left == todo[p] \ todo'[p] IN
             /\ pc[p] = "visit" /\ Cardinality(left) = 1 =>
                  \A k \in left : AsValue(ptr[snap[p][k]]) \in held[p][k]
             /\ pc[p] # "visit" /\ pc'[p] = "visit" =>
                  \A k \in Key \ todo'[p] : Nil \in held'[p][k]
<1>1. HInit => SeesInv
  BY SeesInit
<1>2. SeesInv /\ [HNext]_hvars => SeesInv'
  BY SeesNext
<1>3. SeesInv /\ [HNext]_hvars => [Sees]_hvars
  <2> SUFFICES ASSUME SeesInv, [HNext]_hvars PROVE Sees
    OBVIOUS
  <2>1. ASSUME NEW p \in Proc, pc[p] = "visit", NEW k \in todo[p] \ todo'[p]
        PROVE  AsValue(ptr[snap[p][k]]) \in held[p][k]
    BY <2>1, VisitedHeld
  <2>2. \A p \in Proc : BeginSees(p)
    BY SeesNext
  <2> QED
    BY <2>1, <2>2 DEF BeginSees
<1> QED
  BY <1>1, <1>2, <1>3, PTL DEF HSpec, RangeSees

-----------------------------------------------------------------------------
\* Calls that take effect without changing the key may all do so at once.
Idly(q, now, a) == A!Effect(q, Asked[q], now) = [now |-> now, answer |-> a]

LEMMA Absorb ==
  ASSUME AskedOK, NEW k \in Key, can[k] \subseteq Possible, NEW v, NEW F \in Given, NEW G \in Given,
         [now |-> v, given |-> F] \in A!Reach(k),
         \A q \in Proc : G[q] # F[q] => /\ Wants(q, k) /\ F[q] = A!Pending
                                        /\ Idly(q, v, G[q])
  PROVE  [now |-> v, given |-> G] \in A!Reach(k)
<1> DEFINE Left(f) == {q \in Proc : G[q] # f[q]}
           Ready(f) == /\ [now |-> v, given |-> f] \in A!Reach(k)
                       /\ \A q \in Left(f) : Wants(q, k) /\ f[q] = A!Pending /\ Idly(q, v, G[q])
           T == {n \in Nat : \E f \in Given : Ready(f) /\ Cardinality(Left(f)) = n}
<1>1. \A f \in Given : Left(f) \subseteq Proc /\ IsFiniteSet(Left(f)) /\ Cardinality(Left(f)) \in Nat
  BY HistoryAssumption, FS_Subset, FS_CardinalityType
<1>2. PICK n \in T : \A m \in T : ~(m < n)
  <2>1. T \in SUBSET Nat /\ T # {}
    BY <1>1
  <2> HIDE DEF T
  <2> QED
    BY <2>1, Least
<1>3. PICK f \in Given : Ready(f) /\ Cardinality(Left(f)) = n
  BY <1>2
<1>4. CASE Left(f) = {}
  <2>1. G = f
    BY <1>4 DEF Given
  <2> QED
    BY <1>3, <2>1
<1>5. CASE Left(f) # {}
  <2>1. PICK q \in Left(f) : TRUE
    BY <1>5
  <2> DEFINE c == [now |-> v, given |-> f]
             g == [f EXCEPT ![q] = G[q]]
  <2>2. c \in A!Reach(k) /\ Wants(q, k) /\ c.given[q] = A!Pending /\ Idly(q, v, G[q]) /\ q \in Proc
    BY <1>3, <2>1
  <2>3. A!Take(c, q) \in A!Reach(k)
    BY <2>2, ReachTakes
  <2>4. A!Take(c, q) = [now |-> v, given |-> g]
    BY <2>2 DEF A!Take, Idly
  <2>5. g \in Given
    BY <2>2 DEF Given
  <2>6. Left(g) = Left(f) \ {q}
    BY <2>2 DEF Given
  <2>7. \A x \in Left(g) : g[x] = f[x]
    BY <2>2, <2>6 DEF Given
  <2>8. Ready(g)
    BY <1>3, <2>3, <2>4, <2>6, <2>7
  <2>9. Cardinality(Left(g)) = n - 1 /\ n - 1 \in Nat
    <3>1. Cardinality(Left(f) \ {q}) = Cardinality(Left(f)) - 1
      BY <1>1, <2>1, FS_RemoveElement
    <3>2. Cardinality(Left(g)) \in Nat
      BY <1>1, <2>5
    <3> QED
      BY <1>3, <2>6, <3>1, <3>2
  <2>10. n - 1 \in T
    BY <2>5, <2>8, <2>9
  <2>11. n \in Nat
    BY <1>2
  <2> HIDE DEF T
  <2>12. ~(n - 1 < n)
    BY <1>2, <2>10
  <2> QED
    BY <2>11, <2>12
<1> QED
  BY <1>4, <1>5

-----------------------------------------------------------------------------
\* What a call under way may be taken to have answered already, before it
\* answers: the ones at work on an entry that has left the tables.
May(p, a) ==
  LET v == ptr[ent[p]] IN
  \/ a = NoAnswer
  \/ Live(v) /\ req[p].kind \in {"Load", "LoadAndDelete"} /\ a = [val |-> v, ok |-> TRUE]
  \/ Live(v) /\ req[p].kind = "CompareAndDelete" /\ req[p].old = v /\ a = [val |-> Nil, ok |-> TRUE]

FitsCall(G, k, p) ==
  IF req[p].key # k THEN G[p] = A!Pending
  ELSE IF pc[p] = "done" THEN G[p] = res[p]
  ELSE IF Orphan(p) /\ req[p].kind \notin Writers THEN May(p, G[p])
  ELSE G[p] = A!Pending

\* Of the calls at work on a value that has left the tables one deletes it.
OneDeletes(G, e) ==
  \E d \in Proc : \A x \in Proc :
    ent[x] = e /\ Deletes(req[x].kind) /\ G[x].ok <=> x = d

Fits(G, k) ==
  /\ \A p \in Proc : FitsCall(G, k, p)
  /\ \A p \in Proc : Orphan(p) /\ req[p].key = k /\ Live(ptr[ent[p]]) => OneDeletes(G, ent[p])

\* All that fits is possible.
Covered(k) == \A G \in Given : Fits(G, k) => [now |-> Current(k), given |-> G] \in A!Reach(k)
CanOK == can = [k \in Key |-> can[k]] /\ \A k \in Key : can[k] \subseteq Possible
LInv == HInv /\ CanOK /\ \A k \in Key : Covered(k)

LEMMA AskedType == ASSUME HInv PROVE AskedOK
<1> SUFFICES ASSUME NEW p \in Proc PROVE Asked[p] \in A!Requests \cup {NoRequest}
  BY DEF AskedOK
<1>1. req[p] \in Asks \cup {NoRequest}
  BY DEF HInv, IInv, Good, ProcOK, CallsOK
<1>2. Asked[p] = IF req[p].kind = "Range" THEN NoRequest ELSE req[p]
  BY DEF Asked
<1>3. CASE req[p] \in Asks /\ req[p].kind # "Range"
  BY <1>2, <1>3, SyncMapAssumption DEF Asks, Request, A!Requests
<1> QED
  BY <1>1, <1>2, <1>3

LEMMA Wanting ==
  ASSUME HInv, NEW k \in Key, NEW p \in Proc
  PROVE  /\ Wants(p, k) <=> req[p].key = k
         /\ req[p].key = k => Asked[p] = req[p] /\ req[p] \in Asks /\ req[p].kind # "Range"
<1>1. req[p] \in Asks \cup {NoRequest}
  BY DEF HInv, IInv, Good, ProcOK, CallsOK
<1>2. Asked[p] = IF req[p].kind = "Range" THEN NoRequest ELSE req[p]
  BY DEF Asked
<1>3. req[p].kind = "Range" \/ req[p] = NoRequest => req[p].key = NoKey
  BY <1>1 DEF Asks, NoRequest
<1>4. NoRequest.key = NoKey /\ NoKey # k
  BY SyncMapAssumption DEF NoRequest
<1> QED
  BY <1>1, <1>2, <1>3, <1>4 DEF Wants

\* Whoever works on an entry that left the tables has company of the same kind.
LEMMA OrphanMates ==
  ASSUME HInv, NEW q \in Proc, Orphan(q)
  PROVE  /\ Working(q) /\ req[q].key \in Key /\ ent[q] \in Entry /\ ent[q] \notin Unreachable
         /\ ~InTables(ent[q]) /\ mu # q
         /\ \A x \in Proc : ent[x] = ent[q] => Orphan(x) /\ req[x].key = req[q].key
<1>1. Working(q) /\ req[q].key \in Key /\ ent[q] \in Entry /\ ent[q] # NoEntry /\ ent[q] \notin Unreachable
  BY KeyOf DEF Orphan, Working
<1>2. ~InTables(ent[q])
  BY DEF HInv, KeyRule, OrphanRule
<1>3. mu # q
  BY <1>1 DEF Orphan, HInv, KeyRule, CallRule
<1>4. ASSUME NEW x \in Proc, ent[x] = ent[q] PROVE Orphan(x) /\ req[x].key = req[q].key
  <2>1. req[x].key = req[q].key
    BY <1>1, <1>4 DEF HInv, KeyRule, OwnRule
  <2>2. Working(x) /\ ent[x] # EntryOf(req[x].key)
    BY <1>1, <1>2, <1>4, <2>1 DEF InTables, HInv, KeyRule, CallRule
  <2>3. pc[x] # "swap"
    BY <2>2 DEF HInv, IInv, MuRule, KeyRule, CallRule
  <2> QED
    BY <2>1, <2>2, <2>3 DEF Orphan, Working
<1> QED
  BY <1>1, <1>2, <1>3, <1>4

\* A step of p leaves the entry of an orphan alone, but for p's own.
LEMMA OrphanStays ==
  ASSUME HInv, NEW p \in Proc, Moves(p), NEW q \in Proc, Orphan(q), ent[p] # ent[q]
  PROVE  /\ q # p /\ Orphan(q)' /\ ent'[q] = ent[q] /\ pc'[q] = pc[q] /\ req'[q] = req[q]
         /\ ptr'[ent[q]] = ptr[ent[q]]
         /\ \A x \in Proc : ent'[x] = ent[q] <=> ent[x] = ent[q]
<1>1. /\ ent[q] \in Entry /\ ent[q] \notin Unreachable /\ ~InTables(ent[q]) /\ req[q].key \in Key
  BY OrphanMates
<1>2. q # p /\ ent'[q] = ent[q] /\ pc'[q] = pc[q] /\ req'[q] = req[q]
  BY DEF Moves, Others, OthersSame
<1>3. \A k \in Key : EntryOf(k)' # ent[q]
  BY <1>1, EntryMoves, SyncMapAssumption DEF Moves, HInv, InTables
<1>4. Orphan(q)'
  BY <1>1, <1>2, <1>3 DEF Orphan
<1>5. ptr'[ent[q]] = ptr[ent[q]]
  BY <1>1 DEF Moves, PtrMove
<1>6. ASSUME NEW x \in Proc PROVE ent'[x] = ent[q] <=> ent[x] = ent[q]
  <2>1. CASE x # p
    BY <2>1 DEF Moves, Others, OthersSame
  <2>2. CASE x = p
    <3>1. ent'[p] # ent[q]
      BY <1>1, SyncMapAssumption DEF Moves, EntMove, InTables
    <3> QED
      BY <2>2, <3>1
  <2> QED
    BY <2>1, <2>2
<1> QED
  BY <1>2, <1>4, <1>5, <1>6

-----------------------------------------------------------------------------
LEMMA SameCalls ==
  ASSUME NEW p \in Proc, Moves(p), req'[p] = req[p], NEW q \in Proc
  PROVE  /\ req'[q] = req[q]
         /\ q # p => pc'[q] = pc[q] /\ ent'[q] = ent[q] /\ res'[q] = res[q]
BY DEF Moves, Others, OthersSame

\* What fitted after a step fitted before it, in the part of a call that the
\* step leaves where it was.
LEMMA FitsBefore ==
  ASSUME HInv, NEW p \in Proc, Moves(p), req'[p] = req[p],
         NEW CONSTANT k \in Key, NEW CONSTANT G, Fits(G, k)', NEW q \in Proc,
         q # p, req[q].key = k => (Orphan(q) <=> Orphan(q)'),
         Orphan(q) /\ req[q].key = k => ent[p] # ent[q]
  PROVE  FitsCall(G, k, q)
<1>1. req'[q] = req[q] /\ pc'[q] = pc[q] /\ ent'[q] = ent[q] /\ res'[q] = res[q]
  BY SameCalls
<1>2. FitsCall(G, k, q)'
  BY DEF Fits
<1>3. ASSUME req[q].key = k, Orphan(q), May(q, G[q])' PROVE May(q, G[q])
  <2>1. ptr'[ent[q]] = ptr[ent[q]]
    BY <1>3, OrphanStays
  <2> QED
    BY <1>1, <1>3, <2>1 DEF May
<1> QED
  BY <1>1, <1>2, <1>3 DEF FitsCall

\* An entry leaves the tables in a step of p only expunged, or removed by p.
LEMMA NewOrphans ==
  ASSUME HInv, HInv', NEW p \in Proc, Moves(p), req'[p] = req[p], NEW CONSTANT k \in Key,
         ~Removed(p, k), NEW q \in Proc, req[q].key = k, ~Orphan(q), Orphan(q)'
  PROVE  Current(k)' = Nil /\ ~Live(ptr'[ent'[q]])
<1>1. /\ req'[q] = req[q] /\ pc'[q] \in {"peek", "cas"} /\ ent'[q] # EntryOf(k)'
      /\ ent'[q] \in Entry
  BY SameCalls DEF Orphan, HInv, IInv, Good, ProcOK, WorkOK
<1>2. ent'[q] = EntryOf(k) /\ ent'[q] # NoEntry
  <2>1. ent'[q] # NoEntry
    BY <1>1, SyncMapAssumption
  <2>2. ent'[q] = ent[q] \/ ent'[q] = EntryOf(k)
    BY <2>1, HeldBy DEF Moves, HInv, IInv
  <2>3. ASSUME ent'[q] = ent[q] PROVE ent[q] = EntryOf(k)
    <3>1. Working(q)
      BY <2>1, <2>3 DEF HInv, KeyRule, CallRule
    <3>2. pc[q] = "swap" => ent[q] = EntryOf(k)
      BY <3>1 DEF HInv, IInv, MuRule, KeyRule, CallRule
    <3> QED
      BY <3>1, <3>2 DEF Working, Orphan
  <2> QED
    BY <2>1, <2>2, <2>3
<1>3. Drop(k)
  <2>1. TableMove(p, k)
    BY DEF Moves
  <2>2. ~Keep(k)
    BY <1>1, <1>2, <2>1, EntryMoves DEF HInv
  <2>3. ~Fresh(p, k)
    BY <1>2 DEF Fresh
  <2> QED
    BY <2>1, <2>2, <2>3 DEF TableMove
<1>4. EntryOf(k) = readM[k] /\ ptr'[readM[k]] = Expunged
  BY <1>3 DEF Drop, EntryOf
<1>5. EntryOf(k)' = NoEntry
  BY <1>3, EntryMoves DEF Moves, HInv
<1>6. Current(k)' = Nil
  BY <1>5, CurrentIsNext
<1> QED
  BY <1>2, <1>4, <1>6 DEF Live

\* A call that finds its key absent may have taken effect without a trace.
LEMMA IdleAtNil ==
  ASSUME HInv, NEW k \in Key, NEW q \in Proc, req[q].key = k, req[q].kind \notin Writers
  PROVE  Idly(q, Nil, NoAnswer)
<1>1. Asked[q] = req[q] /\ req[q] \in Asks /\ req[q].kind # "Range"
  BY Wanting
<1>2. req[q].kind \in {"Load", "LoadAndDelete"} \/ (req[q].kind \in Compares /\ req[q].old # Nil)
  BY <1>1, SyncMapAssumption DEF Asks, Request
<1> QED
  BY <1>1, <1>2 DEF Idly, A!Effect, NoAnswer

\* A step of p in which p answers by the effect its call has on the key, or
\* says nothing and leaves the key as it is: whatever fits after it was
\* possible before.
Silent(p, k)  == (pc'[p] = "done" => req[p].key # k) /\ Current(k)' = Current(k)
Answers(p, k) == /\ pc'[p] = "done" /\ req[p].key = k
                 /\ A!Effect(p, Asked[p], Current(k)) = [now |-> Current(k)', answer |-> res'[p]]

LEMMA Advance ==
  ASSUME LInv, HInv', NEW p \in Proc, Moves(p), req'[p] = req[p], pc[p] # "done",
         NEW CONSTANT k \in Key, ~Removed(p, k), ~(Orphan(p) /\ req[p].key = k),
         Silent(p, k) \/ Answers(p, k), NEW CONSTANT G \in Given, Fits(G, k)'
  PROVE  [now |-> Current(k)', given |-> G] \in A!Reach(k)
<1> DEFINE New(q) == req[q].key = k /\ ((~Orphan(q) /\ Orphan(q)') \/ (q = p /\ pc'[p] = "done"))
           F == [q \in Proc |-> IF New(q) THEN A!Pending ELSE G[q]]
<1>0. HInv /\ AskedOK /\ can[k] \subseteq Possible
  BY AskedType DEF LInv, CanOK
<1>1. F \in Given
  BY DEF Given
<1>2. \A q \in Proc : Orphan(q) /\ req[q].key = k => ent[p] # ent[q]
  BY <1>0, OrphanMates
<1>3. \A q \in Proc : Orphan(q) /\ req[q].key = k => ~New(q) /\ Orphan(q)'
  <2> SUFFICES ASSUME NEW q \in Proc, Orphan(q), req[q].key = k PROVE q # p /\ Orphan(q)'
    OBVIOUS
  <2> QED
    BY <1>0, <1>2, OrphanStays
<1>4. ASSUME NEW q \in Proc PROVE FitsCall(F, k, q)
  <2>1. CASE New(q)
    <3>1. pc[q] # "done"
      <4>1. CASE q = p
        BY <4>1
      <4>2. CASE q # p
        BY <2>1, <4>2, SameCalls DEF Orphan
      <4> QED
        BY <4>1, <4>2
    <3>2. ~Orphan(q) /\ F[q] = A!Pending
      BY <1>3, <2>1
    <3> QED
      BY <3>1, <3>2 DEF FitsCall
  <2>2. CASE ~New(q) /\ q # p
    <3>1. FitsCall(G, k, q)
      BY <1>0, <1>2, <1>3, <2>2, FitsBefore
    <3>2. F[q] = G[q]
      BY <2>2
    <3> QED
      BY <3>1, <3>2 DEF FitsCall
  <2>3. CASE ~New(q) /\ q = p
    <3>1. F[p] = G[p] /\ FitsCall(G, k, p)'
      BY <2>3 DEF Fits
    <3>2. req[p].key = k => pc'[p] # "done" /\ ~Orphan(p)'
      BY <2>3
    <3>3. G[p] = A!Pending
      BY <3>1, <3>2 DEF FitsCall
    <3> QED
      BY <2>3, <3>1, <3>3 DEF FitsCall
  <2> QED
    BY <2>1, <2>2, <2>3
<1>5. ASSUME NEW q \in Proc, Orphan(q), req[q].key = k, Live(ptr[ent[q]]) PROVE OneDeletes(F, ent[q])
  <2>1. /\ Orphan(q)' /\ ent'[q] = ent[q] /\ req'[q] = req[q] /\ ptr'[ent[q]] = ptr[ent[q]]
        /\ \A x \in Proc : ent'[x] = ent[q] <=> ent[x] = ent[q]
    BY <1>0, <1>2, <1>5, OrphanStays
  <2>2. OneDeletes(G, ent[q])'
    BY <1>5, <2>1 DEF Fits, Live
  <2>3. PICK d \in Proc : \A x \in Proc :
          ent'[x] = ent[q] /\ Deletes(req'[x].kind) /\ G[x].ok <=> x = d
    BY <2>1, <2>2 DEF OneDeletes, Deletes
  <2>4. \A x \in Proc : ent[x] = ent[q] => F[x] = G[x]
    BY <1>0, <1>3, <1>5, OrphanMates
  <2>5. \A x \in Proc : req'[x] = req[x]
    BY SameCalls
  <2> QED
    BY <2>1, <2>3, <2>4, <2>5 DEF OneDeletes
<1>6. [now |-> Current(k), given |-> F] \in A!Reach(k)
  <2>1. Fits(F, k)
    BY <1>4, <1>5 DEF Fits
  <2> QED
    BY <1>1, <2>1 DEF LInv, Covered
\* The calls that lose their entry in the step answer that the key is absent.
<1>7. ASSUME NEW q \in Proc, New(q), q # p \/ pc'[p] # "done", G[q] # A!Pending
      PROVE  Wants(q, k) /\ Idly(q, Current(k)', G[q])
  <2>1. Current(k)' = Nil /\ ~Live(ptr'[ent'[q]]) /\ Orphan(q)' /\ req[q].key = k
    BY <1>0, <1>7, NewOrphans
  <2>2. req'[q] = req[q] /\ pc'[q] # "done"
    BY <2>1, SameCalls DEF Orphan
  <2>3. FitsCall(G, k, q)'
    BY DEF Fits
  <2>4. req[q].kind \notin Writers /\ May(q, G[q])'
    BY <1>7, <2>1, <2>2, <2>3 DEF FitsCall
  <2>5. G[q] = NoAnswer
    BY <2>1, <2>4 DEF May, Live
  <2> QED
    BY <1>0, <2>1, <2>4, <2>5, IdleAtNil, Wanting
<1>8. CASE pc'[p] = "done" => req[p].key # k
  <2>1. Current(k)' = Current(k)
    BY <1>8 DEF Silent, Answers
  <2>2. \A q \in Proc : G[q] # F[q] => Wants(q, k) /\ F[q] = A!Pending /\ Idly(q, Current(k), G[q])
    BY <1>7, <1>8, <2>1
  <2> HIDE DEF F
  <2> QED
    BY <1>0, <1>1, <1>6, <2>1, <2>2, Absorb
<1>9. CASE pc'[p] = "done" /\ req[p].key = k
  <2> DEFINE c == [now |-> Current(k), given |-> F]
             E == [F EXCEPT ![p] = res'[p]]
  <2>1. Wants(p, k) /\ F[p] = A!Pending
    BY <1>0, <1>9, Wanting
  <2>2. A!Take(c, p) \in A!Reach(k)
    BY <1>0, <1>6, <2>1, ReachTakes
  <2>3. A!Effect(p, Asked[p], Current(k)) = [now |-> Current(k)', answer |-> res'[p]]
    BY <1>9 DEF Silent, Answers
  <2>4. A!Take(c, p) = [now |-> Current(k)', given |-> E]
    <3> HIDE DEF F
    <3>1. c.now = Current(k) /\ c.given = F
      OBVIOUS
    <3> QED
      BY <2>3, <3>1 DEF A!Take
  <2>5. G[p] = res'[p]
    BY <1>9 DEF Fits, FitsCall
  <2>6. E \in Given /\ \A q \in Proc : E[q] = IF q = p THEN G[q] ELSE F[q]
    BY <1>1, <2>5 DEF Given
  <2>7. \A q \in Proc : G[q] # E[q] => Wants(q, k) /\ E[q] = A!Pending /\ Idly(q, Current(k)', G[q])
    BY <1>7, <2>6
  <2> HIDE DEF F, E
  <2> QED
    BY <1>0, <2>2, <2>4, <2>6, <2>7, Absorb
<1> QED
  BY <1>8, <1>9

-----------------------------------------------------------------------------
\* What p may do with an entry that has left the tables.
Waits(p)   == ptr' = ptr /\ pc'[p] \in {"peek", "cas"} /\ ent'[p] = ent[p]
Retries(p) == /\ ptr' = ptr /\ pc'[p] = "lock" /\ ent'[p] = NoEntry
              /\ req[p].kind \in Writers /\ ptr[ent[p]] = Expunged
Reads(p)   == /\ ptr' = ptr /\ pc'[p] = "done" /\ ent'[p] = NoEntry
              /\ req[p].kind \notin Writers
              /\ Live(ptr[ent[p]]) => /\ req[p].kind # "LoadAndDelete"
                                      /\ ~(Deletes(req[p].kind) /\ res'[p].ok)
Takes(p)   == /\ ptr' = [ptr EXCEPT ![ent[p]] = Nil] /\ pc'[p] = "done" /\ ent'[p] = NoEntry
              /\ Deletes(req[p].kind) /\ Live(ptr[ent[p]]) /\ res'[p].ok
OrphanWays(p) == /\ UNCHANGED tables /\ req' = req
                 /\ \/ Waits(p) \/ Retries(p)
                    \/ (Reads(p) \/ Takes(p)) /\ May(p, res'[p])

LEMMA OrphanStep ==
  ASSUME HInv, NEW p \in Proc, Orphan(p), Peek(p) \/ Cas(p)
  PROVE  OrphanWays(p)
<1> DEFINE v == ptr[ent[p]]
<1>1. /\ mu # p /\ pc[p] \in {"peek", "cas"} /\ ent[p] \in Entry /\ req[p] \in Asks
      /\ req[p].kind # "Range" /\ v \in Pointer /\ (v # Expunged => req[p].kind \in Loners)
      /\ SeenRule(p)
  BY OrphanMates, KeyOf DEF Orphan, HInv, IInv, Good, PtrOK, KeyRule, OrphanRule
<1>2. req[p].kind \in Compares => req[p].old \in Proc
  BY <1>1, ComparedLive
<1>3. req[p].kind \in {"Load", "LoadAndDelete"} \cup Writers \cup Compares
  BY <1>1, SyncMapAssumption DEF Asks, Request
<1>4. req' = req /\ UNCHANGED tables
  BY <1>1 DEF Peek, Cas, Goto, Answer, Release
<1>5. CASE /\ v = Expunged /\ req[p].kind \in Writers
           /\ Goto(p, "lock") /\ Hold(p, NoEntry) /\ Peek(p)
  <2>1. Retries(p)
    BY <1>5 DEF Retries, Peek, Goto, Hold, HInv, IInv, Good, ProcOK, CallsOK, SlotsOK
  <2> QED
    BY <1>4, <2>1 DEF OrphanWays
<1>6. CASE /\ ~(v = Expunged /\ req[p].kind \in Writers) /\ Decided(p, v)
           /\ Answer(p, AnswerOf(p, v)) /\ Peek(p)
  <2>1. ptr' = ptr /\ pc'[p] = "done" /\ ent'[p] = NoEntry /\ res'[p] = AnswerOf(p, v)
    BY <1>6 DEF Peek, Answer, HInv, IInv, Good, ProcOK, CallsOK, SlotsOK
  <2>2. req[p].kind \notin Writers
    BY <1>1, <1>6 DEF Loners
  <2>3. /\ Live(v) => /\ req[p].kind # "LoadAndDelete"
                      /\ ~(Deletes(req[p].kind) /\ res'[p].ok)
        /\ May(p, res'[p])
    <3>1. CASE req[p].kind \in Compares
      <4>1. res'[p] = NoAnswer
        BY <2>1, <3>1 DEF AnswerOf
      <4> QED
        BY <3>1, <4>1 DEF May, NoAnswer
    <3>2. CASE req[p].kind \in {"Load", "LoadAndDelete"} /\ Live(v)
      <4>1. AnswerOf(p, v) = [val |-> v, ok |-> TRUE]
        <5>1. AsValue(v) = v /\ Live(v) = TRUE /\ req[p].kind \notin Compares
          BY <3>2 DEF AsValue
        <5> QED
          BY <5>1 DEF AnswerOf
      <4> QED
        BY <1>6, <2>1, <3>2, <4>1 DEF May, Decided, Deletes
    <3>3. CASE req[p].kind \in {"Load", "LoadAndDelete"} /\ ~Live(v)
      <4>1. AnswerOf(p, v) = NoAnswer
        <5>1. AsValue(v) = Nil /\ Live(v) = FALSE /\ req[p].kind \notin Compares
          BY <3>3 DEF AsValue
        <5> QED
          BY <5>1 DEF AnswerOf, NoAnswer
      <4> QED
        BY <2>1, <3>3, <4>1 DEF May
    <3> QED
      BY <1>3, <2>2, <3>1, <3>2, <3>3
  <2> QED
    BY <1>4, <2>1, <2>2, <2>3 DEF OrphanWays, Reads
<1>7. CASE Goto(p, "cas") /\ UNCHANGED ent /\ Peek(p)
  <2>1. Waits(p)
    BY <1>7 DEF Waits, Peek, Goto, HInv, IInv, Good, ProcOK, CallsOK
  <2> QED
    BY <1>4, <2>1 DEF OrphanWays
<1>8. CASE Goto(p, "peek") /\ UNCHANGED <<ptr, ent>>
  <2>1. Waits(p)
    BY <1>8 DEF Waits, Goto, HInv, IInv, Good, ProcOK, CallsOK
  <2> QED
    BY <1>4, <2>1 DEF OrphanWays
<1>9. CASE /\ pc[p] = "cas" /\ v = seen[p] /\ ptr' = [ptr EXCEPT ![ent[p]] = Swapped(p)]
           /\ Answer(p, SwappedAnswer(p))
  <2>1. v # Expunged
    BY <1>9 DEF HInv, IInv, MuRule
  <2>2. req[p].kind \in {"LoadAndDelete", "CompareAndDelete"} /\ Deletes(req[p].kind)
    BY <1>1, <1>9, <2>1 DEF Loners, SeenRule, Deletes
  <2>3. Live(v) /\ (req[p].kind = "CompareAndDelete" => req[p].old = v)
    BY <1>1, <1>2, <1>9, <2>2, SyncMapAssumption DEF SeenRule, Live
  <2>4. /\ ptr' = [ptr EXCEPT ![ent[p]] = Nil] /\ pc'[p] = "done" /\ ent'[p] = NoEntry
        /\ res'[p] = SwappedAnswer(p)
    BY <1>9, <2>2 DEF Swapped, Answer, HInv, IInv, Good, ProcOK, CallsOK, SlotsOK
  <2>5. May(p, res'[p]) /\ res'[p].ok
    <3>1. CASE req[p].kind = "LoadAndDelete"
      <4>1. AsValue(seen[p]) = v /\ Live(seen[p]) = TRUE
        BY <1>9, <2>3 DEF AsValue
      <4>2. res'[p] = [val |-> v, ok |-> TRUE]
        BY <2>4, <3>1, <4>1 DEF SwappedAnswer
      <4> QED
        BY <2>3, <3>1, <4>2 DEF May
    <3>2. CASE req[p].kind = "CompareAndDelete"
      <4>1. res'[p] = [val |-> Nil, ok |-> TRUE]
        BY <2>4, <3>2 DEF SwappedAnswer
      <4> QED
        BY <2>3, <3>2, <4>1 DEF May
    <3> QED
      BY <2>2, <3>1, <3>2
  <2> QED
    BY <1>4, <2>2, <2>3, <2>4, <2>5 DEF OrphanWays, Takes
<1> QED
  BY <1>1, <1>5, <1>6, <1>7, <1>8, <1>9 DEF Peek, Cas

-----------------------------------------------------------------------------
LEMMA OrphanAdvance ==
  ASSUME LInv, NEW p \in Proc, Moves(p), Orphan(p), OrphanWays(p),
         NEW CONSTANT k \in Key, req[p].key = k, NEW CONSTANT G \in Given, Fits(G, k)'
  PROVE  [now |-> Current(k)', given |-> G] \in A!Reach(k)
<1> DEFINE e == ent[p]
<1>0. HInv /\ req'[p] = req[p]
  BY DEF LInv, OrphanWays
<1>1. /\ Working(p) /\ e \in Entry /\ e \notin Unreachable /\ ~InTables(e)
      /\ \A x \in Proc : ent[x] = e => Orphan(x) /\ req[x].key = k
      /\ pc[p] \in {"peek", "cas"} /\ ptr[e] \in Pointer
      /\ ptr[e] # Expunged => req[p].kind \in Loners
  BY <1>0, OrphanMates DEF Orphan, HInv, KeyRule, OrphanRule, IInv, Good, PtrOK
<1>2. \A q \in Proc : req'[q] = req[q] /\ (q # p => pc'[q] = pc[q] /\ ent'[q] = ent[q] /\ res'[q] = res[q])
  BY <1>0, SameCalls
<1>3. readM' = readM /\ dirtyM' = dirtyM /\ (\A j : EntryOf(j)' = EntryOf(j))
  BY DEF OrphanWays, tables, EntryOf
<1>4. \A q \in Proc \ {p} : Orphan(q)' <=> Orphan(q)
  BY <1>2, <1>3 DEF Orphan
<1>5. \A f \in Entry \ {e} : ptr'[f] = ptr[f]
  BY DEF OrphanWays, Waits, Retries, Reads, Takes, LInv, HInv, IInv, Good, PtrOK
<1>6. ptr'[e] = ptr[e] \/ (Takes(p) /\ ptr'[e] = Nil)
  BY <1>1 DEF OrphanWays, Waits, Retries, Reads, Takes, LInv, HInv, IInv, Good, PtrOK
<1>7. Current(k)' = Current(k)
  <2>1. EntryOf(k) # e /\ EntryOf(k) \in Slot
    BY <1>0, <1>1, Entries DEF InTables, HInv
  <2>2. EntryOf(k) # NoEntry => ptr'[EntryOf(k)] = ptr[EntryOf(k)]
    BY <1>5, <2>1 DEF Slot
  <2> QED
    BY <1>3, <2>2, CurrentIs, CurrentIsNext
\* The calls fit as they did after the step.
<1>8. ASSUME NEW q \in Proc PROVE FitsCall(G, k, q)
  <2>1. FitsCall(G, k, q)'
    BY DEF Fits
  <2>2. CASE q # p
    <3>1. ASSUME Orphan(q), May(q, G[q])' PROVE May(q, G[q])
      <4>1. ent[q] \in Entry
        BY <1>0, <3>1, OrphanMates
      <4>2. ptr'[ent[q]] = ptr[ent[q]] \/ ptr'[ent[q]] = Nil
        BY <1>5, <1>6, <4>1
      <4> QED
        BY <1>2, <2>2, <3>1, <4>2 DEF May, Live
    <3> QED
      BY <1>2, <1>4, <2>1, <2>2, <3>1 DEF FitsCall
  <2>3. CASE q = p
    <3>1. CASE Waits(p)
      <4>1. Orphan(p)'
        BY <1>1, <1>2, <1>3, <3>1 DEF Waits, Orphan, InTables
      <4>2. May(p, G[p])' => May(p, G[p])
        BY <1>2, <3>1 DEF Waits, May
      <4> QED
        BY <1>1, <1>2, <2>1, <2>3, <3>1, <4>1, <4>2 DEF FitsCall, Waits
    <3>2. CASE Retries(p)
      <4>1. ~Orphan(p)' /\ pc'[p] # "done"
        BY <3>2 DEF Retries, Orphan
      <4> QED
        BY <1>1, <1>2, <2>1, <2>3, <3>2, <4>1 DEF FitsCall, Retries
    <3>3. CASE (Reads(p) \/ Takes(p)) /\ May(p, res'[p])
      <4>1. G[p] = res'[p]
        BY <1>2, <2>1, <2>3, <3>3 DEF FitsCall, Reads, Takes
      <4>2. req[p].kind \notin Writers
        BY <3>3 DEF Reads, Takes, Deletes
      <4> QED
        BY <1>1, <2>3, <3>3, <4>1, <4>2 DEF FitsCall
    <3> QED
      BY <3>1, <3>2, <3>3 DEF OrphanWays
  <2> QED
    BY <2>2, <2>3
\* And of those at work on one entry one deletes it, p itself perhaps.
<1>9. ASSUME NEW q \in Proc, Orphan(q), req[q].key = k, Live(ptr[ent[q]]) PROVE OneDeletes(G, ent[q])
  <2> DEFINE f == ent[q]
  <2>0. \A y \in Proc : Orphan(y)' /\ req'[y].key = k /\ ent'[y] = f /\ Live(ptr'[f]) =>
          \E d \in Proc : \A x \in Proc :
            ent'[x] = f /\ Deletes(req[x].kind) /\ G[x].ok <=> x = d
    <3> SUFFICES ASSUME NEW y \in Proc, Orphan(y)', req'[y].key = k, ent'[y] = f, Live(ptr'[f])
                 PROVE  \E d \in Proc : \A x \in Proc :
                          ent'[x] = f /\ Deletes(req[x].kind) /\ G[x].ok <=> x = d
      OBVIOUS
    <3>1. OneDeletes(G, ent[y])'
      BY DEF Fits, Live
    <3> QED
      BY <1>2, <3>1 DEF OneDeletes, Deletes
  <2>1. CASE f # e
    <3>1. /\ Orphan(q)' /\ ent'[q] = f /\ ptr'[f] = ptr[f]
          /\ \A x \in Proc : ent'[x] = f <=> ent[x] = f
      BY <1>0, <1>9, <2>1, OrphanStays
    <3>2. PICK d \in Proc : \A x \in Proc :
            ent'[x] = f /\ Deletes(req[x].kind) /\ G[x].ok <=> x = d
      BY <1>2, <1>9, <2>0, <3>1
    <3> QED
      BY <3>1, <3>2 DEF OneDeletes
  <2>2. CASE f = e /\ Waits(p)
    <3>1. \A x \in Proc : ent'[x] = ent[x]
      BY <1>2, <2>2 DEF Waits
    <3>2. Orphan(q)' /\ ptr'[f] = ptr[f]
      BY <1>1, <1>2, <1>3, <1>4, <1>9, <2>2, <3>1 DEF Waits, Orphan
    <3>3. PICK d \in Proc : \A x \in Proc :
            ent'[x] = f /\ Deletes(req[x].kind) /\ G[x].ok <=> x = d
      BY <1>2, <1>9, <2>0, <3>1, <3>2
    <3> QED
      BY <3>1, <3>3 DEF OneDeletes
  <2>3. CASE f = e /\ Reads(p)
    <3>1. /\ ptr'[e] = ptr[e] /\ ent'[p] = NoEntry /\ req[p].kind # "LoadAndDelete"
          /\ ~(Deletes(req[p].kind) /\ res'[p].ok)
      BY <1>9, <2>3 DEF Reads
    <3>2. PICK l \in Proc : \A x \in Proc : ent[x] = e /\ req[x].kind = "LoadAndDelete" <=> x = l
      BY <1>0, <1>9, <2>3 DEF HInv, KeyRule, OrphanRule
    <3>3. l # p /\ ent[l] = e /\ Orphan(l)
      BY <1>1, <3>1, <3>2
    <3>4. Orphan(l)' /\ req'[l].key = k /\ ent'[l] = e
      BY <1>1, <1>2, <1>4, <3>3
    <3>5. PICK d \in Proc : \A x \in Proc :
            ent'[x] = f /\ Deletes(req[x].kind) /\ G[x].ok <=> x = d
      BY <1>9, <2>0, <2>3, <3>1, <3>4
    <3>6. G[p] = res'[p]
      BY <1>2, <2>3 DEF Fits, FitsCall, Reads
    <3>7. ent'[p] # f /\ \A x \in Proc \ {p} : ent'[x] = ent[x]
      BY <1>1, <1>2, <2>3, <3>1, SyncMapAssumption
    <3>8. ASSUME NEW x \in Proc
          PROVE  ent[x] = f /\ Deletes(req[x].kind) /\ G[x].ok <=> x = d
      BY <3>1, <3>5, <3>6, <3>7
    <3> QED
      BY <3>8 DEF OneDeletes
  <2>4. CASE f = e /\ Takes(p)
    <3>1. ASSUME NEW x \in Proc, x # p, ent[x] = e PROVE ~(Deletes(req[x].kind) /\ G[x].ok)
      <4>1. Orphan(x) /\ Orphan(x)' /\ ent'[x] = e /\ pc'[x] # "done" /\ req'[x] = req[x] /\ req[x].key = k
        BY <1>1, <1>2, <1>4, <3>1 DEF Orphan
      <4>2. ptr'[e] = Nil
        BY <1>1, <2>4 DEF Takes, LInv, HInv, IInv, Good, PtrOK
      <4>3. FitsCall(G, k, x)'
        BY DEF Fits
      <4>4. Deletes(req[x].kind) => May(x, G[x])'
        BY <4>1, <4>3 DEF FitsCall, Deletes
      <4>5. Deletes(req[x].kind) => G[x] = NoAnswer
        BY <4>1, <4>2, <4>4 DEF May, Live
      <4> QED
        BY <4>5 DEF NoAnswer
    <3>2. G[p] = res'[p]
      BY <1>2, <2>4 DEF Fits, FitsCall, Takes
    <3>3. Deletes(req[p].kind) /\ G[p].ok
      BY <2>4, <3>2 DEF Takes
    <3>4. \A x \in Proc : ent[x] = f /\ Deletes(req[x].kind) /\ G[x].ok <=> x = p
      BY <2>4, <3>1, <3>3
    <3> QED
      BY <3>4 DEF OneDeletes
  <2>5. CASE f = e /\ Retries(p)
    BY <1>9, <2>5 DEF Retries, Live
  <2> QED
    BY <2>1, <2>2, <2>3, <2>4, <2>5 DEF OrphanWays
<1> QED
  BY <1>7, <1>8, <1>9 DEF LInv, Covered, Fits

-----------------------------------------------------------------------------
\* LoadAndDelete takes an entry out of the dirty table: from then on the calls
\* at work on it answer as if the readers had come first, then the one call
\* that deletes the value, then the rest.
Loses(k, v, q, a) ==
  /\ Wants(q, k) /\ Asked[q] = req[q] /\ req[q].kind \in Loners
  /\ \/ a = NoAnswer
     \/ Live(v) /\ req[q].kind \in {"Load", "LoadAndDelete"} /\ a = [val |-> v, ok |-> TRUE]
     \/ Live(v) /\ req[q].kind = "CompareAndDelete" /\ req[q].old = v
        /\ a = [val |-> Nil, ok |-> TRUE]

\* The holders H of an entry of value v that leaves the tables, before they
\* answer as G says.
Gone(k, G, H, v) ==
  /\ Current(k) = v /\ Current(k)' = Nil
  /\ [now |-> v, given |-> [q \in Proc |-> IF q \in H THEN A!Pending ELSE G[q]]] \in A!Reach(k)
  /\ \A q \in H : Loses(k, v, q, G[q])
  /\ v # Nil => \E d \in Proc : \A q \in Proc :
                  q \in H /\ Deletes(req[q].kind) /\ G[q].ok <=> q = d

LEMMA RemovedFits ==
  ASSUME LInv, HInv', NEW p \in Proc, Moves(p), req'[p] = req[p],
         NEW CONSTANT k \in Key, Removed(p, k), NEW CONSTANT G \in Given, Fits(G, k)'
  PROVE  \E H \in SUBSET Proc, v \in Proc \cup {Nil} : Gone(k, G, H, v)
<1> DEFINE e == dirtyM[k]
           v == AsValue(ptr[e])
           H == {q \in Proc : ent'[q] = e}
           F == [q \in Proc |-> IF q \in H THEN A!Pending ELSE G[q]]
<1>0. HInv
  BY DEF LInv
<1>1. /\ pc[p] = "lock" /\ mu = Free /\ req[p].kind = "LoadAndDelete" /\ k = req[p].key
      /\ pc'[p] = "peek" /\ ent'[p] = e /\ ptr' = ptr /\ readM[k] = NoEntry /\ e # NoEntry
  BY DEF Removed
<1>2. /\ e = EntryOf(k) /\ e \in Entry /\ ptr[e] # Expunged /\ ptr[e] \in Pointer /\ e \notin Unreachable
  BY <1>0, <1>1 DEF EntryOf, HInv, IInv, Good, TablesOK, Table, Slot, TablesRule, EntryRule, PtrOK, Unreachable
<1>3. ent[p] = NoEntry
  BY <1>0, <1>1 DEF HInv, KeyRule, CallRule, Working
<1>4. EntryOf(k)' = NoEntry
  BY <1>0, EntryMoves DEF Moves, HInv
<1>5. /\ Current(k) = v /\ Current(k)' = Nil /\ v \in Proc \cup {Nil}
      /\ v = Nil => ptr[e] = Nil
      /\ v # Nil => ptr[e] = v /\ Live(v)
  BY <1>1, <1>2, <1>4, CurrentIs, CurrentIsNext DEF AsValue, Live, Pointer
<1>6. \A q \in Proc : req'[q] = req[q] /\ (q # p => pc'[q] = pc[q] /\ ent'[q] = ent[q] /\ res'[q] = res[q])
  BY SameCalls
<1>7. ASSUME NEW q \in H
      PROVE  /\ req[q].key = k /\ req[q].kind \in Loners /\ Orphan(q)' /\ ~Orphan(q)
             /\ pc[q] # "done" /\ pc'[q] # "done"
  <2>1. CASE q = p
    BY <1>1, <1>4, <1>6, <2>1 DEF Loners, Orphan
  <2>2. CASE q # p
    <3>1. ent[q] = e /\ q \in Proc
      BY <1>6, <2>2
    <3>2. Working(q) /\ req[q].key = k
      BY <1>0, <1>1, <1>2, <3>1 DEF HInv, KeyRule, CallRule, OwnRule
    <3>3. pc[q] \in {"peek", "cas"} /\ req[q].kind \in Loners
      BY <1>0, <1>1, <3>1, <3>2, SyncMapAssumption
         DEF Working, Loners, HInv, IInv, MuRule, KeyRule, DirtyOnlyRule
    <3> QED
      BY <1>1, <1>2, <1>4, <1>6, <2>2, <3>1, <3>2, <3>3 DEF Orphan
  <2> QED
    BY <2>1, <2>2
<1>8. \A q \in Proc : Orphan(q) => ent[q] # ent[p] /\ q # p /\ q \notin H /\ Orphan(q)'
  <2> SUFFICES ASSUME NEW q \in Proc, Orphan(q)
               PROVE  ent[q] # ent[p] /\ q # p /\ q \notin H /\ Orphan(q)'
    OBVIOUS
  <2>1. ent[q] # ent[p]
    BY <1>0, <1>3, OrphanMates, SyncMapAssumption
  <2> QED
    BY <1>0, <1>7, <2>1, OrphanStays
<1>9. \A q \in Proc : req[q].key = k /\ q \notin H /\ Orphan(q)' => Orphan(q)
  BY <1>1, <1>2, <1>6 DEF Orphan
<1>10. F \in Given
  BY DEF Given
<1>11. ASSUME NEW q \in Proc PROVE FitsCall(F, k, q)
  <2>1. CASE q \in H
    BY <1>7, <2>1 DEF FitsCall
  <2>2. CASE q \notin H
    <3>1. q # p
      BY <1>1, <2>2
    <3>2. FitsCall(G, k, q)
      BY <1>0, <1>8, <1>9, <2>2, <3>1, FitsBefore
    <3> QED
      BY <2>2, <3>2 DEF FitsCall
  <2> QED
    BY <2>1, <2>2
<1>12. ASSUME NEW q \in Proc, Orphan(q), req[q].key = k, Live(ptr[ent[q]]) PROVE OneDeletes(F, ent[q])
  <2>1. /\ Orphan(q)' /\ ent'[q] = ent[q] /\ \A x \in Proc : ent'[x] = ent[q] <=> ent[x] = ent[q]
    BY <1>0, <1>8, <1>12, OrphanStays
  <2>2. OneDeletes(G, ent[q])'
    BY <1>1, <1>6, <1>12, <2>1 DEF Fits, Live
  <2>3. PICK d \in Proc : \A x \in Proc :
          ent'[x] = ent[q] /\ Deletes(req[x].kind) /\ G[x].ok <=> x = d
    BY <1>6, <2>1, <2>2 DEF OneDeletes, Deletes
  <2>4. \A x \in Proc : ent[x] = ent[q] => F[x] = G[x]
    BY <1>0, <1>8, <1>12, OrphanMates
  <2> QED
    BY <2>1, <2>3, <2>4 DEF OneDeletes
<1>13. [now |-> v, given |-> F] \in A!Reach(k)
  <2>1. Fits(F, k)
    BY <1>11, <1>12 DEF Fits
  <2> QED
    BY <1>5, <1>10, <2>1 DEF LInv, Covered
<1>14. ASSUME NEW q \in H PROVE Loses(k, v, q, G[q])
  <2>1. FitsCall(G, k, q)'
    BY DEF Fits
  <2>2. May(q, G[q])'
    BY <1>6, <1>7, <2>1 DEF FitsCall, Loners
  <2>3. Wants(q, k) /\ Asked[q] = req[q] /\ req[q].kind \in Loners
    BY <1>0, <1>7, Wanting
  <2>4. ptr'[ent'[q]] = ptr[e] /\ req'[q] = req[q]
    BY <1>1, <1>6
  <2> QED
    BY <1>5, <2>2, <2>3, <2>4 DEF May, Loses, Live
<1>15. ASSUME v # Nil
       PROVE \E d \in Proc : \A q \in Proc : q \in H /\ Deletes(req[q].kind) /\ G[q].ok <=> q = d
  <2>1. Orphan(p)' /\ req'[p].key = k /\ Live(ptr'[ent'[p]])
    BY <1>1, <1>5, <1>6, <1>7, <1>15
  <2>2. OneDeletes(G, ent[p])'
    BY <2>1 DEF Fits, Live
  <2>3. PICK d \in Proc : \A x \in Proc :
          ent'[x] = ent'[p] /\ Deletes(req[x].kind) /\ G[x].ok <=> x = d
    BY <1>6, <2>2 DEF OneDeletes, Deletes
  <2> QED
    BY <1>1, <2>3
<1> QED
  <2> HIDE DEF v, F
  <2>1. H \in SUBSET Proc
    OBVIOUS
  <2>2. [q \in Proc |-> IF q \in H THEN A!Pending ELSE G[q]] = F
    BY DEF F
  <2> HIDE DEF H
  <2> QED
    BY <1>5, <1>13, <1>14, <1>15, <2>1, <2>2 DEF Gone

-----------------------------------------------------------------------------
\* What the calls that lose their entry do to the key.
LEMMA LosesNil ==
  ASSUME HInv, NEW k \in Key, NEW v, NEW q \in Proc, Loses(k, v, q, NoAnswer)
  PROVE  Idly(q, Nil, NoAnswer)
BY Wanting, IdleAtNil DEF Loses, Loners

LEMMA LosesRead ==
  ASSUME NEW k, NEW v \in Proc, NEW q \in Proc, NEW a, Loses(k, v, q, a), a.ok, ~Deletes(req[q].kind)
  PROVE  Idly(q, v, a)
<1>1. req[q].kind = "Load" /\ a = [val |-> v, ok |-> TRUE]
  BY DEF Loses, Loners, Deletes, NoAnswer
<1>2. (v # Nil) = TRUE
  BY SyncMapAssumption
<1> QED
  BY <1>1, <1>2 DEF Loses, Idly, A!Effect

LEMMA LosesDelete ==
  ASSUME NEW k, NEW v \in Proc, NEW q \in Proc, NEW a, Loses(k, v, q, a), a.ok, Deletes(req[q].kind)
  PROVE  A!Effect(q, Asked[q], v) = [now |-> Nil, answer |-> a]
<1>1. (v # Nil) = TRUE /\ Asked[q] = req[q]
  BY SyncMapAssumption DEF Loses
<1>2. CASE req[q].kind = "LoadAndDelete"
  <2>1. a = [val |-> v, ok |-> TRUE]
    BY <1>2 DEF Loses, NoAnswer
  <2> QED
    BY <1>1, <1>2, <2>1 DEF A!Effect
<1>3. CASE req[q].kind = "CompareAndDelete"
  <2>1. a = [val |-> Nil, ok |-> TRUE] /\ req[q].old = v
    BY <1>3 DEF Loses, NoAnswer
  <2> QED
    BY <1>1, <1>3, <2>1 DEF A!Effect
<1> QED
  BY <1>2, <1>3 DEF Deletes

LEMMA RemovedAdvance ==
  ASSUME LInv, HInv', NEW p \in Proc, Moves(p), req'[p] = req[p],
         NEW CONSTANT k \in Key, Removed(p, k), NEW CONSTANT G \in Given, Fits(G, k)'
  PROVE  [now |-> Current(k)', given |-> G] \in A!Reach(k)
<1>0. HInv /\ AskedOK /\ can[k] \subseteq Possible
  BY AskedType DEF LInv, CanOK
<1>1. PICK H \in SUBSET Proc, v \in Proc \cup {Nil} : Gone(k, G, H, v)
  BY RemovedFits
<1> DEFINE F == [q \in Proc |-> IF q \in H THEN A!Pending ELSE G[q]]
<1>2. F \in Given /\ \A q \in Proc : F[q] = IF q \in H THEN A!Pending ELSE G[q]
  BY DEF Given
<1>3. [now |-> v, given |-> F] \in A!Reach(k) /\ \A q \in H : Wants(q, k)
  BY <1>1 DEF Loses, Gone
<1> HIDE DEF F
<1>4. CASE v = Nil
  <2>1. ASSUME NEW q \in H PROVE Idly(q, Nil, G[q])
    <3>1. G[q] = NoAnswer
      BY <1>1, <1>4 DEF Loses, Live, Gone
    <3> QED
      BY <1>0, <1>1, <3>1, LosesNil DEF Gone
  <2>2. [now |-> Nil, given |-> G] \in A!Reach(k)
    BY <1>0, <1>2, <1>3, <1>4, <2>1, Absorb
  <2> QED
    BY <1>1, <2>2 DEF Gone
<1>5. CASE v # Nil
  <2>0. v \in Proc
    BY <1>5
  <2>1. PICK d \in Proc : \A q \in Proc : q \in H /\ Deletes(req[q].kind) /\ G[q].ok <=> q = d
    BY <1>1, <1>5 DEF Gone
  <2> DEFINE E == [q \in Proc |-> IF q \in H /\ q # d /\ G[q].ok THEN G[q] ELSE F[q]]
             D == [E EXCEPT ![d] = G[d]]
             c == [now |-> v, given |-> E]
  <2>2. E \in Given /\ \A q \in Proc : E[q] = IF q \in H /\ q # d /\ G[q].ok THEN G[q] ELSE F[q]
    BY <1>2 DEF Given
  <2> HIDE DEF E
  <2>3. \A q \in Proc : E[q] # F[q] => Wants(q, k) /\ F[q] = A!Pending /\ Idly(q, v, E[q])
    BY <1>1, <1>2, <1>3, <2>0, <2>1, <2>2, LosesRead DEF Gone
  <2>4. c \in A!Reach(k)
    BY <1>0, <1>2, <1>3, <2>2, <2>3, Absorb
  <2>5. d \in H /\ Wants(d, k) /\ E[d] = A!Pending /\ G[d].ok /\ Deletes(req[d].kind)
    BY <1>2, <1>3, <2>1, <2>2
  <2>6. A!Take(c, d) \in A!Reach(k)
    BY <1>0, <2>4, <2>5, ReachTakes
  <2>7. A!Effect(d, Asked[d], v) = [now |-> Nil, answer |-> G[d]]
    BY <1>1, <2>0, <2>5, LosesDelete DEF Gone
  <2>8. A!Take(c, d) = [now |-> Nil, given |-> D]
    <3>1. c.now = v /\ c.given = E
      OBVIOUS
    <3> QED
      BY <2>7, <3>1 DEF A!Take
  <2>9. D \in Given /\ \A q \in Proc : D[q] = IF q = d THEN G[q] ELSE E[q]
    BY <2>2 DEF Given
  <2> HIDE DEF D
  <2>10. ASSUME NEW q \in Proc, G[q] # D[q] PROVE Wants(q, k) /\ D[q] = A!Pending /\ Idly(q, Nil, G[q])
    <3>1. q \in H /\ ~G[q].ok /\ D[q] = A!Pending
      BY <1>2, <2>2, <2>9, <2>10
    <3>2. G[q] = NoAnswer
      BY <1>1, <3>1 DEF Loses, Gone
    <3> QED
      BY <1>0, <1>1, <1>3, <3>1, <3>2, LosesNil DEF Gone
  <2>11. [now |-> Nil, given |-> G] \in A!Reach(k)
    BY <1>0, <2>6, <2>8, <2>9, <2>10, Absorb
  <2> QED
    BY <1>1, <2>11 DEF Gone
<1> QED
  BY <1>4, <1>5

-----------------------------------------------------------------------------
\* A step that writes to no entry of a key leaves it its value.
LEMMA ReadsOnly ==
  ASSUME HInv, NEW p \in Proc, Moves(p), NEW CONSTANT k \in Key, ~Removed(p, k),
         pc[p] \notin {"cas", "swap", "insert"}
  PROVE  Current(k)' = Current(k)
BY CurrentKept DEF Fresh

LEMMA OtherKeys ==
  ASSUME HInv, NEW p \in Proc, Moves(p), NEW CONSTANT k \in Key, req[p].key # k
  PROVE  Silent(p, k)
<1>1. ~Fresh(p, k) /\ ~Removed(p, k)
  BY DEF Fresh, Removed
<1>2. pc[p] \in {"cas", "swap"} => ent[p] # EntryOf(k)
  BY KeyOf DEF Working, HInv, KeyRule, OwnRule
<1> QED
  BY <1>1, <1>2, CurrentKept DEF Silent

\* What the tables show of a key p found, and of one it did not.
LEMMA AbsentNow ==
  ASSUME HInv, NEW p \in Proc, Moves(p), NEW CONSTANT k \in Key, ~Removed(p, k), req[p].key = k,
         pc[p] \in {"read", "lock"}, EntryOf(k) = NoEntry, req[p].kind \notin Writers,
         pc'[p] = "done", res'[p] = NoAnswer
  PROVE  Answers(p, k)
<1>1. Current(k) = Nil
  BY CurrentIs
<1>2. Current(k)' = Nil
  BY <1>1, ReadsOnly
<1>3. Idly(p, Nil, NoAnswer)
  BY IdleAtNil
<1> QED
  BY <1>1, <1>2, <1>3 DEF Idly, Answers

LEMMA LookEffect ==
  ASSUME HInv, NEW p \in Proc, Moves(p), NEW CONSTANT k \in Key, ~Removed(p, k), req[p].key = k,
         Look(p) \/ LookLocked(p) \/ CompareLocked(p)
  PROVE  Silent(p, k) \/ Answers(p, k)
<1>1. pc[p] \in {"read", "lock"}
  BY DEF Look, LookLocked, CompareLocked
<1>2. CASE pc'[p] # "done"
  BY <1>1, <1>2, ReadsOnly DEF Silent
<1>3. CASE pc'[p] = "done"
  <2>1. ~Goto(p, "peek") /\ ~Goto(p, "lock")
    BY <1>3 DEF Goto, HInv, IInv, Good, ProcOK, CallsOK
  <2>2. res'[p] = NoAnswer /\ EntryOf(k) = NoEntry /\ req[p].kind \notin Writers
    <3>1. Answer(p, NoAnswer) => res'[p] = NoAnswer
      BY DEF Answer, HInv, IInv, Good, ProcOK, CallsOK
    <3>2. CASE Look(p)
      BY <2>1, <3>1, <3>2 DEF Look, EntryOf, HInv, AmendRule
    <3>3. CASE LookLocked(p)
      BY <2>1, <3>1, <3>3 DEF LookLocked, EntryOf, HInv, AmendRule
    <3>4. CASE CompareLocked(p)
      BY <2>1, <3>1, <3>4 DEF CompareLocked, EntryOf
    <3> QED
      BY <3>2, <3>3, <3>4
  <2> QED
    BY <1>1, <1>3, <2>2, AbsentNow
<1> QED
  BY <1>2, <1>3

\* The effect of a call on a key that holds v, by its kind.
Does(p, v, now, a) == A!Effect(p, Asked[p], v) = [now |-> now, answer |-> a]
Was(v) == [val |-> v, ok |-> v # Nil]
Yes == [val |-> Nil, ok |-> TRUE]

LEMMA Effects ==
  ASSUME HInv, NEW p \in Proc, NEW CONSTANT k \in Key, req[p].key = k, NEW v \in Proc \cup {Nil}
  PROVE  /\ req[p].kind = "Load" => Does(p, v, v, Was(v))
         /\ req[p].kind = "Swap" => Does(p, v, p, Was(v))
         /\ req[p].kind = "LoadAndDelete" => Does(p, v, Nil, Was(v))
         /\ req[p].kind = "LoadOrStore" /\ v # Nil => Does(p, v, v, Was(v))
         /\ req[p].kind = "LoadOrStore" /\ v = Nil => Does(p, v, p, [val |-> p, ok |-> FALSE])
         /\ req[p].kind \in Compares => req[p].old # Nil
         /\ req[p].kind = "CompareAndSwap" /\ v = req[p].old => Does(p, v, p, Yes)
         /\ req[p].kind = "CompareAndDelete" /\ v = req[p].old => Does(p, v, Nil, Yes)
         /\ req[p].kind \in Compares /\ v # req[p].old => Does(p, v, v, NoAnswer)
<1>1. Asked[p] = req[p] /\ req[p] \in Asks
  BY Wanting
<1>2. req[p].kind \in Compares => req[p].old # Nil
  BY <1>1 DEF Asks
<1> QED
  BY <1>1, <1>2 DEF A!Effect, NoAnswer, Does, Was, Yes

-----------------------------------------------------------------------------
LEMMA PeekEffect ==
  ASSUME HInv, NEW p \in Proc, Moves(p), NEW CONSTANT k \in Key, ~Removed(p, k), req[p].key = k,
         ~Orphan(p), Peek(p)
  PROVE  Silent(p, k) \/ Answers(p, k)
<1> DEFINE v == ptr[ent[p]]
           w == AsValue(v)
<1>1. pc[p] = "peek"
  BY DEF Peek
<1>2. Current(k)' = Current(k)
  BY <1>1, ReadsOnly
<1>3. CASE pc'[p] # "done"
  BY <1>2, <1>3 DEF Silent
<1>4. CASE pc'[p] = "done"
  <2>1. /\ ~(v = Expunged /\ req[p].kind \in Writers /\ mu # p) /\ Decided(p, v)
        /\ res'[p] = AnswerOf(p, v)
    BY <1>4 DEF Peek, Goto, Answer, HInv, IInv, Good, ProcOK, CallsOK
  <2>2. /\ ent[p] = EntryOf(k) /\ ent[p] \in Entry /\ v \in Pointer /\ ent[p] # NoEntry
        /\ mu = p /\ req[p].kind = "LoadOrStore" => v # Expunged
    BY <1>1, KeyOf DEF Orphan, Working, HInv, KeyRule, CallRule, IInv, Good, PtrOK
  <2>3. /\ Current(k) = w /\ w \in Proc \cup {Nil} /\ Live(v) = (w # Nil)
        /\ Live(v) => w = v
    BY <2>2, CurrentIs, SyncMapAssumption DEF AsValue, Live, Pointer
  <2>4. req[p].kind \notin Compares => res'[p] = Was(w)
    BY <2>1, <2>3 DEF AnswerOf, Was
  <2>5. Does(p, w, w, res'[p])
    <3>1. CASE req[p].kind = "Load"
      BY <2>3, <2>4, <3>1, Effects
    <3>2. CASE req[p].kind = "LoadAndDelete"
      <4>1. w = Nil
        BY <2>1, <2>3, <3>2 DEF Decided
      <4> QED
        BY <2>3, <2>4, <3>2, <4>1, Effects
    <3>3. CASE req[p].kind = "LoadOrStore"
      <4>1. w # Nil
        BY <2>1, <2>2, <2>3, <3>3 DEF Decided, Live
      <4> QED
        BY <2>3, <2>4, <3>3, <4>1, Effects
    <3>4. CASE req[p].kind \in Compares
      <4>1. w # req[p].old
        BY <2>1, <2>3, <3>4, Effects DEF Decided, AsValue
      <4>2. res'[p] = NoAnswer
        BY <2>1, <3>4 DEF AnswerOf
      <4> QED
        BY <2>3, <3>4, <4>1, <4>2, Effects
    <3> QED
      BY <2>1, <3>1, <3>2, <3>3, <3>4 DEF Decided
  <2> QED
    BY <1>2, <1>4, <2>3, <2>5 DEF Answers, Does
<1> QED
  BY <1>3, <1>4

\* A write to the entry of a key, which stays in the tables.
LEMMA WriteNow ==
  ASSUME HInv, NEW p \in Proc, Moves(p), NEW CONSTANT k \in Key, req[p].key = k,
         pc[p] \in {"cas", "swap"}, ent[p] = EntryOf(k), ptr[ent[p]] # Expunged,
         ptr' = [ptr EXCEPT ![ent[p]] = Swapped(p)]
  PROVE  /\ Current(k) = AsValue(ptr[ent[p]]) /\ Current(k)' = Swapped(p)
         /\ Current(k) \in Proc \cup {Nil}
<1>1. ent[p] \in Entry /\ ent[p] # NoEntry /\ ent[p] \notin Unreachable /\ ptr[ent[p]] \in Pointer
  BY KeyOf DEF Working, HInv, IInv, Good, PtrOK
<1>2. Current(k) = AsValue(ptr[ent[p]]) /\ Current(k) \in Proc \cup {Nil}
  BY <1>1, CurrentIs DEF AsValue, Live, Pointer
<1>3. Keep(k)
  BY <1>1, Entries DEF Moves, TableMove, Drop, Fresh, Removed, EntryOf
<1>4. EntryOf(k)' = ent[p]
  BY <1>3, EntryMoves DEF Moves, HInv
<1>5. ptr'[ent[p]] = Swapped(p)
  BY <1>1 DEF HInv, IInv, Good, PtrOK
<1>6. Swapped(p) \in Proc \cup {Nil} /\ AsValue(Swapped(p)) = Swapped(p)
  BY SyncMapAssumption DEF Swapped, AsValue, Live
<1>7. Current(k)' = AsValue(ptr'[ent[p]])
  BY <1>1, <1>4, CurrentIsNext
<1> QED
  BY <1>2, <1>5, <1>6, <1>7

LEMMA CasEffect ==
  ASSUME HInv, NEW p \in Proc, Moves(p), NEW CONSTANT k \in Key, ~Removed(p, k), req[p].key = k,
         ~Orphan(p), Cas(p)
  PROVE  Silent(p, k) \/ Answers(p, k)
<1> DEFINE w == AsValue(seen[p])
<1>1. pc[p] = "cas" /\ req[p].kind # "Range" /\ req[p] \in Asks /\ ent[p] = EntryOf(k) /\ SeenRule(p)
  BY KeyOf DEF Cas, Working, Orphan, HInv, KeyRule
<1>2. CASE ptr' = ptr /\ Goto(p, "peek")
  <2>1. Current(k)' = Current(k)
    BY <1>1, <1>2, CurrentKept DEF Fresh
  <2>2. pc'[p] # "done"
    BY <1>2 DEF Goto, HInv, IInv, Good, ProcOK, CallsOK
  <2> QED
    BY <2>1, <2>2 DEF Silent
<1>3. CASE /\ ptr[ent[p]] = seen[p] /\ ptr' = [ptr EXCEPT ![ent[p]] = Swapped(p)]
           /\ Answer(p, SwappedAnswer(p))
  <2>1. seen[p] # Expunged /\ seen[p] \in Pointer
    BY <1>1 DEF HInv, IInv, MuRule, Good, ProcOK, SlotsOK
  <2>2. Current(k) = w /\ Current(k)' = Swapped(p) /\ w \in Proc \cup {Nil}
    BY <1>1, <1>3, <2>1, WriteNow
  <2>3. w = seen[p] /\ Live(seen[p]) = (w # Nil)
    BY <2>1, SyncMapAssumption DEF AsValue, Live, Pointer
  <2>4. res'[p] = SwappedAnswer(p) /\ pc'[p] = "done"
    BY <1>3 DEF Answer, HInv, IInv, Good, ProcOK, CallsOK
  <2>5. Does(p, w, Swapped(p), res'[p])
    <3>1. CASE req[p].kind \in {"Swap", "LoadAndDelete"}
      <4>1. res'[p] = Was(w)
        BY <2>3, <2>4, <3>1 DEF SwappedAnswer, Was
      <4>2. CASE req[p].kind = "Swap"
        <5>1. Swapped(p) = p
          BY <4>2 DEF Swapped, Deletes
        <5> QED
          BY <2>2, <4>1, <4>2, <5>1, Effects
      <4>3. CASE req[p].kind = "LoadAndDelete"
        <5>1. Swapped(p) = Nil
          BY <4>3 DEF Swapped, Deletes
        <5> QED
          BY <2>2, <4>1, <4>3, <5>1, Effects
      <4> QED
        BY <3>1, <4>2, <4>3
    <3>2. CASE req[p].kind = "LoadOrStore"
      <4>1. res'[p] = [val |-> p, ok |-> FALSE]
        BY <2>4, <3>2 DEF SwappedAnswer
      <4>2. Swapped(p) = p /\ w = Nil
        BY <1>1, <2>3, <3>2 DEF Swapped, Deletes, SeenRule
      <4> QED
        BY <2>2, <3>2, <4>1, <4>2, Effects
    <3>3. CASE req[p].kind \in Compares
      <4>1. res'[p] = Yes
        BY <2>4, <3>3 DEF SwappedAnswer, Yes
      <4>2. w = req[p].old
        BY <1>1, <2>3, <3>3 DEF SeenRule
      <4>3. CASE req[p].kind = "CompareAndSwap"
        <5>1. Swapped(p) = p
          BY <4>3 DEF Swapped, Deletes
        <5> QED
          BY <2>2, <4>1, <4>2, <4>3, <5>1, Effects
      <4>4. CASE req[p].kind = "CompareAndDelete"
        <5>1. Swapped(p) = Nil
          BY <4>4 DEF Swapped, Deletes
        <5> QED
          BY <2>2, <4>1, <4>2, <4>4, <5>1, Effects
      <4> QED
        BY <3>3, <4>3, <4>4
    <3> QED
      BY <1>1, <3>1, <3>2, <3>3, SyncMapAssumption DEF SeenRule, Asks, Request
  <2> QED
    BY <2>2, <2>4, <2>5 DEF Answers, Does
<1> QED
  BY <1>2, <1>3 DEF Cas

LEMMA SwapEffect ==
  ASSUME HInv, NEW p \in Proc, Moves(p), NEW CONSTANT k \in Key, req[p].key = k, SwapLocked(p)
  PROVE  Answers(p, k)
<1> DEFINE v == ptr[ent[p]]
           w == AsValue(v)
<1>1. /\ pc[p] = "swap" /\ mu = p /\ ent[p] = EntryOf(k) /\ req[p].kind = "Swap" /\ v # Expunged
      /\ v \in Pointer
  BY KeyOf DEF SwapLocked, Working, HInv, IInv, MuRule, KeyRule, CallRule, Good, PtrOK
<1>2. Swapped(p) = p
  BY <1>1 DEF Swapped, Deletes
<1>3. Current(k) = w /\ Current(k)' = p /\ w \in Proc \cup {Nil}
  BY <1>1, <1>2, WriteNow DEF SwapLocked
<1>4. Live(v) = (w # Nil)
  BY <1>1, SyncMapAssumption DEF AsValue, Live, Pointer
<1>5. res'[p] = Was(w) /\ pc'[p] = "done"
  BY <1>4 DEF Was, SwapLocked, Answer, HInv, IInv, Good, ProcOK, CallsOK
<1> QED
  BY <1>1, <1>3, <1>5, Effects DEF Answers, Does

LEMMA InsertEffect ==
  ASSUME HInv, HInv', NEW p \in Proc, Moves(p), NEW CONSTANT k \in Key, req[p].key = k, Insert(p)
  PROVE  Answers(p, k)
<1>1. /\ pc[p] = "insert" /\ req[p].kind \in Writers /\ readM[k] = NoEntry /\ dirtyM[k] = NoEntry
      /\ readM' = readM
  BY DEF Insert, HInv, IInv, MuRule, KeyRule, CallRule
<1>2. PICK e \in Unreachable : ptr' = [ptr EXCEPT ![e] = p] /\ dirtyM' = [dirtyM EXCEPT ![k] = e]
  <2>1. Unreachable # {}
    BY DEF Insert
  <2>2. (CHOOSE f \in Unreachable : TRUE) \in Unreachable
    BY <2>1
  <2> QED
    BY <2>2 DEF Insert
<1>3. e \in Entry /\ e # NoEntry
  BY <1>2, FreshApart DEF HInv
<1>4. Current(k) = Nil
  BY <1>1, CurrentIs DEF EntryOf
<1>5. EntryOf(k)' = e /\ ptr'[e] = p
  BY <1>1, <1>2, <1>3 DEF EntryOf, HInv, IInv, Good, TablesOK, Table, PtrOK
<1>6. Current(k)' = p
  BY <1>3, <1>5, CurrentIsNext, SyncMapAssumption DEF AsValue, Live
<1>7. /\ pc'[p] = "done"
      /\ res'[p] = IF req[p].kind = "Swap" THEN NoAnswer ELSE [val |-> p, ok |-> FALSE]
  BY DEF Insert, Answer, HInv, IInv, Good, ProcOK, CallsOK
<1>8. Does(p, Nil, p, res'[p])
  <2>1. Was(Nil) = NoAnswer
    BY DEF Was, NoAnswer
  <2> QED
    BY <1>1, <1>7, <2>1, Effects
<1> QED
  BY <1>4, <1>6, <1>7, <1>8 DEF Answers, Does

LEMMA StepEffect ==
  ASSUME HInv, HInv', NEW p \in Proc, Step(p), Moves(p), NEW CONSTANT k \in Key,
         ~Removed(p, k), ~(Orphan(p) /\ req[p].key = k)
  PROVE  Silent(p, k) \/ Answers(p, k)
<1>1. CASE req[p].key # k
  BY <1>1, OtherKeys
<1>2. CASE req[p].key = k
  <2>1. req[p].kind # "Range"
    BY <1>2, Wanting
  <2>2. CASE Look(p) \/ LookLocked(p) \/ CompareLocked(p)
    BY <1>2, <2>2, LookEffect
  <2>3. CASE Peek(p)
    BY <1>2, <2>3, PeekEffect
  <2>4. CASE Cas(p)
    BY <1>2, <2>4, CasEffect
  <2>5. CASE SwapLocked(p)
    BY <1>2, <2>5, SwapEffect
  <2>6. CASE Insert(p)
    BY <1>2, <2>6, InsertEffect
  <2>7. CASE FoundLocked(p) \/ AbsentLocked(p) \/ CopyOne(p)
    <3>1. pc[p] \notin {"cas", "swap", "insert"}
      BY <2>7 DEF FoundLocked, AbsentLocked, CopyOne
    <3>2. pc'[p] # "done"
      BY <2>7 DEF FoundLocked, AbsentLocked, CopyOne, Goto, HInv, IInv, Good, ProcOK, CallsOK
    <3> QED
      BY <3>1, <3>2, ReadsOnly DEF Silent
  <2>8. ~RangeLook(p) /\ ~RangeLocked(p) /\ ~Visit(p) /\ ~VisitsDone(p)
    BY <2>1 DEF RangeLook, RangeLocked, Visit, VisitsDone, HInv, KeyRule, CallRule
  <2> QED
    BY <2>2, <2>3, <2>4, <2>5, <2>6, <2>7, <2>8 DEF Step
<1> QED
  BY <1>1, <1>2

-----------------------------------------------------------------------------
LEMMA StepKeepsCall == ASSUME HInv, NEW p \in Proc, Step(p) PROVE req' = req /\ pc[p] # "done"
BY DEF Step, Look, Peek, Cas, LookLocked, CompareLocked, FoundLocked, AbsentLocked, CopyOne, Insert,
   SwapLocked, RangeLook, RangeLocked, Visit, VisitsDone, StartVisits, Goto, Answer

LEMMA StepCovers ==
  ASSUME LInv, HInv', NEW p \in Proc, Step(p), Moves(p), can' = can, NEW CONSTANT k \in Key
  PROVE  Covered(k)'
<1>1. HInv /\ req' = req /\ pc[p] # "done"
  BY StepKeepsCall DEF LInv
<1>2. Asked' = Asked
  BY <1>1 DEF Asked
<1>3. A!Reach(k) \subseteq A!Reach(k)'
  BY <1>2, ReachSteady
<1>4. ASSUME NEW CONSTANT G \in Given, Fits(G, k)'
      PROVE  [now |-> Current(k)', given |-> G] \in A!Reach(k)
  <2>1. CASE Removed(p, k)
    BY <1>1, <1>4, <2>1, RemovedAdvance
  <2>2. CASE Orphan(p) /\ req[p].key = k
    <3>1. Peek(p) \/ Cas(p)
      BY <2>2 DEF Orphan, Step, Look, LookLocked, CompareLocked, FoundLocked, AbsentLocked, CopyOne,
         Insert, SwapLocked, RangeLook, RangeLocked, Visit, VisitsDone
    <3>2. OrphanWays(p)
      BY <1>1, <2>2, <3>1, OrphanStep
    <3> QED
      BY <1>4, <2>2, <3>2, OrphanAdvance
  <2>3. CASE ~Removed(p, k) /\ ~(Orphan(p) /\ req[p].key = k)
    <3>1. Silent(p, k) \/ Answers(p, k)
      BY <1>1, <2>3, StepEffect
    <3> QED
      BY <1>1, <1>4, <2>3, <3>1, Advance
  <2> QED
    BY <2>1, <2>2, <2>3
<1> QED
  BY <1>3, <1>4 DEF Covered

\* A call begins or ends: nothing else moves.
Ends(p) == /\ pc[p] \in {"idle", "done"} /\ pc'[p] \in {"idle", "read"}
           /\ UNCHANGED <<tables, ptr, ent>> /\ ent[p] = NoEntry
           /\ \A q \in Proc \ {p} : pc'[q] = pc[q] /\ req'[q] = req[q] /\ res'[q] = res[q]

LEMMA EndFits ==
  ASSUME HInv, NEW p \in Proc, Ends(p), NEW CONSTANT k \in Key, NEW CONSTANT G, Fits(G, k)',
         NEW F, \A q \in Proc \ {p} : F[q] = G[q], FitsCall(F, k, p)
  PROVE  Fits(F, k)
<1>1. /\ readM' = readM /\ dirtyM' = dirtyM /\ ptr' = ptr /\ ent' = ent
      /\ \A q \in Proc \ {p} : pc'[q] = pc[q] /\ req'[q] = req[q] /\ res'[q] = res[q]
  BY DEF Ends, tables
<1>2. \A q \in Proc \ {p} : (Orphan(q)' <=> Orphan(q)) /\ (May(q, G[q])' <=> May(q, G[q]))
  BY <1>1 DEF Orphan, EntryOf, May
<1>3. ASSUME NEW q \in Proc PROVE FitsCall(F, k, q)
  <2>1. CASE q # p
    <3>1. FitsCall(G, k, q)'
      BY DEF Fits
    <3>2. FitsCall(G, k, q)
      BY <1>1, <1>2, <2>1, <3>1 DEF FitsCall
    <3> QED
      BY <2>1, <3>2 DEF FitsCall
  <2> QED
    BY <2>1
<1>4. ASSUME NEW q \in Proc, Orphan(q), req[q].key = k, Live(ptr[ent[q]]) PROVE OneDeletes(F, ent[q])
  <2>1. q # p /\ ent[q] # NoEntry
    BY <1>4, KeyOf DEF Ends, Orphan, Working
  <2>2. OneDeletes(G, ent[q])'
    BY <1>1, <1>2, <1>4, <2>1 DEF Fits, Live
  <2>3. PICK d \in Proc : \A x \in Proc :
          ent'[x] = ent'[q] /\ Deletes(req'[x].kind) /\ G[x].ok <=> x = d
    BY <2>2 DEF OneDeletes, Deletes
  <2>4. ASSUME NEW x \in Proc PROVE ent[x] = ent[q] /\ Deletes(req[x].kind) /\ F[x].ok <=> x = d
    <3>1. CASE x = p
      BY <1>1, <2>1, <2>3, <3>1 DEF Ends
    <3>2. CASE x # p
      BY <1>1, <2>3, <3>2
    <3> QED
      BY <3>1, <3>2
  <2> QED
    BY <2>4 DEF OneDeletes
<1> QED
  BY <1>3, <1>4 DEF Fits

LEMMA EndsRest == ASSUME HInv, NEW p \in Proc, pc[p] \in {"idle", "done"} PROVE ent[p] = NoEntry
BY DEF HInv, KeyRule, CallRule, Working

\* For the keys the call that begins or ends is not about.
LEMMA EndCovers ==
  ASSUME LInv, NEW p \in Proc, Ends(p), NEW CONSTANT k \in Key, can'[k] = can[k],
         req[p].key # k, pc'[p] = "read" \/ req'[p].key # k
  PROVE  Covered(k)'
<1>1. HInv
  BY DEF LInv
<1>2. A!Reach(k) \subseteq A!Reach(k)'
  <2>1. \A q \in Proc : Wants(q, k) => q # p
    BY <1>1, Wanting
  <2>2. \A q \in Proc \ {p} : Asked'[q] = Asked[q]
    BY DEF Asked, Ends
  <2> QED
    BY <2>1, <2>2, ReachSteady
<1>3. ASSUME NEW CONSTANT G \in Given, Fits(G, k)'
      PROVE  [now |-> Current(k)', given |-> G] \in A!Reach(k)
  <2>1. FitsCall(G, k, p)'
    BY <1>3 DEF Fits
  <2>2. G[p] = A!Pending
    BY <2>1 DEF FitsCall, Ends, Orphan
  <2>3. FitsCall(G, k, p)
    BY <2>2 DEF FitsCall
  <2>4. Fits(G, k)
    BY <1>1, <1>3, <2>3, EndFits
  <2>5. Current(k)' = Current(k)
    BY DEF Current, Ends, tables
  <2> QED
    BY <1>3, <2>4, <2>5 DEF LInv, Covered
<1> QED
  BY <1>2, <1>3 DEF Covered

-----------------------------------------------------------------------------
\* An answer given leaves the possibilities that agree with it.
Answered(p, k) == {[c EXCEPT !.given[p] = A!Pending] : c \in {d \in A!Reach(k) : d.given[p] = res[p]}}

LEMMA ReturnCan ==
  ASSUME LInv, NEW p \in Proc, NEW CONSTANT k \in Key, req[p].key = k, can' = A!Returned(p, res[p])
  PROVE  /\ can' = [can EXCEPT ![k] = Answered(p, k)]
         /\ CanOK'
<1>1. Asked[p] = req[p] /\ AskedOK /\ HInv
  BY Wanting, AskedType DEF LInv
<1>2. can' = [can EXCEPT ![k] = Answered(p, k)]
  BY <1>1 DEF A!Returned, Answered
<1>3. A!Reach(k) \subseteq Possible
  BY <1>1, ReachTypes DEF LInv, CanOK
<1>4. Answered(p, k) \subseteq Possible
  <2> SUFFICES ASSUME NEW c \in A!Reach(k) PROVE [c EXCEPT !.given[p] = A!Pending] \in Possible
    BY DEF Answered
  <2>1. c \in Possible
    BY <1>3
  <2> QED
    BY <2>1 DEF Possible, Given
<1>5. can = [j \in Key |-> can[j]] /\ \A j \in Key : can[j] \subseteq Possible
  BY DEF LInv, CanOK
<1>6. can' = [j \in Key |-> can'[j]]
  BY <1>2, <1>5
<1>7. \A j \in Key : can'[j] \subseteq Possible
  <2>1. \A j \in Key : can'[j] = IF j = k THEN Answered(p, k) ELSE can[j]
    BY <1>2, <1>5
  <2> QED
    BY <1>4, <1>5, <2>1
<1> QED
  BY <1>2, <1>6, <1>7 DEF CanOK, Possible, Given

LEMMA ReachKeepsNext == ASSUME NEW CONSTANT k PROVE (can[k] \subseteq A!Reach(k))'
BY ReachKeeps, PTL

LEMMA ReturnCovers ==
  ASSUME LInv, NEW p \in Proc, Ends(p), pc[p] = "done", NEW CONSTANT k \in Key, req[p].key = k,
         req'[p].key # k, can' = A!Returned(p, res[p])
  PROVE  Covered(k)'
<1>1. HInv /\ res[p] \in AnswerSet
  BY DEF LInv, HInv, IInv, Good, ProcOK, CallsOK
<1>2. can'[k] = Answered(p, k)
  <2>1. can' = [can EXCEPT ![k] = Answered(p, k)]
    BY ReturnCan
  <2>2. can = [j \in Key |-> can[j]]
    BY DEF LInv, CanOK
  <2> QED
    BY <2>1, <2>2
<1>3. ASSUME NEW CONSTANT G \in Given, Fits(G, k)'
      PROVE  [now |-> Current(k)', given |-> G] \in can'[k]
  <2> DEFINE F == [G EXCEPT ![p] = res[p]]
             c == [now |-> Current(k), given |-> F]
  <2>1. F \in Given /\ F[p] = res[p] /\ \A q \in Proc \ {p} : F[q] = G[q]
    BY <1>1 DEF Given
  <2>2. FitsCall(F, k, p)
    BY <2>1 DEF FitsCall
  <2>3. Fits(F, k)
    BY <1>1, <1>3, <2>1, <2>2, EndFits
  <2>4. c \in A!Reach(k)
    BY <2>1, <2>3 DEF LInv, Covered
  <2>5. Current(k)' = Current(k)
    BY DEF Current, Ends, tables
  <2>6. G[p] = A!Pending
    BY <1>3 DEF Fits, FitsCall
  <2>7. [F EXCEPT ![p] = A!Pending] = G
    BY <2>1, <2>6 DEF Given
  <2>8. [c EXCEPT !.given[p] = A!Pending] = [now |-> Current(k)', given |-> G]
    <3> HIDE DEF F
    <3> QED
      BY <2>5, <2>7
  <2>9. c.given[p] = res[p]
    BY <2>1
  <2> QED
    BY <1>2, <2>4, <2>8, <2>9 DEF Answered
<1>4. can'[k] \subseteq A!Reach(k)'
  BY ReachKeepsNext
<1> QED
  BY <1>3, <1>4 DEF Covered

\* Something fits: the call that removed an entry deletes its value, and
\* the others at work on it find nothing.
LEMMA SomeFits ==
  ASSUME HInv, NEW CONSTANT k \in Key PROVE \E G \in Given : Fits(G, k)
<1> DEFINE v(q) == ptr[ent[q]]
           G == [q \in Proc |->
                   IF req[q].key # k THEN A!Pending
                   ELSE IF pc[q] = "done" THEN res[q]
                   ELSE IF Orphan(q) /\ req[q].kind \notin Writers
                        THEN IF Live(v(q)) /\ req[q].kind = "LoadAndDelete"
                             THEN [val |-> v(q), ok |-> TRUE] ELSE NoAnswer
                   ELSE A!Pending]
<1>1. \A q \in Proc : Orphan(q) => v(q) \in Pointer
  BY OrphanMates DEF HInv, IInv, Good, PtrOK
<1>2. \A q \in Proc : Orphan(q) /\ Live(v(q)) => [val |-> v(q), ok |-> TRUE] \in AnswerSet
  BY <1>1 DEF Pointer, Live, AnswerSet
<1>3. G \in Given
  BY <1>2, NoAnswerType DEF Given, HInv, IInv, Good, ProcOK, CallsOK
<1>4. \A q \in Proc : FitsCall(G, k, q)
  BY DEF FitsCall, May
<1>5. ASSUME NEW q \in Proc, Orphan(q), req[q].key = k, Live(v(q)) PROVE OneDeletes(G, ent[q])
  <2>1. PICK d \in Proc : \A x \in Proc : ent[x] = ent[q] /\ req[x].kind = "LoadAndDelete" <=> x = d
    BY <1>5 DEF HInv, KeyRule, OrphanRule
  <2>2. ASSUME NEW x \in Proc, ent[x] = ent[q]
        PROVE  Deletes(req[x].kind) /\ G[x].ok <=> req[x].kind = "LoadAndDelete"
    <3>1. Orphan(x) /\ req[x].key = k /\ pc[x] # "done" /\ Live(v(x))
      BY <1>5, <2>2, OrphanMates DEF Orphan
    <3>2. req[x].kind \notin Writers
      BY <3>1 DEF HInv, KeyRule, OrphanRule, Loners, Live
    <3>3. G[x] = IF req[x].kind = "LoadAndDelete" THEN [val |-> v(x), ok |-> TRUE] ELSE NoAnswer
      BY <3>1, <3>2
    <3> QED
      BY <3>3 DEF NoAnswer, Deletes
  <2>3. \A x \in Proc : ent[x] = ent[q] /\ Deletes(req[x].kind) /\ G[x].ok <=> x = d
    BY <2>1, <2>2
  <2> QED
    BY <2>3 DEF OneDeletes
<1> QED
  BY <1>3, <1>4, <1>5 DEF Fits

-----------------------------------------------------------------------------
\* A step of SyncMapHistory and what AtomicMap sees of it.
LEMMA CallEnds == ASSUME HInv, NEW p \in Proc, NEW r \in Asks, Call(p, r)
                  PROVE  /\ Ends(p) /\ pc[p] = "idle" /\ pc'[p] = "read" /\ req[p] = NoRequest
                         /\ req' = [req EXCEPT ![p] = r]
<1>1. pc[p] = "idle" /\ pc'[p] = "read" /\ req[p] = NoRequest /\ ent[p] = NoEntry
  BY EndsRest DEF Call, HInv, IInv, Good, ProcOK, CallsOK, KeyRule, CallRule
<1> QED
  BY <1>1 DEF Call, Ends, slot, HInv, IInv, Good, ProcOK, CallsOK

LEMMA ReturnEnds == ASSUME HInv, NEW p \in Proc, Return(p)
                    PROVE  /\ Ends(p) /\ pc[p] = "done" /\ req'[p] = NoRequest
                           /\ req' = [req EXCEPT ![p] = NoRequest]
<1>1. pc[p] = "done" /\ pc'[p] = "idle" /\ req'[p] = NoRequest /\ ent[p] = NoEntry
  BY EndsRest DEF Return, HInv, IInv, Good, ProcOK, CallsOK
<1> QED
  BY <1>1 DEF Return, Ends, slot, HInv, IInv, Good, ProcOK, CallsOK

\* A step of p, in a call or at its ends.
HStep(p) == \/ (\E r \in Asks : Call(p, r)) /\ UNCHANGED can
            \/ Step(p) /\ UNCHANGED can
            \/ Return(p) /\ can' = IF Ranging(p) THEN can ELSE A!Returned(p, res[p])

LEMMA NoKeyed == NoRequest.key = NoKey /\ NoKey \notin Key
BY SyncMapAssumption DEF NoRequest

LEMMA HStepCovers ==
  ASSUME LInv, HInv', NEW p \in Proc, HStep(p)
  PROVE  CanOK' /\ \A k \in Key : Covered(k)'
<1>1. HInv
  BY DEF LInv
<1>2. CASE Step(p) /\ UNCHANGED can
  <2>1. Moves(p)
    BY <1>1, <1>2, StepProper DEF Proper
  <2>2. ASSUME NEW CONSTANT k \in Key PROVE Covered(k)'
    BY <1>2, <2>1, StepCovers
  <2> QED
    BY <1>2, <2>2 DEF LInv, CanOK, Possible, Given
<1>3. CASE (\E r \in Asks : Call(p, r)) /\ UNCHANGED can
  <2>1. Ends(p) /\ pc'[p] = "read" /\ req[p] = NoRequest
    BY <1>1, <1>3, CallEnds
  <2>2. ASSUME NEW CONSTANT k \in Key PROVE Covered(k)'
    <3>1. req[p].key # k
      BY <2>1, NoKeyed
    <3> QED
      BY <1>3, <2>1, <3>1, EndCovers
  <2> QED
    BY <1>3, <2>2 DEF LInv, CanOK, Possible, Given
<1>4. CASE Return(p) /\ can' = IF Ranging(p) THEN can ELSE A!Returned(p, res[p])
  <2>1. Ends(p) /\ pc[p] = "done" /\ req'[p] = NoRequest /\ req[p] \in Asks
    BY <1>1, <1>4, ReturnEnds DEF HInv, IInv, Good, ProcOK, WorkOK
  <2>2. \A k \in Key : req'[p].key # k
    BY <2>1, NoKeyed
  <2>3. CASE Ranging(p)
    <3>1. \A k \in Key : req[p].key # k
      BY <1>1, <2>3, Wanting DEF Ranging
    <3>2. ASSUME NEW CONSTANT k \in Key PROVE Covered(k)'
      BY <1>4, <2>1, <2>2, <2>3, <3>1, EndCovers
    <3> QED
      BY <1>4, <2>3, <3>2 DEF LInv, CanOK, Possible, Given
  <2>4. CASE ~Ranging(p)
    <3>1. PICK j \in Key : req[p].key = j
      BY <2>1, <2>4 DEF Ranging, Asks, Request
    <3>2. can' = A!Returned(p, res[p])
      BY <1>4, <2>4
    <3>3. can' = [can EXCEPT ![j] = Answered(p, j)] /\ CanOK'
      BY <3>1, <3>2, ReturnCan
    <3>4. ASSUME NEW CONSTANT k \in Key PROVE Covered(k)'
      <4>1. CASE k = j
        BY <2>1, <2>2, <3>1, <3>2, <4>1, ReturnCovers
      <4>2. CASE k # j
        <5>1. can'[k] = can[k]
          BY <3>3, <4>2 DEF LInv, CanOK
        <5> QED
          BY <2>1, <2>2, <3>1, <4>2, <5>1, EndCovers
      <4> QED
        BY <4>1, <4>2
    <3> QED
      BY <3>3, <3>4
  <2> QED
    BY <2>3, <2>4
<1> QED
  BY <1>2, <1>3, <1>4 DEF HStep

LEMMA HStepRefines ==
  ASSUME LInv, NEW p \in Proc, HStep(p)
  PROVE  A!Next \/ UNCHANGED <<Asked, can>>
<1>1. HInv
  BY DEF LInv
<1>2. CASE Step(p) /\ UNCHANGED can
  BY <1>1, <1>2, StepKeepsCall DEF Asked
<1>3. CASE (\E r \in Asks : Call(p, r)) /\ UNCHANGED can
  <2>1. PICK r \in Asks : Call(p, r)
    BY <1>3
  <2>2. req[p] = NoRequest /\ req' = [req EXCEPT ![p] = r]
    BY <1>1, <2>1, CallEnds
  <2>3. req \in [Proc -> Asks \cup {NoRequest}]
    BY <1>1 DEF HInv, IInv, Good, ProcOK, CallsOK
  <2>4. Asked[p] = A!Unasked
    BY <2>2 DEF Asked, NoRequest, A!Unasked
  <2>5. CASE r.kind = "Range"
    <3>1. Asked' = Asked
      BY <2>2, <2>3, <2>5 DEF Asked
    <3> QED
      BY <1>3, <3>1
  <2>6. CASE r.kind # "Range"
    <3>1. r \in A!Requests
      BY <2>6 DEF Asks, Request, A!Requests
    <3>2. Asked' = [Asked EXCEPT ![p] = r]
      BY <2>2, <2>3, <2>6 DEF Asked
    <3> QED
      BY <1>3, <2>4, <3>1, <3>2 DEF A!Next, A!Call
  <2> QED
    BY <2>5, <2>6
<1>4. CASE Return(p) /\ can' = IF Ranging(p) THEN can ELSE A!Returned(p, res[p])
  <2>1. /\ pc[p] = "done" /\ req[p] \in Asks /\ req' = [req EXCEPT ![p] = NoRequest]
        /\ req \in [Proc -> Asks \cup {NoRequest}]
    BY <1>1, <1>4, ReturnEnds DEF HInv, IInv, Good, ProcOK, WorkOK, CallsOK
  <2>2. CASE Ranging(p)
    <3>1. Asked' = Asked
      BY <2>1, <2>2 DEF Asked, Ranging, NoRequest
    <3> QED
      BY <1>4, <2>2, <3>1
  <2>3. CASE ~Ranging(p)
    <3>1. PICK j \in Key : req[p].key = j
      BY <2>1, <2>3 DEF Ranging, Asks, Request
    <3>2. Asked[p] = req[p] /\ Asked[p].key = j /\ Asked[p] # A!Unasked
      BY <1>1, <3>1, Wanting, NoKeyed DEF A!Unasked
    <3>3. Asked' = [Asked EXCEPT ![p] = A!Unasked]
      BY <2>1 DEF Asked, NoRequest, A!Unasked
    <3>4. PICK G \in Given : Fits(G, j)
      BY <1>1, SomeFits
    <3> DEFINE c == [now |-> Current(j), given |-> G]
    <3>5. c \in A!Reach(j)
      BY <3>4 DEF LInv, Covered
    <3>6. G[p] = res[p]
      BY <2>1, <3>1, <3>4 DEF Fits, FitsCall
    <3>7. res[p] # A!Pending
      BY <1>1, PendingNoAnswer DEF HInv, IInv, Good, ProcOK, CallsOK
    <3>8. c \in A!Reach(Asked[p].key) /\ c.given[p] # A!Pending /\ can' = A!Returned(p, c.given[p])
      BY <1>4, <2>3, <3>2, <3>5, <3>6, <3>7
    <3> HIDE DEF c
    <3>9. A!Return(p)
      BY <3>2, <3>3, <3>8 DEF A!Return
    <3> QED
      BY <3>9 DEF A!Next
  <2> QED
    BY <2>2, <2>3
<1> QED
  BY <1>2, <1>3, <1>4 DEF HStep

LEMMA LInvInit == ASSUME HInit PROVE LInv /\ A!Init
<1>1. HInv
  BY InitHInv DEF HInit
<1>2. A!Init
  BY DEF HInit, Init, A!Init, Asked, NoRequest, A!Unasked
<1> DEFINE G0 == [p \in Proc |-> A!Pending]
           c0 == [now |-> Nil, given |-> G0]
<1>3. c0 \in Possible /\ can = [k \in Key |-> {c0}]
  BY DEF HInit, Possible, Given
<1>4. CanOK
  BY <1>3 DEF CanOK
<1>5. ASSUME NEW k \in Key PROVE Covered(k)
  <2>1. Current(k) = Nil
    BY DEF HInit, Init, EmptyTable, Current
  <2>2. ASSUME NEW G \in Given, Fits(G, k) PROVE G = G0
    <3>1. \A p \in Proc : G[p] = A!Pending
      BY <2>2, NoKeyed DEF HInit, Init, Fits, FitsCall
    <3> QED
      BY <3>1 DEF Given
  <2>3. c0 \in A!Reach(k)
    BY <1>3, ReachKeeps
  <2> QED
    BY <2>1, <2>2, <2>3 DEF Covered
<1> QED
  BY <1>1, <1>2, <1>4, <1>5 DEF LInv

LEMMA HNextStep ==
  ASSUME LInv, HNext PROVE LInv' /\ (A!Next \/ UNCHANGED <<Asked, can>>)
<1>1. PICK p \in Proc : HStep(p)
  BY DEF HNext, HStep
<1>2. HInv'
  BY StepOfOne DEF LInv
<1> QED
  BY <1>1, <1>2, HStepCovers, HStepRefines DEF LInv

-----------------------------------------------------------------------------
LEMMA HInvStutter == ASSUME HInv, UNCHANGED hvars PROVE HInv'
BY DEF hvars, vars, tables, slot, walk, HInv, IInv, Good, TablesOK, PtrOK, ProcOK,
   CallsOK, SlotsOK, WorkOK, WalksOK, TablesRule, Distinct, NoDirty, EntryRule, Copying, MuRule,
   AmendRule, KeyRule, CallRule, SeenRule, SnapRule, OwnRule, DirtyOnlyRule, OrphanRule, Working,
   Orphan, InTables, EntryOf

LEMMA LInvStutter == ASSUME LInv, UNCHANGED hvars PROVE LInv' /\ UNCHANGED <<Asked, can>>
<1>1. HInv' /\ can' = can /\ Asked' = Asked
  BY HInvStutter DEF LInv, hvars, vars, Asked
<1>2. CanOK'
  BY <1>1 DEF LInv, CanOK, Possible, Given
<1>3. ASSUME NEW CONSTANT k \in Key PROVE Covered(k)'
  <2>1. A!Reach(k) \subseteq A!Reach(k)'
    BY <1>1, ReachSteady
  <2>2. Current(k)' = Current(k)
    BY DEF hvars, vars, tables, Current
  <2>3. ASSUME NEW CONSTANT G \in Given, Fits(G, k)' PROVE Fits(G, k)
    <3>1. /\ readM' = readM /\ dirtyM' = dirtyM /\ ptr' = ptr /\ ent' = ent /\ pc' = pc
          /\ req' = req /\ res' = res
      BY DEF hvars, vars, tables, slot
    <3>2. \A q \in Proc : (Orphan(q)' <=> Orphan(q)) /\ (May(q, G[q])' <=> May(q, G[q]))
      BY <3>1 DEF Orphan, EntryOf, May
    <3>3. ASSUME NEW q \in Proc PROVE FitsCall(G, k, q)
      <4>1. FitsCall(G, k, q)'
        BY <2>3 DEF Fits
      <4> QED
        BY <3>1, <3>2, <4>1 DEF FitsCall
    <3>4. ASSUME NEW q \in Proc, Orphan(q), req[q].key = k, Live(ptr[ent[q]]) PROVE OneDeletes(G, ent[q])
      <4>1. OneDeletes(G, ent[q])'
        BY <2>3, <3>1, <3>2, <3>4 DEF Fits, Live
      <4> QED
        BY <3>1, <4>1 DEF OneDeletes, Deletes
    <3> QED
      BY <3>3, <3>4 DEF Fits
  <2> QED
    BY <2>1, <2>2, <2>3 DEF LInv, Covered
<1> QED
  BY <1>1, <1>2, <1>3 DEF LInv

\* Linearizable of SyncMapHistory, for any finite number of goroutines and
\* any keys and entries: the calls on a key answer as if each had taken effect
\* at one instant between its start and its end.
THEOREM LinearizableCorrect == HSpec => Linearizable
<1>1. HInit => LInv /\ A!Init
  BY LInvInit
<1>2. LInv /\ [HNext]_hvars => LInv' /\ [A!Next]_<<Asked, can>>
  BY HNextStep, LInvStutter
<1> QED
  BY <1>1, <1>2, PTL DEF HSpec, Linearizable, A!Spec
=============================================================================

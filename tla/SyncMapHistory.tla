--------------------------- MODULE SyncMapHistory ---------------------------
(***************************************************************************)
(* SyncMap with two history variables: the possibilities AtomicMap keeps,  *)
(* so that SyncMap can be shown to implement it, and for each Range under  *)
(* way the values every key has held since it was called.                  *)
(***************************************************************************)
EXTENDS SyncMap

ASSUME HistoryAssumption == IsFiniteSet(Proc) /\ NoKey \notin Proc \cup {Nil}

VARIABLES can, held

hvars == <<vars, can, held>>

\* Range is no operation on one key: AtomicMap does not see it.
Asked == [p \in Proc |-> IF req[p].kind = "Range" THEN NoRequest ELSE req[p]]
A == INSTANCE AtomicMap WITH ask <- Asked, Kinds <- Kinds \ {"Range"}

\* What the tables say the key holds now.
Current(k) ==
  CASE readM[k] # NoEntry  -> AsValue(ptr[readM[k]])
    [] readM[k] = NoEntry /\ dirtyM[k] # NoEntry -> AsValue(ptr[dirtyM[k]])
    [] OTHER -> Nil

Ranging(p) == req[p].kind = "Range"

HInit == /\ Init
         /\ can = [k \in Key |-> {[now |-> Nil, given |-> [p \in Proc |-> A!Pending]]}]
         /\ held = [p \in Proc |-> [k \in Key |-> {}]]

HNext ==
  /\ \E p \in Proc :
       \/ (\E r \in Asks : Call(p, r)) /\ UNCHANGED can
       \/ Step(p) /\ UNCHANGED can
       \/ Return(p) /\ can' = IF Ranging(p) THEN can ELSE A!Returned(p, res[p])
  /\ held' = [p \in Proc |-> [k \in Key |->
                IF Ranging(p)' THEN held[p][k] \cup {Current(k)'} ELSE {}]]

HSpec == HInit /\ [][HNext]_hvars

-----------------------------------------------------------------------------
\* The promise of a map used by many goroutines at once: the calls on a key
\* answer as if each had happened at one instant between its start and its
\* end, through promotions, expunging and the gap between LoadAndDelete's
\* removal from the dirty table and its delete of the entry.
Linearizable == A!Spec

\* Range's comment: it "may reflect any mapping for that key from any point
\* during the Range call", and it covers "all of the keys that were already
\* present at the start": a value it hands to the callback, and a key it
\* finds without one or does not find at all, held at some moment since the
\* call began.
RangeSees ==
  [][\A p \in Proc :
       LET left == todo[p] \ todo'[p] IN
       /\ pc[p] = "visit" /\ Cardinality(left) = 1 =>
            \A k \in left : AsValue(ptr[snap[p][k]]) \in held[p][k]
       /\ pc[p] # "visit" /\ pc'[p] = "visit" =>
            \A k \in Key \ todo'[p] : Nil \in held'[p][k]]_hvars
=============================================================================

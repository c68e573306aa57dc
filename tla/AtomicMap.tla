------------------------------ MODULE AtomicMap ------------------------------
(***************************************************************************)
(* What a concurrent map promises its callers: every call takes effect at  *)
(* one instant between its start and its end.  A caller cannot see that    *)
(* instant, so the state is the set of all possibilities it has not yet    *)
(* excluded: for each key, what the key may hold now together with the     *)
(* answers of the calls that may already have taken effect.  A call may    *)
(* return an answer only if some possibility gives it that answer.         *)
(*                                                                         *)
(* Each operation concerns one key, so the map is linearizable exactly if  *)
(* every key is.                                                           *)
(***************************************************************************)
EXTENDS Naturals, FiniteSets

CONSTANTS Proc, Key, Nil, NoKey, Kinds

VARIABLES ask,     \* the call each process is in
          can      \* for each key, the possibilities [now, given]

Writers == {"Swap", "LoadOrStore"}
Unasked == [kind |-> "none", key |-> NoKey, old |-> Nil]
Requests == {r \in [kind : Kinds, key : Key, old : Proc \cup {Nil}] :
               (r.old = Nil) <=> (r.kind \notin {"CompareAndSwap", "CompareAndDelete"})}

Pending == [val |-> NoKey, ok |-> FALSE]     \* no answer yet: no call returns this

\* What the call r of p does to a key that holds v (Nil: it is absent).
Effect(p, r, v) ==
  LET was == [val |-> v, ok |-> v # Nil]
      yes(now) == [now |-> now, answer |-> [val |-> Nil, ok |-> TRUE]]
      no == [now |-> v, answer |-> [val |-> Nil, ok |-> FALSE]]
  IN  CASE r.kind = "Load"          -> [now |-> v, answer |-> was]
        [] r.kind = "Swap"          -> [now |-> p, answer |-> was]
        [] r.kind = "LoadAndDelete" -> [now |-> Nil, answer |-> was]
        [] r.kind = "LoadOrStore"   ->
             IF v # Nil THEN [now |-> v, answer |-> was]
                        ELSE [now |-> p, answer |-> [val |-> p, ok |-> FALSE]]
        [] r.kind = "CompareAndSwap"   -> IF v = r.old THEN yes(p) ELSE no
        [] r.kind = "CompareAndDelete" -> IF v = r.old THEN yes(Nil) ELSE no

\* One call of p takes effect in possibility c.
Take(c, p) ==
  LET e == Effect(p, ask[p], c.now)
  IN  [now |-> e.now, given |-> [c.given EXCEPT ![p] = e.answer]]

Widen(C, k) ==
  C \cup UNION {{Take(c, p) : p \in {q \in Proc : ask[q].key = k /\ c.given[q] = Pending}} :
                 c \in C}

\* All possibilities once any calls under way have taken effect in any order.
Reach(k) ==
  LET after[n \in 0..Cardinality(Proc)] ==
        IF n = 0 THEN can[k] ELSE Widen(after[n - 1], k)
  IN  after[Cardinality(Proc)]

\* The possibilities left once p has returned with answer a.
Returned(p, a) ==
  LET k == ask[p].key
  IN  [can EXCEPT ![k] = {[c EXCEPT !.given[p] = Pending] :
                            c \in {d \in Reach(k) : d.given[p] = a}}]

-----------------------------------------------------------------------------
Init ==
  /\ ask = [p \in Proc |-> Unasked]
  /\ can = [k \in Key |-> {[now |-> Nil, given |-> [p \in Proc |-> Pending]]}]

Call(p) == /\ ask[p] = Unasked
           /\ \E r \in Requests : ask' = [ask EXCEPT ![p] = r]
           /\ UNCHANGED can

Return(p) == /\ ask[p] # Unasked
             /\ ask' = [ask EXCEPT ![p] = Unasked]
             /\ \E c \in Reach(ask[p].key) :
                  c.given[p] # Pending /\ can' = Returned(p, c.given[p])

Next == \E p \in Proc : Call(p) \/ Return(p)

Spec == Init /\ [][Next]_<<ask, can>>
=============================================================================

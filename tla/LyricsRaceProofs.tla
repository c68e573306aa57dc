-------------------------- MODULE LyricsRaceProofs --------------------------
(***************************************************************************)
(* The rule of lookupProviders decides neither too soon nor too late, for  *)
(* any number of providers: Unbeatable and Prompt.                         *)
(***************************************************************************)
EXTENDS LyricsRace, TLAPS

\* Some provider still out stands in the way of i.
Open(r, i) == BlockedAhead(r, i) \/ UpgradePending(r, i)

Decided  == flight = "won" => chosen \in Providers /\ IsBest(reply, chosen) /\ ~Open(reply, chosen)
Open4All == flight = "racing" => \A b \in Providers : IsBest(reply, b) => Open(reply, b)
IInv     == TypeOK /\ Decided /\ Open4All

-----------------------------------------------------------------------------
\* bestFound names one provider.
LEMMA BestUnique ==
  ASSUME N \in Nat, NEW r \in [Providers -> Error..Word], NEW b \in Providers, NEW c \in Providers,
         IsBest(r, b), IsBest(r, c)
  PROVE  b = c
BY DEF IsBest, Better, Providers, Error, Word

\* If nothing is open, no way of going on gives a better answer.
LEMMA ClosedIsFinal ==
  ASSUME N \in Nat, TypeOK, NEW b \in Providers, IsBest(reply, b), ~Open(reply, b),
         NEW r \in Completions
  PROVE  IsBest(r, b)
<1> USE DEF Found, Finished, Providers, Plain, Line, Word, Out, Miss, Error
<1>1. reply \in [Providers -> Error..Word] /\ r \in [Providers -> Answers]
  BY DEF TypeOK, Completions
<1>2. r[b] = reply[b] /\ reply[b] \in {Plain, Line, Word}
  BY <1>1 DEF IsBest, Completions
<1>3. ASSUME NEW j \in Providers \ {b}  PROVE Better(r, b, j)
  <2>0. r[j] \in Answers
    BY <1>1
  <2>1. CASE Finished(reply, j)
    BY <1>1, <1>2, <2>1 DEF Completions, IsBest, Better
  <2>2. CASE ~Finished(reply, j) /\ j < b
    <3>1. reply[b] = Word /\ j \notin marked
      BY <1>2, <2>2 DEF Open, BlockedAhead
    <3>2. r[j] # Word
      BY <2>2, <3>1 DEF Completions
    <3> QED BY <1>2, <2>0, <3>1, <3>2 DEF Better, Answers
  <2>3. CASE ~Finished(reply, j) /\ j > b
    <3>1. reply[b] = Word \/ (reply[b] = Line /\ j \notin marked)
      BY <1>2, <2>3 DEF Open, UpgradePending
    <3>2. r[j] = Word => j \in marked
      BY <2>3 DEF Completions
    <3> QED BY <1>2, <2>0, <2>3, <3>1, <3>2 DEF Better, Answers
  <2> QED BY <2>1, <2>2, <2>3
<1> QED BY <1>2, <1>3 DEF IsBest

\* If something is open, one way of going on beats the best so far.
LEMMA OpenIsBeatable ==
  ASSUME N \in Nat, TypeOK, NEW b \in Providers, IsBest(reply, b), Open(reply, b)
  PROVE  \E r \in Completions : ~IsBest(r, b)
<1> USE DEF Found, Finished, Plain, Line, Word, Out, Miss, Error
<1>1. reply \in [Providers -> Error..Word] /\ reply[b] \in {Plain, Line, Word}
  BY DEF TypeOK, IsBest
<1>2. PICK j \in Providers \ {b} :
        /\ ~Finished(reply, j)
        /\ \/ j < b /\ (reply[b] < Word \/ j \in marked)
           \/ j > b /\ (reply[b] = Plain \/ (reply[b] = Line /\ j \in marked))
  BY DEF Open, BlockedAhead, UpgradePending, Providers
<1> DEFINE better == IF j \in marked THEN Word ELSE Line
           r == [i \in Providers |-> IF Finished(reply, i) THEN reply[i]
                                     ELSE IF i = j THEN better ELSE Miss]
<1>3. r \in Completions
  BY <1>1, <1>2 DEF Completions, Answers
<1>4. r[b] = reply[b] /\ r[j] = better
  BY <1>1, <1>2
<1>5. ~Better(r, b, j)
  BY <1>1, <1>2, <1>4 DEF Better, Providers
<1> HIDE DEF r
<1> QED BY <1>2, <1>3, <1>5 DEF IsBest

-----------------------------------------------------------------------------
LEMMA InitIInv == ASSUME N \in Nat, MaxFlights \in Nat PROVE Init => IInv
<1> SUFFICES ASSUME Init PROVE IInv
  OBVIOUS
<1>1. Out \in Error..Word /\ 0 \in 0..MaxFlights
  BY DEF Out, Error, Word
<1>2. TypeOK
  BY <1>1 DEF Init, TypeOK
<1>3. Decided /\ Open4All
  BY DEF Init, Decided, Open4All
<1> QED BY <1>2, <1>3 DEF IInv

LEMMA NextIInv ==
  ASSUME N \in Nat, MaxFlights \in Nat, IInv, [Next]_vars PROVE IInv'
<1> USE DEF IInv, Error, Word, Plain, Line, Out, Miss, Answers
<1>1. ASSUME NEW i \in Providers, NEW a \in Answers, Receive(i, a) PROVE IInv'
  <2> DEFINE r == [reply EXCEPT ![i] = a]
  <2>1. r \in [Providers -> Error..Word] /\ reply' = r /\ marked' = marked
    BY <1>1 DEF Receive, TypeOK
  <2>2. flight' \in {"racing", "won", "miss", "error"}
    BY <1>1 DEF Receive, Ends
  <2>3. TypeOK'
    BY <1>1, <2>1, <2>2 DEF Receive, Ends, TypeOK
  <2>4. Decided'
    BY <1>1, <2>1 DEF Receive, Ends, Decided, Open, BlockedAhead, UpgradePending, Finished, IsBest, Found, Better
  <2>5. ASSUME flight' = "racing", NEW b \in Providers, IsBest(reply, b)'  PROVE Open(reply, b)'
    <3>0. IsBest(r, b)
      BY <2>1, <2>5 DEF IsBest, Found, Better
    <3>1. PICK c \in Providers : IsBest(r, c) /\ Open(r, c)
      BY <1>1, <2>1, <2>5 DEF Receive, Ends, IsBest, Open
    <3>2. b = c
      BY <2>1, <3>0, <3>1, BestUnique
    <3> QED BY <2>1, <3>1, <3>2 DEF Open, BlockedAhead, UpgradePending, Finished
  <2>6. Open4All'
    BY <2>5 DEF Open4All
  <2> QED BY <2>3, <2>4, <2>6
<1>2. CASE GraceFires
  BY <1>2 DEF GraceFires, Ends, TypeOK, Decided, Open4All
<1>3. CASE Deadline
  BY <1>3 DEF Deadline, Ends, TypeOK, Decided, Open4All
<1>4. ASSUME NEW c \in Callers, Join(c) PROVE IInv'
  BY <1>4 DEF Join, TypeOK, Decided, Open4All, IsBest, Found, Better, Open, BlockedAhead, UpgradePending, Finished
<1>5. ASSUME NEW c \in Callers, Cancel(c) \/ Forget(c) PROVE IInv'
  BY <1>5 DEF Cancel, FlightGoesOn, Forget, TypeOK, Decided, Open4All, IsBest, Found, Better, Open,
              BlockedAhead, UpgradePending, Finished
<1>6. CASE UNCHANGED vars
  BY <1>6 DEF vars, TypeOK, Decided, Open4All, IsBest, Found, Better, Open, BlockedAhead, UpgradePending, Finished
<1> QED BY <1>1, <1>2, <1>3, <1>4, <1>5, <1>6 DEF Next

LEMMA Inductive == ASSUME N \in Nat, MaxFlights \in Nat PROVE Spec => []IInv
<1>1. Init => IInv
  BY InitIInv
<1>2. IInv /\ [Next]_vars => IInv'
  BY NextIInv
<1> QED BY <1>1, <1>2, PTL DEF Spec

-----------------------------------------------------------------------------
\* What wins before all providers have answered cannot be beaten any more by
\* those still out (the comment of lookupProviders), for any number of them.
THEOREM UnbeatableCorrect == ASSUME N \in Nat, MaxFlights \in Nat PROVE Spec => []Unbeatable
<1>1. IInv => Unbeatable
  BY ClosedIsFinal DEF IInv, Decided, Unbeatable
<1> QED BY <1>1, Inductive, PTL

\* While the flight goes on without a winner, a provider still out could beat
\* the best one: lookupProviders never waits for what cannot matter.
THEOREM PromptCorrect == ASSUME N \in Nat, MaxFlights \in Nat PROVE Spec => []Prompt
<1>1. IInv => Prompt
  BY OpenIsBeatable DEF IInv, Open4All, Prompt
<1> QED BY <1>1, Inductive, PTL
=============================================================================

----------------------------- MODULE LyricsRule -----------------------------
(***************************************************************************)
(* The rule of lookupProviders in lyrics/lyrics.go: which answer is the    *)
(* best, and when a provider still asked might have a better one.  The     *)
(* providers are numbered in the order of priority the caller gave.        *)
(***************************************************************************)
EXTENDS Integers

CONSTANT N           \* number of providers

Providers == 1..N

\* tier(): what is found; below zero, nothing is.
Plain == 0  Line == 1  Word == 2
Out   == -1                  \* still asked
Miss  == -2                  \* "no lyrics"
Error == -3                  \* an error, the rate limit or the deadline
Answers == Error..Word \ {Out}

VARIABLES
  marked,      \* the providers marked WordSync
  reply,       \* what each has answered
  flight,      \* "none", "racing", and how it ended: "won", "grace", "late", "miss", "error"
  chosen       \* the provider whose lyrics were returned, or 0

-----------------------------------------------------------------------------
Found(r, i)    == r[i] >= Plain
Finished(r, i) == r[i] # Out

\* bestFound: the highest tier, the order of priority breaks ties.
Better(r, i, j) == r[i] > r[j] \/ (r[i] = r[j] /\ i < j)
IsBest(r, i)    == Found(r, i) /\ \A j \in Providers \ {i} : Better(r, i, j)

BlockedByAny(r, i) == \E j \in 1..(i - 1) : ~Finished(r, j)
BlockedAhead(r, i) == \E j \in 1..(i - 1) : ~Finished(r, j) /\ (r[i] < Word \/ j \in marked)

UpgradeOnlyPlain(r, i) == \E j \in (i + 1)..N : ~Finished(r, j) /\ r[i] = Plain
UpgradePending(r, i) ==
  \E j \in (i + 1)..N : ~Finished(r, j) /\ (r[i] = Plain \/ (r[i] = Line /\ j \in marked))

LeaderFound(r) == \E i \in Providers : Found(r, i) /\ \A j \in 1..(i - 1) : Finished(r, j)

-----------------------------------------------------------------------------
\* The ways the flight could have gone on: every provider still out answers;
\* one that is not marked WordSync is not expected to have word sync.
Completions ==
  {r \in [Providers -> Answers] : \A i \in Providers :
     IF Finished(reply, i) THEN r[i] = reply[i] ELSE r[i] = Word => i \in marked}

\* "A result wins once nothing still out can beat it": what is returned
\* before all have answered, with no timer involved, is what the rule (tier,
\* then priority) picks from all the answers, whatever they would have been.
Unbeatable == flight = "won" => \A r \in Completions : IsBest(r, chosen)

\* And no sooner than that can be said does the caller get it: while the
\* flight goes on, a provider still out could beat the best one.
Prompt ==
  flight = "racing" => \A b \in Providers :
    IsBest(reply, b) => \E r \in Completions : ~IsBest(r, b)
=============================================================================

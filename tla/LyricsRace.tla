----------------------------- MODULE LyricsRace -----------------------------
(***************************************************************************)
(* Client.Lookup of lyrics/lyrics.go for one track: callers share a flight *)
(* (singleflight), which asks every provider at once and must decide, as   *)
(* the answers come in, whether the best one so far may be returned.  An   *)
(* answer stands in reply when the loop has received it: one that waits in *)
(* the buffered channel is still out to the loop.                          *)
(***************************************************************************)
EXTENDS LyricsRule

CONSTANTS Callers,     \* goroutines that call Lookup for the same key
          MaxFlights   \* bound: flights started

VARIABLES
  grace,       \* the grace timer is armed
  caller,      \* each caller: "idle", "waiting", "served", "cancelled"
  flights      \* flights started

vars == <<marked, reply, grace, flight, chosen, caller, flights>>

-----------------------------------------------------------------------------
\* The flight ends: its callers get what it returns, the providers still out
\* are cancelled and nobody reads their answers.
Ends(how, i) ==
  /\ flight' = how /\ chosen' = i /\ grace' = FALSE
  /\ caller' = [c \in Callers |-> IF caller[c] = "waiting" THEN "served" ELSE caller[c]]

\* One turn of the loop with an answer a of provider i: return the best one,
\* or arm the timer and go on, or end when nobody is left to answer.
Receive(i, a) ==
  LET r == [reply EXCEPT ![i] = a] IN
  /\ flight = "racing" /\ ~Finished(reply, i)
  /\ reply' = r
  /\ \/ \E b \in Providers :
          /\ IsBest(r, b)
          /\ \/ /\ ~BlockedAhead(r, b) /\ ~UpgradePending(r, b)
                /\ Ends("won", b)
             \/ /\ BlockedAhead(r, b) \/ UpgradePending(r, b)
                /\ grace' = (grace \/ LeaderFound(r))
                /\ UNCHANGED <<flight, chosen, caller>>
     \/ /\ \A b \in Providers : ~Found(r, b)
        /\ IF \E j \in Providers : ~Finished(r, j)
           THEN UNCHANGED <<grace, flight, chosen, caller>>
           ELSE Ends(IF \E j \in Providers : r[j] = Miss THEN "miss" ELSE "error", 0)
  /\ UNCHANGED <<marked, flights>>

GraceFires ==
  /\ flight = "racing" /\ grace
  /\ \E b \in Providers : IsBest(reply, b) /\ Ends("grace", b)
  /\ UNCHANGED <<marked, reply, flights>>

\* The 12 seconds are over: the best one after all, or the deadline's error.
Deadline ==
  /\ flight = "racing"
  /\ \/ \E b \in Providers : IsBest(reply, b) /\ Ends("late", b)
     \/ (\A b \in Providers : ~Found(reply, b)) /\ Ends("error", 0)
  /\ UNCHANGED <<marked, reply, flights>>

\* DoChan: a caller joins the flight, or starts one.
Join(c) ==
  /\ caller[c] = "idle"
  /\ caller' = [caller EXCEPT ![c] = "waiting"]
  /\ \/ flight = "racing" /\ UNCHANGED <<reply, flight, chosen, flights>>
     \/ /\ flight # "racing" /\ flights < MaxFlights
        /\ flight' = "racing" /\ flights' = flights + 1
        /\ reply' = [i \in Providers |-> Out] /\ chosen' = 0
  /\ UNCHANGED <<marked, grace>>

\* A caller's context is cancelled: it leaves, the flight goes on without it.
CancelFlight(c) == flight' = "error"
FlightGoesOn(c) == flight' = flight

Cancel(c) ==
  /\ caller[c] = "waiting"
  /\ caller' = [caller EXCEPT ![c] = "cancelled"]
  /\ FlightGoesOn(c) /\ UNCHANGED <<marked, reply, grace, chosen, flights>>

Forget(c) ==
  /\ caller[c] \in {"served", "cancelled"}
  /\ caller' = [caller EXCEPT ![c] = "idle"]
  /\ UNCHANGED <<marked, reply, grace, flight, chosen, flights>>

Init ==
  /\ marked \in SUBSET Providers
  /\ reply = [i \in Providers |-> Out] /\ grace = FALSE
  /\ flight = "none" /\ chosen = 0
  /\ caller = [c \in Callers |-> "idle"] /\ flights = 0

Next == \/ \E i \in Providers, a \in Answers : Receive(i, a)
        \/ GraceFires \/ Deadline
        \/ \E c \in Callers : Join(c) \/ Cancel(c) \/ Forget(c)

Spec == Init /\ [][Next]_vars

-----------------------------------------------------------------------------
TypeOK ==
  /\ marked \subseteq Providers /\ reply \in [Providers -> Error..Word]
  /\ grace \in BOOLEAN /\ chosen \in Providers \cup {0} /\ flights \in 0..MaxFlights
  /\ flight \in {"none", "racing", "won", "grace", "late", "miss", "error"}
  /\ caller \in [Callers -> {"idle", "waiting", "served", "cancelled"}]

\* "Once priority alone has a winner, the wait for better sync is bounded by
\* syncGrace": the timer ends the flight, though no other provider ever
\* answers, whoever cancelled or joined meanwhile.
FairSpec == Spec /\ WF_vars(GraceFires)
LeaderServed == (flight = "racing" /\ LeaderFound(reply)) ~> flight \in {"won", "grace", "late"}
=============================================================================

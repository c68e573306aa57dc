------------------------------ MODULE BootTimer ------------------------------
(***************************************************************************)
(* boottimer/timer_linux.go: a timerfd, a goroutine that reads it, and a   *)
(* channel of one place.  Reset drains the channel and re-arms the timerfd *)
(* while the goroutine may hold an expiry it has read.  The program waits  *)
(* on the channel and looks at the deadline again, as the comment of Timer *)
(* asks it to.  Without a timerfd the standard timer stands in: external.  *)
(***************************************************************************)
EXTENDS Naturals

CONSTANT MaxResets     \* bound: calls of Reset

VARIABLES
  timerfd,   \* "armed", "expired" (and not read) or "read"
  reader,    \* the goroutine: "read", "send" or "gone"
  c,         \* the channel C holds a value
  reset,     \* Reset in progress: "none", "drain" or "arm"
  resets,
  open,      \* Stop has not closed the timerfd
  due        \* history: the deadline of the last arming has passed, and the
             \* program has not been woken since

vars == <<timerfd, reader, c, reset, resets, open, due>>

-----------------------------------------------------------------------------
\* arm: settime forgets an expiry that was not read.  A delay that is not
\* positive becomes a nanosecond, so that the timer expires all the same.
Arm == timerfd' = "armed" /\ due' = FALSE

Reset ==
  /\ open /\ reset = "none" /\ resets < MaxResets
  /\ reset' = "drain" /\ resets' = resets + 1
  /\ UNCHANGED <<timerfd, reader, c, open, due>>

DrainThenArm == <<"drain", "arm">>
ArmThenDrain == <<"arm", "drain">>
ResetOrder == DrainThenArm

ResetStep ==
  /\ reset \in {"drain", "arm"}
  /\ LET now == IF reset = "drain" THEN ResetOrder[1] ELSE ResetOrder[2] IN
     IF now = "drain" THEN c' = FALSE /\ UNCHANGED <<timerfd, due>> ELSE Arm /\ UNCHANGED c
  /\ reset' = IF reset = "drain" THEN "arm" ELSE "none"
  /\ UNCHANGED <<reader, resets, open>>

\* Stop closes the file; the timer is not used afterwards.
Stop == /\ open /\ reset = "none"
        /\ open' = FALSE
        /\ UNCHANGED <<timerfd, reader, c, reset, resets, due>>

\* CLOCK_BOOTTIME reaches the deadline.
Expire == /\ timerfd = "armed" /\ open
          /\ timerfd' = "expired" /\ due' = TRUE
          /\ UNCHANGED <<reader, c, reset, resets, open>>

\* file.Read: parked until the timer has expired, or an error after Stop.
ReadExpiry ==
  /\ reader = "read"
  /\ \/ open /\ timerfd = "expired" /\ timerfd' = "read" /\ reader' = "send"
     \/ ~open /\ reader' = "gone" /\ UNCHANGED timerfd
  /\ UNCHANGED <<c, reset, resets, open, due>>

\* The send does not wait: a full channel is a wake-up already.
Send == /\ reader = "send"
        /\ c' = TRUE /\ reader' = "read"
        /\ UNCHANGED <<timerfd, reset, resets, open, due>>

\* The program takes the value and looks at the clock.
Receive == /\ c
           /\ c' = FALSE /\ due' = FALSE
           /\ UNCHANGED <<timerfd, reader, reset, resets, open>>

Init == /\ timerfd = "armed" /\ reader = "read" /\ c = FALSE
        /\ reset = "none" /\ resets = 0 /\ open = TRUE /\ due = FALSE

Next == Reset \/ ResetStep \/ Stop \/ Expire \/ ReadExpiry \/ Send \/ Receive

\* The reader goroutine and a Reset that began are scheduled, the program
\* receives.
Fairness == WF_vars(ReadExpiry) /\ WF_vars(Send) /\ WF_vars(ResetStep) /\ WF_vars(Receive)
Spec == Init /\ [][Next]_vars /\ Fairness

-----------------------------------------------------------------------------
TypeOK ==
  /\ timerfd \in {"armed", "expired", "read"} /\ reader \in {"read", "send", "gone"}
  /\ reset \in {"none", "drain", "arm"} /\ resets \in 0..MaxResets /\ {c, open, due} \subseteq BOOLEAN

\* A deadline that has passed wakes the program, unless it re-arms or stops
\* the timer: no Reset takes away the fire of its own arming, and no value of
\* an earlier one makes it go unnoticed.
Wakes == (due /\ open) ~> (~due \/ ~open)
=============================================================================

-------------------------------- MODULE Portal --------------------------------
(***************************************************************************)
(* portal/request.go and secret.go: RetrieveSecret of one application.     *)
(* The method call returns at once with the path of a Request object; the  *)
(* user's answer is a Response signal of that object, and the secret comes *)
(* through a pipe.  The bus delivers a signal only to those whose match it *)
(* has at that moment.  The path is predicted from a token; portals older  *)
(* than 0.9 choose another one.  The connection to the bus may be lost:    *)
(* calls fail then, no signal comes any more, and the channel of signals   *)
(* is closed, whose nil wait passes over again and again.                  *)
(***************************************************************************)
EXTENDS FiniteSets

CONSTANT None

VARIABLES
  old,        \* the portal chooses the path itself
  client,     \* where RetrieveSecret is, or how it ended
  path,       \* the waiter's path
  matches,    \* the paths whose Response the bus delivers
  signals,    \* the Responses delivered: path and code
  request,    \* the portal's Request: None, "open", or the answer
  replied,    \* the reply of the method call is on its way
  pipe,       \* the portal's end of the pipe is open
  cancelled,  \* the context
  gone        \* the connection is lost

vars == <<old, client, path, matches, signals, request, replied, pipe, cancelled, gone>>

Codes  == {"granted", "dismissed", "failed"}
Ended  == {"secret", "error", "context"}
Handle == IF old THEN "chosen" ELSE "predicted"

Goto(at) == client' = at /\ UNCHANGED <<old, path, matches, signals, request, replied, pipe, cancelled, gone>>

-----------------------------------------------------------------------------
\* The pipe and the token; the application calls when it likes.
Begin == client = "idle" /\ Goto("first")

\* newResponseWaiter: the match is there before the call is made.
SubscribeFirst == <<"predicted", "call">>
CallFirst      == <<"call", "predicted">>
Order == SubscribeFirst

StartStep ==
  /\ client \in {"first", "second"} /\ ~gone
  /\ IF (IF client = "first" THEN Order[1] ELSE Order[2]) = "call"
     THEN request' = "open" /\ pipe' = TRUE /\ UNCHANGED matches
     ELSE matches' = matches \cup {"predicted"} /\ UNCHANGED <<request, pipe>>
  /\ client' = IF client = "first" THEN "second" ELSE "called"
  /\ UNCHANGED <<old, path, signals, replied, cancelled, gone>>

\* An error of the bus or of the portal, at any call.
CallFails == /\ client \in {"first", "second", "called", "redirect"}
             /\ client' = "error" /\ matches' = {}
             /\ UNCHANGED <<old, path, signals, request, replied, pipe, cancelled, gone>>

\* The call has no context: it waits for the reply.
Reply == /\ request # None /\ ~replied /\ ~gone /\ replied' = TRUE
         /\ UNCHANGED <<old, client, path, matches, signals, request, pipe, cancelled, gone>>

Returned == client = "called" /\ replied /\ Goto(IF Handle = path THEN "wait" ELSE "redirect")

\* redirect, for an old portal: the match on the path it chose.
Redirect == /\ client = "redirect" /\ ~gone
            /\ path' = Handle /\ matches' = {Handle} /\ client' = "wait"
            /\ UNCHANGED <<old, signals, request, replied, pipe, cancelled, gone>>

\* wait: signals of other requests are passed over, and nil, which changes nothing.
Own(s) == s.path = path
Await(s) ==
  /\ client = "wait" /\ s \in signals
  /\ signals' = signals \ {s}
  /\ client' = IF ~Own(s) THEN "wait" ELSE IF s.code = "granted" THEN "read" ELSE "error"
  /\ matches' = IF client' = "error" THEN {} ELSE matches
  /\ UNCHANGED <<old, path, request, replied, pipe, cancelled, gone>>

ContextEnds == /\ client = "wait" /\ cancelled
               /\ client' = "context" /\ matches' = {}
               /\ UNCHANGED <<old, path, signals, request, replied, pipe, cancelled, gone>>

\* io.ReadAll ends when the portal has closed its end, whatever the context.
ReadSecret == /\ client = "read" /\ ~pipe
              /\ client' = "secret" /\ matches' = {}
              /\ UNCHANGED <<old, path, signals, request, replied, pipe, cancelled, gone>>

-----------------------------------------------------------------------------
\* The portal: it may answer at once, before its reply has been read.
Heard(p) == ~gone /\ (p \in matches \/ (p = "other" /\ matches # {}))
Deliver(p, code) == signals' = IF Heard(p) THEN signals \cup {[path |-> p, code |-> code]} ELSE signals

Respond(code) ==
  /\ request = "open" /\ request' = code
  /\ Deliver(Handle, code)
  /\ UNCHANGED <<old, client, path, matches, replied, pipe, cancelled, gone>>

\* A Response of another request of the same connection: every channel gets it.
OtherResponse(code) == /\ Deliver("other", code)
                       /\ UNCHANGED <<old, client, path, matches, request, replied, pipe, cancelled, gone>>

ClosePipe == /\ pipe /\ request \in Codes /\ pipe' = FALSE
             /\ UNCHANGED <<old, client, path, matches, signals, request, replied, cancelled, gone>>

Cancel == /\ ~cancelled /\ cancelled' = TRUE
          /\ UNCHANGED <<old, client, path, matches, signals, request, replied, pipe, gone>>

Lose == /\ ~gone /\ gone' = TRUE
        /\ UNCHANGED <<old, client, path, matches, signals, request, replied, pipe, cancelled>>

Init == /\ old \in BOOLEAN
        /\ client = "idle" /\ path = "predicted" /\ matches = {} /\ signals = {}
        /\ request = None /\ replied = FALSE /\ pipe = FALSE /\ cancelled = FALSE
        /\ gone = FALSE

Next == \/ Begin \/ StartStep \/ CallFails \/ Returned \/ Redirect \/ ContextEnds \/ ReadSecret
        \/ \E s \in signals : Await(s)
        \/ Reply \/ ClosePipe \/ Cancel \/ Lose \/ \E code \in Codes : Respond(code) \/ OtherResponse(code)

\* RetrieveSecret goes on, its calls on a lost connection fail; the portal replies
\* and closes its end of the pipe.
AwaitOwn == \E s \in signals : Own(s) /\ Await(s)
Fairness == /\ WF_vars(StartStep \/ Returned \/ Redirect \/ ReadSecret) /\ WF_vars(AwaitOwn)
            /\ WF_vars(gone /\ CallFails) /\ WF_vars(ContextEnds) /\ WF_vars(Reply) /\ WF_vars(ClosePipe)
Spec == Init /\ [][Next]_vars /\ Fairness

-----------------------------------------------------------------------------
TypeOK ==
  /\ client \in {"idle", "first", "second", "called", "redirect", "wait", "read"} \cup Ended
  /\ path \in {"predicted", "chosen"} /\ matches \subseteq {"predicted", "chosen"}
  /\ signals \subseteq [path : {"predicted", "chosen", "other"}, code : Codes]
  /\ request \in {None, "open"} \cup Codes /\ {old, replied, pipe, cancelled, gone} \subseteq BOOLEAN

\* Only the portal's answer to this request yields a secret.
GrantedOnly == client = "secret" => request = "granted"

\* "closing the race between call and signal": an answer of a portal that uses
\* the predicted path ends RetrieveSecret, however soon it comes, and only the
\* answer to this request yields a secret; where the connection is lost first,
\* the end of the context ends it.
Answered ==
  /\ []GrantedOnly
  /\ (request \in Codes /\ ~old) ~> (client \in Ended \/ gone)
  /\ (gone /\ cancelled) ~> client \in Ended \cup {"idle"}
=============================================================================

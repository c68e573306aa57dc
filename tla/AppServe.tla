------------------------------- MODULE AppServe -------------------------------
(***************************************************************************)
(* app/serve.go with the runners it is made for: the HTTP server of        *)
(* httpapi/server.go, the socket server of ipc/server.go and a function.   *)
(* A signal or the first error ends the context of all; Serve then shuts   *)
(* them down one after the other, while each also stops by itself.         *)
(***************************************************************************)
EXTENDS Naturals, Sequences

CONSTANTS Kind,     \* the runners in the order given: sequence of "http", "ipc" and "func"
          None

VARIABLES
  run,       \* Run of each runner: "begin", "serve", "shutdown", "nil" or "error"
  stopped,   \* the listener of each is closed, and its server knows it is
  errCh,     \* http: what the goroutine that accepts has sent
  busy,      \* http: a request is being answered
  done,      \* the context of the runners has ended
  result,    \* the runner whose error the group keeps
  serve,     \* Serve: Waiting, the runner it shuts down, Joining or Returned
  asked,     \* it has called Shutdown of that runner
  broke,     \* history: a runner failed by itself
  late       \* the Shutdowns whose ten seconds are over: of "run" and of "serve"

runv   == <<run, stopped, errCh>>
group  == <<done, result>>
servev == <<serve, asked>>
vars   == <<runv, group, servev, busy, broke, late>>

Runners == DOMAIN Kind
Waiting  == 0
Joining  == Len(Kind) + 1
Returned == Len(Kind) + 2
Is(r, kind, at) == Kind[r] = kind /\ run[r] = at

-----------------------------------------------------------------------------
\* errgroup: the first error is kept and ends the context.
Return(r, how) ==
  /\ run' = [run EXCEPT ![r] = how]
  /\ result' = IF how = "error" /\ result = None THEN r ELSE result
  /\ done' = (done \/ how = "error")

\* Close of ipc, under its lock, and the first half of http.Server.Shutdown:
\* Accept fails from then on, and the server knows why.
Close(r) == stopped' = [stopped EXCEPT ![r] = TRUE]

\* A function that returns when its context ends.
FuncEnds(r) == /\ Is(r, "func", "begin") /\ done
               /\ Return(r, "nil") /\ UNCHANGED <<stopped, errCh, servev, busy, broke, late>>

\* Listen, and the goroutine that accepts; or the loop of ipc.
Begin(r) == /\ run[r] = "begin" /\ Kind[r] # "func"
            /\ run' = [run EXCEPT ![r] = "serve"]
            /\ UNCHANGED <<stopped, errCh, group, servev, busy, broke, late>>

\* http.ErrServerClosed is no error.
AnyError     == "error"   \* faulty: an error like any other
ServerClosed == "nil"

HttpClosed(r) ==
  /\ Kind[r] = "http" /\ run[r] \in {"serve", "shutdown"} /\ stopped[r] /\ errCh = None
  /\ errCh' = ServerClosed
  /\ UNCHANGED <<run, stopped, group, servev, busy, broke, late>>

\* The select of httpapi Server.Serve.
HttpAccepted(r) == /\ Is(r, "http", "serve") /\ errCh # None
                   /\ Return(r, errCh) /\ UNCHANGED <<stopped, errCh, servev, busy, broke, late>>
HttpDone(r)     == /\ Is(r, "http", "serve") /\ done
                   /\ run' = [run EXCEPT ![r] = "shutdown"] /\ Close(r)
                   /\ UNCHANGED <<errCh, group, servev, busy, broke, late>>

\* http.Server.Shutdown waits for the requests, for ten seconds.
HttpShutdown(r) ==
  /\ run[r] = "shutdown" /\ (~busy \/ "run" \in late)
  /\ Return(r, IF busy THEN "error" ELSE "nil")
  /\ UNCHANGED <<stopped, errCh, servev, busy, broke, late>>

\* ipc: an error of Accept is none if Close was called; a goroutine calls it.
IpcStopped(r) == /\ Is(r, "ipc", "serve") /\ stopped[r]
                 /\ Return(r, "nil") /\ UNCHANGED <<stopped, errCh, servev, busy, broke, late>>
IpcCloser(r)  == /\ Is(r, "ipc", "serve") /\ done /\ ~stopped[r]
                 /\ Close(r) /\ UNCHANGED <<run, errCh, group, servev, busy, broke, late>>

RunStep(r) == \/ FuncEnds(r) \/ Begin(r) \/ HttpClosed(r) \/ HttpAccepted(r) \/ HttpDone(r)
              \/ HttpShutdown(r) \/ IpcStopped(r) \/ IpcCloser(r)

-----------------------------------------------------------------------------
\* Serve waits for the context, calls Shutdown of one after the other, all
\* with one deadline, and only logs what they return.
Awake == /\ serve = Waiting /\ done
         /\ serve' = 1
         /\ UNCHANGED <<runv, group, asked, busy, broke, late>>

Ask == /\ serve \in Runners /\ ~asked
       /\ asked' = TRUE /\ (IF Kind[serve] = "func" THEN UNCHANGED stopped ELSE Close(serve))
       /\ UNCHANGED <<run, errCh, group, serve, busy, broke, late>>

Idle(r) == Kind[r] = "http" => ~busy \/ "serve" \in late

Asked == /\ serve \in Runners /\ asked /\ Idle(serve)
         /\ serve' = serve + 1
         /\ asked' = FALSE
         /\ UNCHANGED <<runv, group, busy, broke, late>>

Join == /\ serve = Joining /\ \A r \in Runners : run[r] \in {"nil", "error"}
        /\ serve' = Returned
        /\ UNCHANGED <<runv, group, asked, busy, broke, late>>

ServeStep == Awake \/ Ask \/ Asked \/ Join

-----------------------------------------------------------------------------
\* SIGINT, SIGTERM or the context given.
Signal == /\ ~done /\ done' = TRUE
          /\ UNCHANGED <<runv, result, servev, busy, broke, late>>

\* A function fails, or ends early; nothing to listen on; Accept fails.
Fails(r) ==
  /\ \/ run[r] = "begin" /\ Return(r, "error") /\ UNCHANGED errCh
     \/ Is(r, "ipc", "serve") /\ ~stopped[r] /\ Return(r, "error") /\ UNCHANGED errCh
     \/ Is(r, "http", "serve") /\ ~stopped[r] /\ errCh = None /\ errCh' = "error" /\ UNCHANGED <<run, group>>
  /\ broke' = TRUE
  /\ UNCHANGED <<stopped, servev, busy, late>>

Quits(r) == /\ Is(r, "func", "begin")
            /\ Return(r, "nil") /\ UNCHANGED <<stopped, errCh, servev, busy, broke, late>>

RequestBegins(r) == /\ Is(r, "http", "serve") /\ ~stopped[r] /\ errCh = None /\ ~busy
                    /\ busy' = TRUE /\ UNCHANGED <<runv, group, servev, broke, late>>
RequestEnds      == /\ busy /\ busy' = FALSE
                    /\ UNCHANGED <<runv, group, servev, broke, late>>

TenSeconds ==
  /\ \/ (\E r \in Runners : run[r] = "shutdown") /\ late' = late \cup {"run"}
     \/ serve \in Runners /\ late' = late \cup {"serve"}
  /\ UNCHANGED <<runv, group, servev, busy, broke>>

Init == /\ run = [r \in Runners |-> "begin"] /\ stopped = [r \in Runners |-> FALSE]
        /\ errCh = None /\ busy = FALSE /\ done = FALSE /\ result = None
        /\ serve = Waiting /\ asked = FALSE /\ broke = FALSE /\ late = {}

Next == \/ ServeStep \/ Signal \/ RequestEnds \/ TenSeconds
        \/ \E r \in Runners : RunStep(r) \/ Fails(r) \/ Quits(r) \/ RequestBegins(r)

\* Goroutines run, a function returns when its context ends, and time passes.
\* A request may take for ever.
Fairness == /\ WF_vars(ServeStep) /\ WF_vars(TenSeconds)
            /\ \A r \in Runners : WF_vars(done /\ RunStep(r))
Spec == Init /\ [][Next]_vars /\ Fairness

-----------------------------------------------------------------------------
TypeOK ==
  /\ run \in [Runners -> {"begin", "serve", "shutdown", "nil", "error"}]
  /\ stopped \in [Runners -> BOOLEAN] /\ errCh \in {None, "nil", "error"}
  /\ {busy, done, asked, broke} \subseteq BOOLEAN /\ late \subseteq {"run", "serve"}
  /\ result \in Runners \cup {None} /\ serve \in Waiting..Returned

\* However the servers learn of the end, by their context or by Shutdown: a
\* stop that nobody failed and that no request delayed is no error, ...
ErrorHasCause == result # None => broke \/ "run" \in late

\* ... Serve does not return while a request is answered, but for the deadline, ...
RequestsAnswered == serve = Returned => ~busy \/ "serve" \in late

\* ... and when the context has ended it does return, though a request takes
\* for ever.
StopsCleanly == [](ErrorHasCause /\ RequestsAnswered) /\ (done ~> serve = Returned)
=============================================================================

----------------------------- MODULE WorkerPool -----------------------------
(***************************************************************************)
(* The pool of files/pool.go: submit queues a task and starts a worker     *)
(* unless max of them run; a worker takes tasks until the queue is empty   *)
(* and exits; drain waits on the condition variable idle.  A section under *)
(* p.mu is one step.  The worker a submit starts is named by its task.     *)
(***************************************************************************)
EXTENDS Naturals, FiniteSets, Sequences

CONSTANTS Tasks,    \* the tasks ever submitted
          Drainers, \* goroutines that call drain, once each
          Max       \* pool.max

ASSUME WorkerPoolAssumption == Max \in Nat \ {0}

VARIABLES
  queue, running,   \* pool.queue, pool.running
  task,             \* each task: "new", "queued", "started", "done"
  worker,           \* each goroutine in work: "none", "looking", "busy", "gone"
  job,              \* the task it runs
  drainer,          \* each drain: "none", "woken", "waiting" on idle, "returned"
  before            \* the tasks submitted when it was called

vars == <<queue, running, task, worker, job, drainer, before>>

InState(f, s) == {x \in DOMAIN f : f[x] = s}
Looking == InState(worker, "looking")
Alive   == Looking \cup InState(worker, "busy")

-----------------------------------------------------------------------------
StartOneMore == running <= Max
StartIfIdle == running = 0
StartWorker == running < Max

Submit(t) ==
  /\ task[t] = "new"
  /\ task' = [task EXCEPT ![t] = "queued"] /\ queue' = Append(queue, t)
  /\ IF StartWorker
     THEN running' = running + 1 /\ worker' = [worker EXCEPT ![t] = "looking"]
     ELSE UNCHANGED <<running, worker>>
  /\ UNCHANGED <<job, drainer, before>>

Take(w) ==
  /\ worker[w] = "looking" /\ queue # << >>
  /\ job' = [job EXCEPT ![w] = Head(queue)] /\ queue' = Tail(queue)
  /\ task' = [task EXCEPT ![Head(queue)] = "started"]
  /\ worker' = [worker EXCEPT ![w] = "busy"]
  /\ UNCHANGED <<running, drainer, before>>

Finish(w) ==
  /\ worker[w] = "busy"
  /\ task' = [task EXCEPT ![job[w]] = "done"]
  /\ worker' = [worker EXCEPT ![w] = "looking"]
  /\ UNCHANGED <<queue, running, job, drainer, before>>

\* idle.Broadcast
NobodyWoken == UNCHANGED drainer
Broadcast ==
  drainer' = [d \in Drainers |-> IF drainer[d] = "waiting" THEN "woken" ELSE drainer[d]]

Exit(w) ==
  /\ worker[w] = "looking" /\ queue = << >>
  /\ running' = running - 1 /\ worker' = [worker EXCEPT ![w] = "gone"]
  /\ Broadcast
  /\ UNCHANGED <<queue, task, job, before>>

QueueEmpty == queue = << >>
Idle == running = 0 /\ queue = << >>

DrainCall(d) ==
  /\ drainer[d] = "none"
  /\ drainer' = [drainer EXCEPT ![d] = "woken"]
  /\ before' = [before EXCEPT ![d] = {t \in Tasks : task[t] # "new"}]
  /\ UNCHANGED <<queue, running, task, worker, job>>

DrainCheck(d) ==
  /\ drainer[d] = "woken"
  /\ drainer' = [drainer EXCEPT ![d] = IF Idle THEN "returned" ELSE "waiting"]
  /\ UNCHANGED <<queue, running, task, worker, job, before>>

-----------------------------------------------------------------------------
Init ==
  /\ queue = << >> /\ running = 0 /\ task = [t \in Tasks |-> "new"]
  /\ worker = [w \in Tasks |-> "none"] /\ job = [w \in Tasks |-> w]
  /\ drainer = [d \in Drainers |-> "none"] /\ before = [d \in Drainers |-> {}]

Work(w) == Take(w) \/ Finish(w) \/ Exit(w)

Next == \/ \E t \in Tasks : Submit(t) \/ Work(t)
        \/ \E d \in Drainers : DrainCall(d) \/ DrainCheck(d)

Spec == Init /\ [][Next]_vars

\* Goroutines run, and tasks end; nobody has to submit or to drain.
FairSpec == /\ Spec
            /\ \A w \in Tasks : WF_vars(Work(w))
            /\ \A d \in Drainers : WF_vars(DrainCheck(d))

-----------------------------------------------------------------------------
TypeOK ==
  /\ queue \in Seq(Tasks) /\ running \in 0..Max
  /\ task \in [Tasks -> {"new", "queued", "started", "done"}]
  /\ worker \in [Tasks -> {"none", "looking", "busy", "gone"}]
  /\ job \in [Tasks -> Tasks]
  /\ drainer \in [Drainers -> {"none", "woken", "waiting", "returned"}]
  /\ before \in [Drainers -> SUBSET Tasks]

\* "pool runs at most max workers", and never fewer than it could: a task is
\* left waiting only when max workers run or one is about to take it, so no
\* order of submits and of workers giving up strands a task.
WorkConserving ==
  /\ Cardinality(Alive) <= Max
  /\ running = Max \/ Len(queue) <= Cardinality(Looking)

\* A drain that returned left no task behind that was submitted before it was
\* called, neither queued nor still running.
DrainedAll == \A d \in Drainers : drainer[d] = "returned" =>
                                    \A t \in before[d] : task[t] = "done"

\* Every drain returns once the tasks stop coming: no wake-up is lost between
\* the check and the wait.
DrainReturns == \A d \in Drainers : drainer[d] = "woken" ~> drainer[d] = "returned"
=============================================================================

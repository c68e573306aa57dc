--------------------------- MODULE GoroutinesProofs ---------------------------
(***************************************************************************)
(* What holds of the group MCGoroutines whatever the callers, the calls    *)
(* and their bounds.  The clipboard owner and the compositor agree on the  *)
(* selection (wlclipboard/owner.go), what the end of a size scan says is   *)
(* true (files/size.go), only the own answer of the portal yields a secret *)
(* (portal), a stop is clean (app/serve.go), and every state keeps its     *)
(* shape.  Each is proved of its component; a step of the group is a step  *)
(* of one of them.                                                         *)
(***************************************************************************)
EXTENDS MCGoroutines, FiniteSetTheorems, TLAPS

(* The worker pool, for any set of tasks and of drainers and any Max.  The  *)
(* inductive invariant IInv adds to the type invariant what the lock        *)
(* protects: running counts the workers, every waiting task is in the queue *)
(* once, and every started one is the job of one busy worker.               *)

Counted == IsFiniteSet(Alive) /\ running = Cardinality(Alive)
Conserving == running = Max \/ Len(queue) <= Cardinality(Looking)
Fresh == \A t \in Tasks : task[t] = "new" => worker[t] = "none"
QueueRule ==
  /\ \A t \in Tasks : task[t] = "queued" => \E i \in 1..Len(queue) : queue[i] = t
  /\ \A i \in 1..Len(queue) : task[queue[i]] = "queued"
  /\ \A i, j \in 1..Len(queue) : queue[i] = queue[j] => i = j
JobRule ==
  /\ \A t \in Tasks : task[t] = "started" => \E w \in Tasks : worker[w] = "busy" /\ job[w] = t
  /\ \A w \in Tasks : worker[w] = "busy" => task[job[w]] = "started"
  /\ \A w, x \in Tasks : worker[w] = "busy" /\ worker[x] = "busy" /\ job[w] = job[x] => w = x
BeforeRule == \A d \in Drainers : \A t \in before[d] : task[t] # "new"

IInv == /\ TypeOK /\ Counted /\ Conserving /\ Fresh /\ QueueRule /\ JobRule
        /\ BeforeRule /\ DrainedAll

-----------------------------------------------------------------------------
\* Alive and Looking, and how one worker's step changes them.

LEMMA LookingFinite == ASSUME TypeOK, Counted PROVE IsFiniteSet(Looking)
BY FS_Subset DEF Counted, Alive

\* A worker starts.
LEMMA Started ==
  ASSUME TypeOK, Counted, NEW w \in Tasks, worker[w] = "none",
         worker' = [worker EXCEPT ![w] = "looking"]
  PROVE  /\ IsFiniteSet(Alive') /\ Cardinality(Alive') = Cardinality(Alive) + 1
         /\ Cardinality(Looking') = Cardinality(Looking) + 1
<1>1. Alive' = Alive \cup {w} /\ w \notin Alive
  BY DEF Alive, Looking, InState, TypeOK
<1>2. Looking' = Looking \cup {w} /\ w \notin Looking
  BY DEF Looking, InState, TypeOK
<1> QED BY <1>1, <1>2, LookingFinite, FS_AddElement DEF Counted

\* A worker takes a task, or ends one.
LEMMA Turned ==
  ASSUME TypeOK, Counted, NEW w \in Tasks, NEW s \in {"looking", "busy"},
         worker[w] \in {"looking", "busy"}, worker' = [worker EXCEPT ![w] = s]
  PROVE  /\ Alive' = Alive
         /\ s = "busy" /\ worker[w] = "looking" =>
              Cardinality(Looking') = Cardinality(Looking) - 1
         /\ s = "looking" /\ worker[w] = "busy" =>
              Cardinality(Looking') = Cardinality(Looking) + 1
<1>1. Alive' = Alive
  BY DEF Alive, Looking, InState, TypeOK
<1>2. CASE s = "busy" /\ worker[w] = "looking"
  <2>1. Looking' = Looking \ {w} /\ w \in Looking
    BY <1>2 DEF Looking, InState, TypeOK
  <2> QED BY <1>1, <1>2, <2>1, LookingFinite, FS_RemoveElement, FS_CardinalityType
<1>3. CASE s = "looking" /\ worker[w] = "busy"
  <2>1. Looking' = Looking \cup {w} /\ w \notin Looking
    BY <1>3 DEF Looking, InState, TypeOK
  <2> QED BY <1>1, <1>3, <2>1, LookingFinite, FS_AddElement
<1> QED BY <1>1, <1>2, <1>3

\* A worker exits.
LEMMA Exited ==
  ASSUME TypeOK, Counted, NEW w \in Tasks, worker[w] = "looking",
         worker' = [worker EXCEPT ![w] = "gone"]
  PROVE  /\ IsFiniteSet(Alive') /\ Cardinality(Alive') = Cardinality(Alive) - 1
         /\ Cardinality(Alive) >= 1
<1>1. Alive' = Alive \ {w} /\ w \in Alive
  BY DEF Alive, Looking, InState, TypeOK
<1>2. IsFiniteSet(Alive') /\ Cardinality(Alive') = Cardinality(Alive) - 1
  BY <1>1, FS_RemoveElement DEF Counted
<1>3. Cardinality(Alive) \in Nat /\ Cardinality(Alive') \in Nat
  BY <1>2, FS_CardinalityType DEF Counted
<1> QED BY <1>2, <1>3

-----------------------------------------------------------------------------
\* One lemma per action.

LEMMA SubmitStep ==
  ASSUME IInv, NEW t \in Tasks, Submit(t) PROVE IInv'
<1> USE WorkerPoolAssumption
<1>1. TypeOK'
  <2>1. queue' \in Seq(Tasks) /\ task' \in [Tasks -> {"new", "queued", "started", "done"}]
    BY DEF IInv, TypeOK, Submit
  <2>2. running' \in 0..Max /\ worker' \in [Tasks -> {"none", "looking", "busy", "gone"}]
    <3>1. CASE StartWorker
      BY <3>1 DEF IInv, TypeOK, Submit, StartWorker
    <3>2. CASE ~StartWorker
      BY <3>2 DEF IInv, TypeOK, Submit
    <3> QED BY <3>1, <3>2
  <2> QED BY <2>1, <2>2 DEF IInv, TypeOK, Submit
<1>2. worker[t] = "none" /\ Cardinality(Looking) \in Nat /\ Len(queue') = Len(queue) + 1
  BY LookingFinite, FS_CardinalityType DEF IInv, Fresh, Submit, TypeOK
<1>3. Counted' /\ Conserving'
  <2>1. CASE StartWorker
    <3>1. /\ IsFiniteSet(Alive') /\ Cardinality(Alive') = Cardinality(Alive) + 1
          /\ Cardinality(Looking') = Cardinality(Looking) + 1
      BY <1>2, <2>1, Started DEF IInv, Submit
    <3>2. running' = running + 1 /\ Len(queue) \in Nat /\ running < Max
      BY <2>1 DEF IInv, Submit, StartWorker, TypeOK
    <3> QED BY <1>2, <3>1, <3>2 DEF IInv, Counted, Conserving
  <2>2. CASE ~StartWorker
    <3>1. running = Max
      BY <2>2 DEF IInv, TypeOK, StartWorker
    <3> QED BY <2>2, <3>1 DEF IInv, Counted, Conserving, Submit, Alive, Looking, InState
  <2> QED BY <2>1, <2>2
<1>4. Fresh'
  BY DEF IInv, TypeOK, Fresh, Submit
<1>5. QueueRule'
  <2>1. queue' = Append(queue, t) /\ queue \in Seq(Tasks) /\ task[t] = "new"
        /\ task' = [task EXCEPT ![t] = "queued"] /\ task \in [Tasks -> {"new", "queued", "started", "done"}]
    BY DEF IInv, TypeOK, Submit
  <2>2. Len(queue') = Len(queue) + 1 /\ queue'[Len(queue) + 1] = t /\ Len(queue) \in Nat
        /\ \A i \in 1..Len(queue) : queue'[i] = queue[i] /\ queue[i] \in Tasks /\ queue[i] # t
    BY <2>1 DEF IInv, QueueRule
  <2> QED BY <2>1, <2>2 DEF IInv, QueueRule
<1>6. JobRule'
  <2>1. /\ \A w \in Tasks : worker'[w] = "busy" <=> worker[w] = "busy"
        /\ \A x \in Tasks : task'[x] = "started" <=> task[x] = "started"
        /\ task[t] = "new" /\ job \in [Tasks -> Tasks] /\ job' = job
    BY <1>2 DEF IInv, TypeOK, Submit
  <2> QED BY <2>1 DEF IInv, JobRule
<1>7. BeforeRule' /\ DrainedAll'
  BY DEF IInv, TypeOK, BeforeRule, DrainedAll, Submit
<1> QED BY <1>1, <1>3, <1>4, <1>5, <1>6, <1>7 DEF IInv

LEMMA TakeStep ==
  ASSUME IInv, NEW w \in Tasks, Take(w) PROVE IInv'
<1> DEFINE h == Head(queue)
<1>1. /\ h \in Tasks /\ h = queue[1] /\ Len(queue) \in Nat \ {0}
      /\ Len(Tail(queue)) = Len(queue) - 1
      /\ \A i \in 1..Len(queue) - 1 : Tail(queue)[i] = queue[i + 1]
      /\ Tail(queue) \in Seq(Tasks)
  BY DEF IInv, TypeOK, Take
<1>2. task[h] = "queued" /\ \A i \in 2..Len(queue) : queue[i] # h
  BY <1>1 DEF IInv, QueueRule
<1>3. TypeOK'
  BY <1>1 DEF IInv, TypeOK, Take
<1>4. Counted' /\ Conserving'
  <2>1. /\ Alive' = Alive
        /\ Cardinality(Looking') = Cardinality(Looking) - 1 /\ Cardinality(Looking) \in Nat
    BY Turned, LookingFinite, FS_CardinalityType DEF IInv, Take
  <2> QED BY <1>1, <2>1 DEF IInv, Counted, Conserving, Take
<1>5. Fresh'
  BY <1>1, <1>2 DEF IInv, TypeOK, Fresh, Take
<1>6. QueueRule'
  <2>1. /\ queue' = Tail(queue) /\ task' = [task EXCEPT ![h] = "started"]
        /\ task \in [Tasks -> {"new", "queued", "started", "done"}]
        /\ \A i \in 1..Len(queue) : queue[i] \in Tasks
    BY DEF IInv, TypeOK, Take
  <2>2. ASSUME NEW t \in Tasks, task'[t] = "queued"
        PROVE  \E i \in 1..Len(queue') : queue'[i] = t
    <3>1. t # h /\ task[t] = "queued"
      BY <1>1, <2>1, <2>2
    <3>2. PICK i \in 1..Len(queue) : queue[i] = t
      BY <3>1 DEF IInv, QueueRule
    <3>3. i - 1 \in 1..Len(queue') /\ queue'[i - 1] = t
      BY <1>1, <2>1, <3>1, <3>2
    <3> QED BY <3>3
  <2>3. \A i \in 1..Len(queue') : i + 1 \in 2..Len(queue) /\ queue'[i] = queue[i + 1]
    BY <1>1, <2>1
  <2>4. \A i \in 1..Len(queue') : task'[queue'[i]] = "queued"
    BY <1>1, <1>2, <2>1, <2>3 DEF IInv, QueueRule
  <2>5. \A i, j \in 1..Len(queue') : queue'[i] = queue'[j] => i = j
    BY <1>1, <2>1, <2>3 DEF IInv, QueueRule
  <2> QED BY <2>2, <2>4, <2>5 DEF QueueRule
<1>7. JobRule'
  BY <1>1, <1>2 DEF IInv, TypeOK, JobRule, Take
<1>8. BeforeRule' /\ DrainedAll'
  BY <1>1, <1>2 DEF IInv, TypeOK, BeforeRule, DrainedAll, Take
<1> QED BY <1>3, <1>4, <1>5, <1>6, <1>7, <1>8 DEF IInv

LEMMA FinishStep ==
  ASSUME IInv, NEW w \in Tasks, Finish(w) PROVE IInv'
<1>1. TypeOK' /\ job[w] \in Tasks /\ task[job[w]] = "started"
  BY DEF IInv, TypeOK, JobRule, Finish
<1>2. Counted' /\ Conserving'
  <2>1. /\ Alive' = Alive
        /\ Cardinality(Looking') = Cardinality(Looking) + 1 /\ Cardinality(Looking) \in Nat
    BY Turned, LookingFinite, FS_CardinalityType DEF IInv, Finish
  <2>2. Len(queue) \in Nat
    BY DEF IInv, TypeOK
  <2> QED BY <2>1, <2>2 DEF IInv, Counted, Conserving, Finish
<1>3. Fresh'
  BY <1>1 DEF IInv, TypeOK, Fresh, Finish
<1>4. QueueRule'
  BY <1>1 DEF IInv, TypeOK, QueueRule, Finish
<1>5. JobRule'
  BY <1>1 DEF IInv, TypeOK, JobRule, Finish
<1>6. BeforeRule' /\ DrainedAll'
  BY <1>1 DEF IInv, TypeOK, BeforeRule, DrainedAll, Finish
<1> QED BY <1>1, <1>2, <1>3, <1>4, <1>5, <1>6 DEF IInv

LEMMA ExitStep ==
  ASSUME IInv, NEW w \in Tasks, Exit(w) PROVE IInv'
<1> USE WorkerPoolAssumption
<1>1. /\ IsFiniteSet(Alive') /\ Cardinality(Alive') = Cardinality(Alive) - 1
      /\ Cardinality(Alive) >= 1
  BY Exited DEF IInv, Exit
<1>2. TypeOK'
  BY <1>1 DEF IInv, TypeOK, Counted, Exit, Broadcast
<1>3. Counted'
  BY <1>1 DEF IInv, Counted, Exit
<1>4. Conserving'
  <2>1. Cardinality(Looking') \in Nat
    BY <1>2, <1>3, FS_Subset, FS_CardinalityType DEF Counted, Alive
  <2>2. Len(queue') = 0
    BY DEF Exit
  <2> QED BY <2>1, <2>2 DEF Conserving
<1>5. Fresh' /\ QueueRule' /\ JobRule' /\ BeforeRule'
  BY DEF IInv, TypeOK, Fresh, QueueRule, JobRule, BeforeRule, Exit
<1>6. DrainedAll'
  BY DEF IInv, TypeOK, DrainedAll, Exit, Broadcast
<1> QED BY <1>2, <1>3, <1>4, <1>5, <1>6 DEF IInv

LEMMA DrainCallStep ==
  ASSUME IInv, NEW d \in Drainers, DrainCall(d) PROVE IInv'
<1>1. TypeOK'
  BY DEF IInv, TypeOK, DrainCall
<1>2. Counted' /\ Conserving' /\ Fresh' /\ QueueRule' /\ JobRule'
  BY DEF IInv, Counted, Conserving, Fresh, QueueRule, JobRule, DrainCall, Alive, Looking, InState
<1>3. BeforeRule' /\ DrainedAll'
  BY DEF IInv, TypeOK, BeforeRule, DrainedAll, DrainCall
<1> QED BY <1>1, <1>2, <1>3 DEF IInv

\* Nothing runs and nothing is queued: every task ever submitted is done.
LEMMA IdleMeansDone ==
  ASSUME IInv, Idle, NEW t \in Tasks PROVE task[t] \in {"new", "done"}
<1>1. Alive = {}
  BY FS_EmptySet DEF IInv, Counted, Idle
<1>2. \A w \in Tasks : worker[w] # "busy"
  BY <1>1 DEF Alive, InState, IInv, TypeOK
<1>3. task[t] # "started"
  BY <1>2 DEF IInv, JobRule
<1>4. task[t] # "queued"
  BY DEF IInv, QueueRule, Idle
<1> QED BY <1>3, <1>4 DEF IInv, TypeOK

LEMMA DrainCheckStep ==
  ASSUME IInv, NEW d \in Drainers, DrainCheck(d) PROVE IInv'
<1>1. TypeOK'
  BY DEF IInv, TypeOK, DrainCheck
<1>2. Counted' /\ Conserving' /\ Fresh' /\ QueueRule' /\ JobRule' /\ BeforeRule'
  BY DEF IInv, Counted, Conserving, Fresh, QueueRule, JobRule, BeforeRule, DrainCheck,
         Alive, Looking, InState
<1>3. DrainedAll'
  <2>1. CASE Idle
    <3>1. \A t \in before[d] : t \in Tasks /\ task[t] = "done"
      BY <2>1, IdleMeansDone DEF IInv, BeforeRule, TypeOK
    <3> QED BY <2>1, <3>1 DEF IInv, TypeOK, DrainedAll, DrainCheck
  <2>2. CASE ~Idle
    BY <2>2 DEF IInv, TypeOK, DrainedAll, DrainCheck
  <2> QED BY <2>1, <2>2
<1> QED BY <1>1, <1>2, <1>3 DEF IInv

-----------------------------------------------------------------------------
LEMMA Initially == Init => IInv
<1> SUFFICES ASSUME Init PROVE IInv
  OBVIOUS
<1> USE WorkerPoolAssumption
<1>1. TypeOK
  BY DEF Init, TypeOK
<1>2. Alive = {} /\ Looking = {}
  BY DEF Init, Alive, Looking, InState
<1>3. Counted /\ Conserving
  BY <1>2, FS_EmptySet DEF Init, Counted, Conserving
<1>4. Fresh /\ QueueRule /\ JobRule /\ BeforeRule /\ DrainedAll
  BY DEF Init, Fresh, QueueRule, JobRule, BeforeRule, DrainedAll
<1> QED BY <1>1, <1>3, <1>4 DEF IInv

LEMMA Inductive == IInv /\ [Next]_vars => IInv'
<1> SUFFICES ASSUME IInv, [Next]_vars PROVE IInv'
  OBVIOUS
<1>1. CASE UNCHANGED vars
  BY <1>1 DEF vars, IInv, TypeOK, Counted, Conserving, Fresh, QueueRule, JobRule, BeforeRule,
              DrainedAll, Alive, Looking, InState
<1>2. ASSUME NEW t \in Tasks, Submit(t) \/ Work(t) PROVE IInv'
  BY <1>2, SubmitStep, TakeStep, FinishStep, ExitStep DEF Work
<1>3. ASSUME NEW d \in Drainers, DrainCall(d) \/ DrainCheck(d) PROVE IInv'
  BY <1>3, DrainCallStep, DrainCheckStep
<1> QED BY <1>1, <1>2, <1>3 DEF Next

\* The state keeps its shape; in particular running stays within 0..Max.
THEOREM TypeCorrect == Spec => []TypeOK
<1>1. IInv => TypeOK
  BY DEF IInv
<1> QED BY <1>1, Initially, Inductive, PTL DEF Spec

\* files/pool.go: at most max workers, and no task left waiting while another
\* worker could run: for every number of tasks and workers.
THEOREM WorkConservingCorrect == Spec => []WorkConserving
<1>1. IInv => WorkConserving
  BY DEF IInv, TypeOK, Counted, Conserving, WorkConserving
<1> QED BY <1>1, Initially, Inductive, PTL DEF Spec

\* files/pool.go drain: what was submitted before it is done when it returns.
THEOREM DrainedAllCorrect == Spec => []DrainedAll
<1>1. IInv => DrainedAll
  BY DEF IInv
<1> QED BY <1>1, Initially, Inductive, PTL DEF Spec

-----------------------------------------------------------------------------

\* A behaviour of the group is a behaviour of the owner, which may rest.
LEMMA GroupOwner == MCSpec => O!Spec
<1>1. MCInit => O!Init
  BY DEF MCInit
<1>2. [MCNext]_<<which, vars, others>> => [O!Next]_O!vars
  BY DEF MCNext, Only, others, ownervars, O!vars, O!callerv, O!closev, O!runv, O!requested,
         O!remote
<1> QED
  BY <1>1, <1>2, PTL DEF MCSpec, O!Spec

-----------------------------------------------------------------------------
(* The messages on their way to the owner: q holds m; the cancellation of s *)
(* comes before the answer to the sync; there is no such answer.            *)

Has(q, m)  == \E j \in 1..Len(q) : q[j] = m
NoDone(q)  == \A j \in 1..Len(q) : q[j].kind # "done"
Due(q, s)  == \E j \in 1..Len(q) : q[j] = O!Cancelled(s) /\ \A i \in 1..j : q[i].kind # "done"
OneDone(q) == \A i, j \in 1..Len(q) : q[i].kind = "done" /\ q[j].kind = "done" => i = j

\* Nothing is promised of an owner that has left, or lost its connection.
Owning == ~O!Exited /\ ~lost

\* The sources are numbered as they are made, by a Set each.
Waits == {k \in Callers : call[k] \in {"woken", "offering"}}
Made  == Cardinality(taken \cup live)
CountRule == Owning => taken \cup live = 1..Made /\ Made + Cardinality(Waits) <= sets

\* A source is the selection but once: not before it is sent, and not again
\* after it has been cancelled.
OnceRule ==
  /\ selection \in O!Sources => selection \in taken
  /\ \A s \in O!Sources : Has(inbox, O!Cancelled(s)) => s \in taken /\ s # selection
  /\ sent # O!NoSource => sent \notin taken

\* Between calls; while a call waits for its answer, the compositor has not
\* seen its source s yet; and then it has.
Agreed == /\ current # O!NoSource => selection = current \/ Has(inbox, O!Cancelled(current))
          /\ selection \in O!Sources => current = selection
Quiet  == /\ sent = O!NoSource /\ ~sync /\ NoDone(inbox)
          /\ live = {current} \ {O!NoSource} /\ Agreed
Asked(s) == /\ sent = s /\ sync /\ NoDone(inbox) /\ Agreed
            /\ current # s /\ s \in live /\ live \ {s} = {current} \ {O!NoSource}
Granted(s) == /\ sent = O!NoSource /\ s \in taken /\ (sync => NoDone(inbox)) /\ OneDone(inbox)
              /\ current # s /\ live \ {s} = {current} \ {O!NoSource}
              /\ current # O!NoSource => Due(inbox, current)
              /\ s \in live => selection = s \/ Has(inbox, O!Cancelled(s))
              /\ selection \in O!Sources => selection = s /\ s \in live

TurnRule == Owning =>
  /\ run \in {"select", "poll"} => serving = O!NoCaller
  /\ run = "roundtrip" => serving # O!NoCaller
  /\ serving = O!NoCaller => Quiet
  /\ serving # O!NoCaller =>
       /\ call[serving] = "handed" /\ mine[serving] \in O!Sources
       /\ Asked(mine[serving]) \/ Granted(mine[serving])

OwnerInv == O!TypeOK /\ CountRule /\ OnceRule /\ TurnRule /\ O!OkMeansTaken

\* Messages only come at the end ...
LEMMA Arrive ==
  ASSUME NEW D, NEW q \in Seq(D), NEW r \in Seq(D)
  PROVE  /\ \A m : Has(q \o r, m) <=> Has(q, m) \/ Has(r, m)
         /\ NoDone(r) => /\ NoDone(q) => NoDone(q \o r)
                         /\ OneDone(q) => OneDone(q \o r)
         /\ \A s : Due(q, s) => Due(q \o r, s)
<1>1. /\ Len(q \o r) = Len(q) + Len(r) /\ Len(q) \in Nat /\ Len(r) \in Nat
      /\ \A j \in 1..Len(q) : (q \o r)[j] = q[j]
      /\ \A j \in 1..Len(r) : (q \o r)[Len(q) + j] = r[j]
      /\ \A j \in 1..Len(q \o r) : j \in 1..Len(q) \/ j - Len(q) \in 1..Len(r)
  OBVIOUS
<1>2. \A j \in 1..Len(q \o r) : j \notin 1..Len(q) =>
        j - Len(q) \in 1..Len(r) /\ (q \o r)[j] = r[j - Len(q)]
  BY <1>1
<1>3. \A m : Has(q, m) => Has(q \o r, m)
  BY <1>1 DEF Has
<1>4. \A m : Has(r, m) => Has(q \o r, m)
  <2> SUFFICES ASSUME NEW m, NEW j \in 1..Len(r), r[j] = m
               PROVE  Has(q \o r, m)
    BY DEF Has
  <2>1. Len(q) + j \in 1..Len(q \o r) /\ (q \o r)[Len(q) + j] = m
    BY <1>1
  <2> QED
    BY <2>1 DEF Has
<1>5. \A m : Has(q \o r, m) => Has(q, m) \/ Has(r, m)
  BY <1>1, <1>2 DEF Has
<1>6. NoDone(r) /\ NoDone(q) => NoDone(q \o r)
  BY <1>1, <1>2 DEF NoDone
<1>7. NoDone(r) /\ OneDone(q) => OneDone(q \o r)
  BY <1>1, <1>2 DEF NoDone, OneDone
<1>8. \A s : Due(q, s) => Due(q \o r, s)
  BY <1>1 DEF Due
<1> QED
  BY <1>3, <1>4, <1>5, <1>6, <1>7, <1>8

LEMMA ArriveOne ==
  ASSUME NEW D, NEW q \in Seq(D), NEW x \in D
  PROVE  /\ \A m : Has(Append(q, x), m) <=> Has(q, m) \/ m = x
         /\ x.kind # "done" => /\ NoDone(q) => NoDone(Append(q, x))
                               /\ OneDone(q) => OneDone(Append(q, x))
         /\ NoDone(q) => OneDone(Append(q, x))
         /\ \A s : Due(q, s) => Due(Append(q, x), s)
<1>1. /\ Len(Append(q, x)) = Len(q) + 1 /\ Len(q) \in Nat
      /\ \A j \in 1..Len(q) : Append(q, x)[j] = q[j]
      /\ Append(q, x)[Len(q) + 1] = x
      /\ \A j \in 1..Len(Append(q, x)) : j \in 1..Len(q) \/ j = Len(q) + 1
  OBVIOUS
<1>2. \A m : Has(Append(q, x), m) <=> Has(q, m) \/ m = x
  <2>1. Has(Append(q, x), x)
    BY <1>1 DEF Has
  <2>2. \A m : Has(q, m) => Has(Append(q, x), m)
    BY <1>1 DEF Has
  <2>3. \A m : Has(Append(q, x), m) => Has(q, m) \/ m = x
    BY <1>1 DEF Has
  <2> QED
    BY <2>1, <2>2, <2>3
<1>3. x.kind # "done" /\ NoDone(q) => NoDone(Append(q, x))
  BY <1>1 DEF NoDone
<1>4. x.kind # "done" /\ OneDone(q) => OneDone(Append(q, x))
  BY <1>1 DEF OneDone
<1>5. NoDone(q) => OneDone(Append(q, x))
  BY <1>1 DEF NoDone, OneDone
<1>6. \A s : Due(q, s) => Due(Append(q, x), s)
  BY <1>1 DEF Due
<1> QED
  BY <1>2, <1>3, <1>4, <1>5, <1>6

\* A cancellation on its way before any answer is due.
LEMMA ComingIsDue ==
  ASSUME NEW D, NEW q \in Seq(D), NEW s, NoDone(q), Has(q, O!Cancelled(s))
  PROVE  Due(q, s)
<1>1. PICK j \in 1..Len(q) : q[j] = O!Cancelled(s)
  BY DEF Has
<1>2. \A i \in 1..j : i \in 1..Len(q)
  BY <1>1
<1> QED
  BY <1>1, <1>2 DEF Due, NoDone

\* ... and are taken from the front.
LEMMA Handled ==
  ASSUME NEW D, NEW q \in Seq(D), q # << >>
  PROVE  /\ \A m : Has(Tail(q), m) => Has(q, m)
         /\ \A m : Has(q, m) => m = Head(q) \/ Has(Tail(q), m)
         /\ Has(q, Head(q))
         /\ NoDone(q) => NoDone(Tail(q))
         /\ OneDone(q) => OneDone(Tail(q)) /\ (Head(q).kind = "done" => NoDone(Tail(q)))
         /\ \A s : Due(q, s) => /\ Head(q).kind # "done"
                                /\ O!Cancelled(s) = Head(q) \/ Due(Tail(q), s)
<1>1. /\ Len(q) \in Nat \ {0} /\ Len(Tail(q)) = Len(q) - 1 /\ Head(q) = q[1]
      /\ \A j \in 1..Len(Tail(q)) : j + 1 \in 1..Len(q) /\ Tail(q)[j] = q[j + 1]
      /\ \A j \in 1..Len(q) : j # 1 => j - 1 \in 1..Len(Tail(q)) /\ Tail(q)[j - 1] = q[j]
  OBVIOUS
<1>2. \A m : Has(Tail(q), m) => Has(q, m)
  BY <1>1 DEF Has
<1>3. \A m : Has(q, m) => m = Head(q) \/ Has(Tail(q), m)
  BY <1>1 DEF Has
<1>4. Has(q, Head(q))
  BY <1>1 DEF Has
<1>5. NoDone(q) => NoDone(Tail(q))
  BY <1>1 DEF NoDone
<1>6. OneDone(q) => OneDone(Tail(q))
  BY <1>1 DEF OneDone
<1>7. OneDone(q) /\ Head(q).kind = "done" => NoDone(Tail(q))
  <2> SUFFICES ASSUME OneDone(q), Head(q).kind = "done", NEW j \in 1..Len(Tail(q)),
                      Tail(q)[j].kind = "done"
               PROVE  FALSE
    BY DEF NoDone
  <2>1. q[1].kind = "done" /\ q[j + 1].kind = "done" /\ 1 \in 1..Len(q) /\ j + 1 \in 1..Len(q)
    BY <1>1
  <2>2. 1 = j + 1
    BY <2>1 DEF OneDone
  <2> QED
    BY <2>2
<1>8. ASSUME NEW s, Due(q, s)
      PROVE  Head(q).kind # "done" /\ (O!Cancelled(s) = Head(q) \/ Due(Tail(q), s))
  <2>1. PICK j \in 1..Len(q) : q[j] = O!Cancelled(s) /\ \A i \in 1..j : q[i].kind # "done"
    BY <1>8 DEF Due
  <2>2. Head(q).kind # "done"
    BY <1>1, <2>1
  <2>3. CASE j = 1
    BY <1>1, <2>1, <2>2, <2>3
  <2>4. CASE j # 1
    <3>1. j - 1 \in 1..Len(Tail(q)) /\ Tail(q)[j - 1] = O!Cancelled(s)
      BY <1>1, <2>1, <2>4
    <3>2. \A i \in 1..(j - 1) : Tail(q)[i].kind # "done"
      BY <1>1, <2>1, <2>4
    <3> QED
      BY <2>2, <3>1, <3>2 DEF Due
  <2> QED
    BY <2>3, <2>4
<1> QED
  BY <1>2, <1>3, <1>4, <1>5, <1>6, <1>7, <1>8

-----------------------------------------------------------------------------
(* Every step of the owner's environment and of run keeps the invariant.    *)

\* The variables the rules of the selection read.
selectionv == <<run, serving, current, live, sent, sync, selection, taken, inbox, lost>>

\* A step of a caller or of Close touches none of them; the call in service is
\* left to run.
LEMMA CallerTurn ==
  ASSUME OwnerInv, UNCHANGED selectionv,
         serving \in Callers => call'[serving] = call[serving] /\ mine'[serving] = mine[serving]
  PROVE  OnceRule' /\ TurnRule'
<1>1. UNCHANGED <<run, serving, current, live, sent, sync, selection, taken, inbox, lost>>
  BY DEF selectionv
<1>2. OnceRule'
  BY <1>1 DEF OwnerInv, OnceRule
<1>3. Owning' <=> Owning
  BY <1>1 DEF Owning, O!Exited
<1>4. Quiet => Quiet'
  BY <1>1 DEF Quiet, Agreed
<1>5. ASSUME serving # O!NoCaller
      PROVE  /\ call'[serving] = call[serving] /\ mine'[serving] = mine[serving]
             /\ Asked(mine[serving]) => Asked(mine[serving])'
             /\ Granted(mine[serving]) => Granted(mine[serving])'
  <2>1. call'[serving] = call[serving] /\ mine'[serving] = mine[serving]
    BY <1>5 DEF OwnerInv, O!TypeOK
  <2>2. mine'[serving'] = mine[serving]
    BY <1>1, <2>1
  <2> QED
    BY <1>1, <2>1, <2>2 DEF Asked, Granted, Agreed
<1>6. TurnRule'
  BY <1>1, <1>3, <1>4, <1>5 DEF OwnerInv, TurnRule
<1> QED
  BY <1>2, <1>6

LEMMA CountKept ==
  ASSUME OwnerInv, taken' \cup live' = taken \cup live, Waits' = Waits, sets' = sets,
         Owning' => Owning
  PROVE  CountRule'
BY DEF OwnerInv, CountRule, Made

\* The count is the same in the owner's module.
LEMMA SameCount == \A D : O!Cardinality(D) = Cardinality(D)
BY DEF O!Cardinality, Cardinality

LEMMA MadeIsCount ==
  ASSUME O!TypeOK
  PROVE  Made \in Nat
<1>1. IsFiniteSet(1..MaxSets)
  BY FS_Interval, OwnerAssumption
<1>2. taken \cup live \subseteq 1..MaxSets
  BY DEF O!TypeOK, O!Sources
<1> QED
  BY <1>1, <1>2, FS_Subset, FS_CardinalityType DEF Made

LEMMA SetWakeStep ==
  ASSUME OwnerInv, NEW k \in Callers, O!SetWake(k)
  PROVE  OwnerInv'
<1>1. /\ call[k] = "none" /\ sets < MaxSets /\ sets' = sets + 1
      /\ call' = [call EXCEPT ![k] = "woken"] /\ wake' \in {wake, wake + 1}
      /\ wake' # wake => wake < PipeCap
      /\ UNCHANGED <<mine, closer, stop, selectionv, foreign>>
  BY DEF O!SetWake, O!Wake, O!closev, O!runv, O!requested, O!remote, selectionv
<1>2. O!TypeOK'
  BY <1>1, OwnerAssumption DEF OwnerInv, O!TypeOK, selectionv
<1>3. CountRule'
  <2>1. Waits' = Waits \cup {k} /\ k \notin Waits
    BY <1>1 DEF Waits, OwnerInv, O!TypeOK
  <2>2. Waits \subseteq Callers /\ IsFiniteSet(Waits) /\ Cardinality(Waits) \in Nat
    BY OwnerAssumption, FS_Subset, FS_CardinalityType DEF Waits
  <2>3. Cardinality(Waits') = Cardinality(Waits) + 1
    BY <2>1, <2>2, FS_AddElement
  <2>4. Made' = Made /\ taken' \cup live' = taken \cup live /\ (Owning' <=> Owning)
    BY <1>1 DEF Made, selectionv, Owning, O!Exited
  <2>5. Made \in Nat
    BY MadeIsCount DEF OwnerInv
  <2>6. sets \in Nat
    BY DEF OwnerInv, O!TypeOK
  <2> QED
    BY <1>1, <2>2, <2>3, <2>4, <2>5, <2>6 DEF OwnerInv, CountRule
<1>4. OnceRule' /\ TurnRule'
  <2>1. serving \in Callers /\ Owning => serving # k
    BY <1>1, OwnerAssumption DEF OwnerInv, TurnRule
  <2>2. CASE Owning
    <3>1. serving \in Callers => call'[serving] = call[serving] /\ mine'[serving] = mine[serving]
      BY <1>1, <2>1, <2>2 DEF OwnerInv, O!TypeOK
    <3> QED
      BY <1>1, <3>1, CallerTurn
  <2>3. CASE ~Owning
    BY <1>1, <2>3 DEF OwnerInv, OnceRule, TurnRule, selectionv, Owning, O!Exited
  <2> QED
    BY <2>2, <2>3
<1>5. O!OkMeansTaken'
  BY <1>1 DEF OwnerInv, O!OkMeansTaken, O!TypeOK, selectionv
<1> QED
  BY <1>2, <1>3, <1>4, <1>5 DEF OwnerInv

LEMMA CallerSteps ==
  ASSUME OwnerInv, NEW k \in Callers, O!CallerStep(k)
  PROVE  OwnerInv'
<1>1. /\ \/ call[k] = "woken" /\ call' = [call EXCEPT ![k] = "offering"] /\ mine' = mine
         \/ call[k] = "offering" /\ O!Exited /\ call' = [call EXCEPT ![k] = "closed"] /\ mine' = mine
         \/ /\ call[k] \in O!Ended /\ call' = [call EXCEPT ![k] = "none"]
            /\ mine' = [mine EXCEPT ![k] = O!NoSource]
      /\ UNCHANGED <<sets, closer, stop, wake, selectionv, foreign>>
  BY DEF O!CallerStep, O!SetOffer, O!SetClosed, O!SetReturn, O!closev, O!runv, O!requested,
         O!remote, selectionv
<1>2. O!TypeOK'
  BY <1>1 DEF OwnerInv, O!TypeOK, O!Ended, selectionv
<1>3. \A d \in Callers \ {k} : call'[d] = call[d] /\ mine'[d] = mine[d]
  BY <1>1 DEF OwnerInv, O!TypeOK
<1>4. Owning' <=> Owning
  BY <1>1 DEF Owning, O!Exited, selectionv
<1>5. CountRule'
  <2>1. CASE Owning
    <3>1. Waits' = Waits
      BY <1>1, <1>3, <2>1 DEF Waits, Owning, OwnerInv, O!TypeOK, O!Ended
    <3> QED
      BY <1>1, <1>4, <3>1, CountKept DEF selectionv
  <2> QED
    BY <1>4, <2>1 DEF CountRule
<1>6. OnceRule' /\ TurnRule'
  <2>1. CASE Owning
    <3>1. serving \in Callers => serving # k
      BY <1>1, <2>1, OwnerAssumption DEF OwnerInv, TurnRule, O!Ended
    <3> QED
      BY <1>1, <1>3, <3>1, CallerTurn
  <2>2. CASE ~Owning
    BY <1>1, <1>4, <2>2 DEF OwnerInv, OnceRule, TurnRule, selectionv
  <2> QED
    BY <2>1, <2>2
<1>7. O!OkMeansTaken'
  BY <1>1, <1>3 DEF OwnerInv, O!OkMeansTaken, O!TypeOK, O!Ended, selectionv
<1> QED
  BY <1>2, <1>5, <1>6, <1>7 DEF OwnerInv

LEMMA CloseSteps ==
  ASSUME OwnerInv, O!CloseStep
  PROVE  OwnerInv'
<1>1. /\ UNCHANGED <<call, mine, sets, selectionv, foreign>>
      /\ closer' \in {"stopping", "waiting", "returned"} /\ stop' \in BOOLEAN
      /\ wake' \in {wake, wake + 1} /\ (wake' # wake => wake < PipeCap)
  BY DEF O!CloseStep, O!Wake, O!callerv, O!runv, O!requested, O!remote, selectionv, OwnerInv,
         O!TypeOK
<1>2. O!TypeOK'
  BY <1>1, OwnerAssumption DEF OwnerInv, O!TypeOK, selectionv
<1>3. CountRule'
  BY <1>1, CountKept DEF Waits, Owning, O!Exited, selectionv
<1>4. OnceRule' /\ TurnRule'
  BY <1>1, CallerTurn
<1>5. O!OkMeansTaken'
  BY <1>1 DEF OwnerInv, O!OkMeansTaken, selectionv
<1> QED
  BY <1>2, <1>3, <1>4, <1>5 DEF OwnerInv

\* Whoever has left, or has no connection any more, promises nothing further.
LEMMA LeaveStep ==
  ASSUME OwnerInv, O!RunStop \/ (O!RunPoll /\ lost)
  PROVE  OwnerInv'
<1>1. /\ run' = "exited" /\ serving' = O!NoCaller
      /\ selection' = IF selection \in O!Sources THEN O!NoSource ELSE selection
      /\ UNCHANGED <<call, mine, sets, closer, stop, sent, sync, taken, foreign, inbox, lost>>
      /\ wake' \in {wake, 0}
      /\ \/ UNCHANGED <<current, live>>
         \/ live' = live \ {current} /\ current' = O!NoSource
  BY DEF O!RunStop, O!RunPoll, O!Leave, O!callerv, O!closev, O!requested
<1>2. O!TypeOK'
  BY <1>1, OwnerAssumption DEF OwnerInv, O!TypeOK
<1>3. ~Owning'
  BY <1>1 DEF Owning, O!Exited
<1>4. OnceRule'
  BY <1>1, OwnerAssumption DEF OwnerInv, OnceRule, O!Sources, O!NoSource
<1>5. O!OkMeansTaken'
  BY <1>1 DEF OwnerInv, O!OkMeansTaken
<1> QED
  BY <1>2, <1>3, <1>4, <1>5 DEF OwnerInv, CountRule, TurnRule

LEMMA LoseStep ==
  ASSUME OwnerInv, O!Lose
  PROVE  OwnerInv'
<1>1. lost' = TRUE /\ UNCHANGED <<call, mine, sets, closer, stop, wake, run, serving, current, live,
                                 sent, sync, selection, taken, foreign, inbox>>
  BY DEF O!Lose, O!callerv, O!closev, O!runv, O!requested, O!remote
<1>2. O!TypeOK'
  BY <1>1 DEF OwnerInv, O!TypeOK
<1>3. ~Owning' /\ OnceRule' /\ O!OkMeansTaken'
  BY <1>1 DEF OwnerInv, Owning, OnceRule, O!OkMeansTaken
<1> QED
  BY <1>2, <1>3 DEF OwnerInv, CountRule, TurnRule

\* run goes to poll, is woken by nothing but a byte, or ends a paste.
LEMMA RestStep ==
  ASSUME OwnerInv, O!RunIdle \/ O!SendDone \/ (O!RunPoll /\ ~lost /\ inbox = << >>)
  PROVE  OwnerInv'
<1>1. /\ UNCHANGED <<call, mine, sets, closer, stop, serving, current, live, sent, sync, selection,
                     taken, foreign, inbox, lost>>
      /\ wake' \in {wake, 0} /\ run # "exited"
      /\ \/ run = "select" /\ run' = "poll"
         \/ run = "poll" /\ run' = "select"
         \/ run = "sending" /\ run' = IF serving = O!NoCaller THEN "select" ELSE "roundtrip"
  BY DEF O!RunIdle, O!SendDone, O!RunPoll, O!Leave, O!callerv, O!closev, O!requested, O!remote
<1>2. O!TypeOK'
  BY <1>1, OwnerAssumption DEF OwnerInv, O!TypeOK
<1>3. Owning' <=> Owning
  BY <1>1 DEF Owning, O!Exited
<1>4. CountRule'
  BY <1>1, <1>3, CountKept DEF Waits
<1>5. OnceRule' /\ O!OkMeansTaken'
  BY <1>1 DEF OwnerInv, OnceRule, O!OkMeansTaken
<1>6. Quiet => Quiet'
  BY <1>1 DEF Quiet, Agreed
<1>7. mine'[serving'] = mine[serving]
  BY <1>1
<1>8. Asked(mine[serving]) => Asked(mine[serving])'
  BY <1>1, <1>7 DEF Asked, Agreed
<1>9. Granted(mine[serving]) => Granted(mine[serving])'
  BY <1>1, <1>7 DEF Granted
<1>10. TurnRule'
  BY <1>1, <1>3, <1>6, <1>7, <1>8, <1>9 DEF OwnerInv, TurnRule
<1> QED
  BY <1>2, <1>4, <1>5, <1>10 DEF OwnerInv

\* A call is taken: its source is new, and the compositor is asked.
LEMMA ServeStep ==
  ASSUME OwnerInv, NEW k \in Callers, O!RunTake(k)
  PROVE  OwnerInv'
<1>1. CASE lost
  <2>1. /\ call' = [call EXCEPT ![k] = "failed"]
        /\ UNCHANGED <<mine, sets, closer, stop, wake, selectionv, foreign>>
    BY <1>1 DEF O!RunTake, O!closev, O!runv, O!requested, O!remote, selectionv
  <2>2. O!TypeOK'
    BY <2>1 DEF OwnerInv, O!TypeOK, O!Ended, selectionv
  <2>3. ~Owning' /\ OnceRule' /\ O!OkMeansTaken'
    BY <1>1, <2>1 DEF OwnerInv, Owning, OnceRule, O!OkMeansTaken, selectionv
  <2> QED
    BY <2>2, <2>3 DEF OwnerInv, CountRule, TurnRule
<1>2. CASE ~lost
  <2> DEFINE s == 1 + Made
  <2>1. /\ run = "select" /\ call[k] = "offering" /\ call' = [call EXCEPT ![k] = "handed"]
        /\ mine' = [mine EXCEPT ![k] = s] /\ live' = live \cup {s} /\ sent' = s /\ sync' = TRUE
        /\ run' = "roundtrip" /\ serving' = k
        /\ UNCHANGED <<sets, closer, stop, wake, current, selection, taken, foreign, inbox, lost>>
    <3>1. s = 1 + O!Cardinality(taken \cup live)
      BY SameCount DEF Made
    <3> HIDE DEF s
    <3> QED
      BY <1>2, <3>1 DEF O!RunTake, O!closev, O!runv, O!requested, O!remote
  <2>2. Owning /\ Owning' /\ k # O!NoCaller /\ serving = O!NoCaller /\ Quiet
    BY <1>2, <2>1, OwnerAssumption DEF Owning, O!Exited, OwnerInv, TurnRule
  <2>3. taken \cup live = 1..Made /\ Made + Cardinality(Waits) <= sets /\ Made \in Nat
        /\ sets \in 0..MaxSets
    BY <2>2, MadeIsCount DEF OwnerInv, CountRule, O!TypeOK
  <2>4. k \in Waits /\ IsFiniteSet(Waits)
    BY <2>1, OwnerAssumption, FS_Subset DEF Waits
  <2>5. Waits' = Waits \ {k}
    BY <2>1 DEF Waits, OwnerInv, O!TypeOK
  <2>6. /\ Cardinality(Waits') = Cardinality(Waits) - 1
        /\ Cardinality(Waits) \in Nat /\ Cardinality(Waits') \in Nat
    <3>1. Cardinality(Waits \ {k}) = Cardinality(Waits) - 1 /\ IsFiniteSet(Waits \ {k})
      BY <2>4, FS_RemoveElement
    <3> QED
      BY <2>4, <2>5, <3>1, FS_CardinalityType
  <2>7. s \in O!Sources /\ s # O!NoSource /\ s \notin taken /\ s \notin live
    BY <2>3, <2>6, OwnerAssumption DEF O!Sources, O!NoSource
  <2>8. taken' \cup live' = 1..s /\ Made' = s
    <3>1. taken' \cup live' = 1..s
      BY <2>1, <2>3
    <3>2. Cardinality(1..s) = s
      BY <2>3, FS_Interval
    <3> QED
      BY <3>1, <3>2 DEF Made
  <2>9. CountRule'
    BY <2>1, <2>3, <2>6, <2>8 DEF CountRule, O!TypeOK
  <2> HIDE DEF s
  <2>10. O!TypeOK'
    BY <2>1, <2>7 DEF OwnerInv, O!TypeOK
  <2>11. current # s
    BY <2>2, <2>7 DEF Quiet
  <2>12. OnceRule'
    BY <2>1, <2>7 DEF OwnerInv, OnceRule
  <2>13. call'[serving'] = "handed" /\ mine'[serving'] = s
    BY <2>1 DEF OwnerInv, O!TypeOK
  <2>14. Asked(mine[serving])'
    BY <2>1, <2>2, <2>7, <2>11, <2>13 DEF Asked, Quiet, Agreed
  <2>15. TurnRule'
    BY <2>1, <2>2, <2>7, <2>13, <2>14 DEF TurnRule
  <2>16. O!OkMeansTaken'
    BY <2>1 DEF OwnerInv, O!OkMeansTaken, O!TypeOK
  <2> QED
    BY <2>9, <2>10, <2>12, <2>15, <2>16 DEF OwnerInv
<1> QED
  BY <1>1, <1>2

\* What a message is.
LEMMA MessageKinds ==
  ASSUME NEW m \in O!Messages
  PROVE  /\ m.kind = "cancelled" => \E x \in O!Sources : m = O!Cancelled(x) /\ m.source = x
         /\ \A x : m = O!Cancelled(x) => m.kind = "cancelled" /\ m.source = x
BY DEF O!Messages, O!Cancelled, O!Send, O!Selection, O!SyncDone

\* A message but the answer is handled: a cancelled source is destroyed.
LEMMA HandleKeeps ==
  ASSUME OwnerInv, Owning, inbox # << >>, inbox' = Tail(inbox), O!Handle(Head(inbox)),
         Head(inbox).kind # "done",
         UNCHANGED <<sent, sync, selection, taken>>
  PROVE  /\ current' \in O!Sources \cup {O!NoSource} /\ live' \subseteq O!Sources
         /\ inbox' \in Seq(O!Messages)
         /\ taken' \cup live' = taken \cup live
         /\ OnceRule'
         /\ Quiet => Quiet'
         /\ \A s \in O!Sources : (Asked(s) => Asked(s)') /\ (Granted(s) => Granted(s)')
<1> DEFINE m == Head(inbox)
<1>1. inbox \in Seq(O!Messages) /\ m \in O!Messages
  BY DEF OwnerInv, O!TypeOK
<1>2. /\ \A x : Has(inbox', x) => Has(inbox, x)
      /\ \A x : Has(inbox, x) => x = m \/ Has(inbox', x)
      /\ Has(inbox, m)
      /\ NoDone(inbox) => NoDone(inbox')
      /\ OneDone(inbox) => OneDone(inbox')
      /\ \A x : Due(inbox, x) => O!Cancelled(x) = m \/ Due(inbox', x)
  BY <1>1, Handled
<1>3. inbox' \in Seq(O!Messages)
  BY <1>1
<1> HIDE DEF m
<1>4. OnceRule'
  BY <1>2 DEF OwnerInv, OnceRule
<1>5. CASE m.kind # "cancelled"
  <2>1. UNCHANGED <<live, current>>
    BY <1>5 DEF O!Handle, m
  <2>2. \A x : m # O!Cancelled(x)
    BY <1>1, <1>5, MessageKinds
  <2>3. \A x : (Has(inbox, O!Cancelled(x)) => Has(inbox', O!Cancelled(x)))
               /\ (Due(inbox, x) => Due(inbox', x))
    BY <1>2, <2>2
  <2>4. Agreed => Agreed'
    BY <2>1, <2>3 DEF Agreed
  <2>5. Quiet => Quiet'
    BY <1>2, <2>1, <2>4 DEF Quiet
  <2>6. ASSUME NEW s \in O!Sources
        PROVE  (Asked(s) => Asked(s)') /\ (Granted(s) => Granted(s)')
    BY <1>2, <2>1, <2>3, <2>4 DEF Asked, Granted
  <2> QED
    BY <1>3, <1>4, <2>1, <2>5, <2>6 DEF OwnerInv, O!TypeOK
<1>6. CASE m.kind = "cancelled"
  <2>1. PICK x \in O!Sources : m = O!Cancelled(x) /\ m.source = x
    BY <1>1, <1>6, MessageKinds
  <2>2. /\ live' = live \ {x}
        /\ current' = IF current = x THEN O!NoSource ELSE current
    BY <1>6, <2>1 DEF O!Handle, m
  <2>3. x \in taken /\ x # selection /\ x # sent /\ x # O!NoSource
    BY <1>2, <2>1 DEF OwnerInv, OnceRule, O!Sources, O!NoSource
  <2>4. ASSUME NEW y, y # x
        PROVE  /\ Has(inbox, O!Cancelled(y)) => Has(inbox', O!Cancelled(y))
               /\ Due(inbox, y) => Due(inbox', y)
    <3>1. m # O!Cancelled(y)
      BY <1>1, <2>1, <2>4, MessageKinds
    <3> QED
      BY <1>2, <3>1
  <2>5. Agreed => Agreed'
    BY <2>2, <2>3, <2>4 DEF Agreed
  <2>6. Quiet => Quiet'
    BY <1>2, <2>2, <2>5 DEF Quiet
  <2>7. ASSUME NEW s \in O!Sources, Asked(s)
        PROVE  Asked(s)'
    <3>1. s # x /\ s # O!NoSource
      BY <2>3, <2>7 DEF Asked, O!Sources, O!NoSource
    <3>2. live' \ {s} = {current'} \ {O!NoSource} /\ current' # s /\ s \in live'
      BY <2>2, <2>7, <3>1 DEF Asked
    <3> QED
      BY <1>2, <2>5, <2>7, <3>2 DEF Asked
  <2>8. ASSUME NEW s \in O!Sources, Granted(s)
        PROVE  Granted(s)'
    <3>1. s # O!NoSource
      BY DEF O!Sources, O!NoSource
    <3>2. live' \ {s} = {current'} \ {O!NoSource} /\ current' # s
      BY <2>2, <2>8, <3>1 DEF Granted
    <3>3. current' # O!NoSource => Due(inbox', current')
      BY <2>2, <2>4, <2>8 DEF Granted
    <3>4. s \in live' => selection' = s \/ Has(inbox', O!Cancelled(s))
      BY <2>2, <2>4, <2>8 DEF Granted
    <3>5. selection' \in O!Sources => selection' = s /\ s \in live'
      BY <2>2, <2>3, <2>8 DEF Granted
    <3> QED
      BY <1>2, <2>8, <3>2, <3>3, <3>4, <3>5 DEF Granted
  <2>9. taken' \cup live' = taken \cup live /\ live' \subseteq O!Sources
    BY <2>2, <2>3 DEF OwnerInv, O!TypeOK
  <2>10. current' \in O!Sources \cup {O!NoSource}
    BY <2>2 DEF OwnerInv, O!TypeOK
  <2> QED
    BY <1>3, <1>4, <2>6, <2>7, <2>8, <2>9, <2>10
<1> QED
  BY <1>5, <1>6

LEMMA DispatchStep ==
  ASSUME OwnerInv, ~lost, inbox # << >>, Head(inbox).kind # "done", O!Handle(Head(inbox)),
         inbox' = Tail(inbox), run \in {"poll", "roundtrip"},
         run' \in {"sending", IF run = "poll" THEN "select" ELSE "roundtrip"},
         wake' \in {wake, 0},
         UNCHANGED <<call, mine, sets, closer, stop, serving, sent, sync, selection, taken, foreign,
                     lost>>
  PROVE  OwnerInv'
<1>1. Owning /\ Owning'
  BY DEF Owning, O!Exited
<1>2. /\ current' \in O!Sources \cup {O!NoSource} /\ live' \subseteq O!Sources
      /\ inbox' \in Seq(O!Messages)
      /\ taken' \cup live' = taken \cup live
      /\ OnceRule'
      /\ Quiet => Quiet'
      /\ \A s \in O!Sources : (Asked(s) => Asked(s)') /\ (Granted(s) => Granted(s)')
  BY <1>1, HandleKeeps
<1>3. O!TypeOK'
  BY <1>2, OwnerAssumption DEF OwnerInv, O!TypeOK
<1>4. CountRule'
  BY <1>1, <1>2, CountKept DEF Waits
<1>5. TurnRule'
  <2>1. CASE serving = O!NoCaller
    BY <1>1, <1>2, <2>1 DEF OwnerInv, TurnRule
  <2>2. CASE serving # O!NoCaller
    <3> DEFINE s == mine[serving]
    <3>1. call[serving] = "handed" /\ s \in O!Sources /\ (Asked(s) \/ Granted(s))
      BY <1>1, <2>2 DEF OwnerInv, TurnRule
    <3>2. mine'[serving'] = s /\ call'[serving'] = "handed"
      BY <3>1
    <3>3. \A x \in O!Sources : x = s => Asked(x)' \/ Granted(x)'
      BY <1>2, <3>1
    <3>4. Asked(mine[serving])' \/ Granted(mine[serving])'
      BY <3>1, <3>2, <3>3 DEF Asked, Granted
    <3>5. run \in {"roundtrip"} /\ run' \in {"sending", "roundtrip"}
      BY <1>1, <2>2 DEF OwnerInv, TurnRule
    <3> QED
      BY <2>2, <3>1, <3>2, <3>4, <3>5 DEF TurnRule
  <2> QED
    BY <2>1, <2>2
<1>6. O!OkMeansTaken'
  BY DEF OwnerInv, O!OkMeansTaken
<1> QED
  BY <1>2, <1>3, <1>4, <1>5, <1>6 DEF OwnerInv

\* The answer: what was current is destroyed by now, and the call's source is
\* current unless it was cancelled too.
LEMMA AnswerStep ==
  ASSUME OwnerInv, run = "roundtrip", ~lost, inbox # << >>, Head(inbox).kind = "done",
         O!Adopt(serving), O!Served(serving), inbox' = Tail(inbox),
         UNCHANGED <<mine, sets, closer, stop, wake, live, sent, sync, selection, taken, foreign,
                     lost>>
  PROVE  OwnerInv'
<1> DEFINE s == mine[serving]
<1>1. Owning /\ Owning'
  BY DEF Owning, O!Exited, O!Served
<1>2. serving # O!NoCaller /\ call[serving] = "handed" /\ s \in O!Sources /\ (Asked(s) \/ Granted(s))
  BY <1>1 DEF OwnerInv, TurnRule
<1>3. serving \in Callers /\ inbox \in Seq(O!Messages)
  BY <1>2 DEF OwnerInv, O!TypeOK
<1>4. /\ \A x : Has(inbox', x) => Has(inbox, x)
      /\ \A x : Has(inbox, x) => x = Head(inbox) \/ Has(inbox', x)
      /\ OneDone(inbox) => NoDone(inbox')
      /\ \A x : ~Due(inbox, x)
      /\ Has(inbox, Head(inbox)) /\ ~NoDone(inbox)
  <2>1. ~NoDone(inbox)
    <3>1. 1 \in 1..Len(inbox) /\ inbox[1].kind = "done"
      BY <1>3
    <3> QED
      BY <3>1 DEF NoDone
  <2> QED
    BY <1>3, <2>1, Handled
<1>5. Granted(s)
  BY <1>2, <1>4 DEF Asked
<1> HIDE DEF s
<1>6. current = O!NoSource /\ live \ {s} = {} /\ ~sync /\ NoDone(inbox')
  BY <1>4, <1>5 DEF Granted
<1>7. current' = IF s \in live THEN s ELSE O!NoSource
  BY <1>6 DEF O!Adopt, s
<1>8. s # O!NoSource /\ Head(inbox) # O!Cancelled(s)
  BY <1>2 DEF O!Sources, O!NoSource, O!Cancelled
<1>9. live' = {current'} \ {O!NoSource}
  BY <1>6, <1>7, <1>8
<1>10. Agreed'
  BY <1>4, <1>5, <1>7, <1>8 DEF Granted, Agreed
<1>11. Quiet'
  BY <1>5, <1>6, <1>9, <1>10 DEF Granted, Quiet
<1>12. serving' = O!NoCaller /\ run' = "select" /\ call' = [call EXCEPT ![serving] = "ok"]
  BY DEF O!Served
<1>13. TurnRule'
  BY <1>11, <1>12 DEF TurnRule
<1>14. O!TypeOK'
  BY <1>2, <1>3, <1>7, <1>12 DEF OwnerInv, O!TypeOK, O!Ended
<1>15. CountRule'
  <2>1. Waits' = Waits
    BY <1>2, <1>3, <1>12 DEF Waits, OwnerInv, O!TypeOK
  <2> QED
    BY <1>1, <2>1, CountKept
<1>16. OnceRule'
  BY <1>4 DEF OwnerInv, OnceRule
<1>17. O!OkMeansTaken'
  <2>1. s \in taken
    BY <1>5 DEF Granted
  <2>2. \A k \in Callers : call'[k] = "ok" => call[k] = "ok" \/ k = serving
    BY <1>3, <1>12 DEF OwnerInv, O!TypeOK
  <2> QED
    BY <2>1, <2>2 DEF OwnerInv, O!OkMeansTaken, s
<1> QED
  BY <1>13, <1>14, <1>15, <1>16, <1>17 DEF OwnerInv

\* The connection is lost while the answer is awaited: the call ends all the same.
LEMMA GiveUpStep ==
  ASSUME OwnerInv, run = "roundtrip", lost, O!Adopt(serving), O!Served(serving),
         UNCHANGED <<inbox, live, mine, sets, closer, stop, wake, sent, sync, selection, taken,
                     foreign, lost>>
  PROVE  OwnerInv'
<1>1. /\ current' \in {current, mine[serving]} /\ (current' # current => mine[serving] \in live)
      /\ run' = "select" /\ serving' = O!NoCaller
      /\ call' = [call EXCEPT ![serving] = "ok"]
  BY DEF O!Adopt, O!Served
<1>2. O!TypeOK'
  BY <1>1 DEF OwnerInv, O!TypeOK, O!Ended
<1>3. ~Owning' /\ OnceRule' /\ O!OkMeansTaken'
  BY DEF OwnerInv, Owning, OnceRule, O!OkMeansTaken
<1> QED
  BY <1>2, <1>3 DEF OwnerInv, CountRule, TurnRule

\* The connection is lost, and what had arrived before is still dispatched.
LEMMA LateAnswerStep ==
  ASSUME OwnerInv, run = "roundtrip", lost, inbox # << >>, O!Adopt(serving), O!Served(serving),
         inbox' = Tail(inbox),
         UNCHANGED <<live, mine, sets, closer, stop, wake, sent, sync, selection, taken, foreign,
                     lost>>
  PROVE  OwnerInv'
<1>1. /\ current' \in {current, mine[serving]} /\ (current' # current => mine[serving] \in live)
      /\ run' = "select" /\ serving' = O!NoCaller
      /\ call' = [call EXCEPT ![serving] = "ok"]
  BY DEF O!Adopt, O!Served
<1>2. inbox' \in Seq(O!Messages) /\ \A m : Has(inbox', m) => Has(inbox, m)
  BY Handled DEF OwnerInv, O!TypeOK
<1>3. O!TypeOK'
  BY <1>1, <1>2 DEF OwnerInv, O!TypeOK, O!Ended
<1>4. ~Owning' /\ OnceRule' /\ O!OkMeansTaken'
  BY <1>2 DEF OwnerInv, Owning, OnceRule, O!OkMeansTaken
<1> QED
  BY <1>3, <1>4 DEF OwnerInv, CountRule, TurnRule

LEMMA LateDispatchStep ==
  ASSUME OwnerInv, lost, inbox # << >>, O!Handle(Head(inbox)), inbox' = Tail(inbox),
         run' \in {"sending", "roundtrip"},
         UNCHANGED <<call, serving, mine, sets, closer, stop, wake, sent, sync, selection, taken,
                     foreign, lost>>
  PROVE  OwnerInv'
<1>1. current' \in {current, O!NoSource} /\ live' \subseteq live
  BY DEF O!Handle
<1>2. inbox' \in Seq(O!Messages) /\ \A m : Has(inbox', m) => Has(inbox, m)
  BY Handled DEF OwnerInv, O!TypeOK
<1>3. O!TypeOK'
  BY <1>1, <1>2 DEF OwnerInv, O!TypeOK
<1>4. ~Owning' /\ OnceRule' /\ O!OkMeansTaken'
  BY <1>2 DEF OwnerInv, Owning, OnceRule, O!OkMeansTaken
<1> QED
  BY <1>3, <1>4 DEF OwnerInv, CountRule, TurnRule

\* The selection passes to another: who had it is told.
LEMMA DisplacedTells ==
  ASSUME OwnerInv
  PROVE  /\ O!Displaced \in Seq(O!Messages) /\ NoDone(O!Displaced)
         /\ selection \in O!Sources => Has(O!Displaced, O!Cancelled(selection))
         /\ \A s \in O!Sources : Has(O!Displaced, O!Cancelled(s)) => s = selection
<1>1. /\ O!Selection \in O!Messages /\ O!Selection.kind = "selection"
      /\ \A s \in O!Sources : O!Cancelled(s) \in O!Messages
      /\ \A s : O!Cancelled(s).kind = "cancelled" /\ O!Cancelled(s).source = s
  BY DEF O!Messages, O!Selection, O!Cancelled
<1>2. CASE selection \in O!Sources
  <2>1. O!Displaced = <<O!Cancelled(selection), O!Selection>>
    BY <1>2 DEF O!Displaced
  <2>2. /\ Len(O!Displaced) = 2 /\ O!Displaced[1] = O!Cancelled(selection)
        /\ O!Displaced[2] = O!Selection
    BY <2>1
  <2>3. O!Displaced \in Seq(O!Messages)
    BY <1>1, <1>2, <2>1
  <2>4. 1 \in 1..Len(O!Displaced) /\ \A j \in 1..Len(O!Displaced) : j = 1 \/ j = 2
    BY <2>2
  <2>5. NoDone(O!Displaced)
    BY <1>1, <2>2, <2>4 DEF NoDone
  <2>6. Has(O!Displaced, O!Cancelled(selection))
    BY <2>2, <2>4 DEF Has
  <2>7. ASSUME NEW s \in O!Sources, Has(O!Displaced, O!Cancelled(s))
        PROVE  s = selection
    <3>1. O!Cancelled(s) = O!Cancelled(selection) \/ O!Cancelled(s) = O!Selection
      BY <2>2, <2>4, <2>7 DEF Has
    <3> QED
      BY <1>1, <3>1
  <2> QED
    BY <2>3, <2>5, <2>6, <2>7
<1>3. CASE selection \notin O!Sources
  <2>1. O!Displaced = <<O!Selection>>
    BY <1>3 DEF O!Displaced
  <2>2. Len(O!Displaced) = 1 /\ O!Displaced[1] = O!Selection
    BY <2>1
  <2>3. O!Displaced \in Seq(O!Messages)
    BY <1>1, <2>1
  <2>4. \A j \in 1..Len(O!Displaced) : j = 1
    BY <2>2
  <2>5. NoDone(O!Displaced)
    BY <1>1, <2>2, <2>4 DEF NoDone
  <2>6. \A s \in O!Sources : ~Has(O!Displaced, O!Cancelled(s))
    BY <1>1, <2>2, <2>4 DEF Has
  <2> QED
    BY <1>3, <2>3, <2>5, <2>6
<1> QED
  BY <1>2, <1>3

LEMMA CompositorSetsStep ==
  ASSUME OwnerInv, O!CompositorSets
  PROVE  OwnerInv'
<1>1. /\ sent # O!NoSource /\ ~lost /\ sent' = O!NoSource /\ selection' = sent
      /\ taken' = taken \cup {sent} /\ inbox' = inbox \o O!Displaced
      /\ UNCHANGED <<call, mine, sets, closer, stop, wake, run, serving, current, live, sync, foreign,
                     lost>>
  BY DEF O!CompositorSets, O!callerv, O!closev, O!runv
<1>2. sent \in O!Sources /\ sent \notin taken
  BY <1>1 DEF OwnerInv, O!TypeOK, OnceRule
<1>3. inbox \in Seq(O!Messages)
  BY DEF OwnerInv, O!TypeOK
<1>4. /\ O!Displaced \in Seq(O!Messages) /\ NoDone(O!Displaced)
      /\ selection \in O!Sources => Has(O!Displaced, O!Cancelled(selection))
      /\ \A s \in O!Sources : Has(O!Displaced, O!Cancelled(s)) => s = selection
  BY DisplacedTells
<1>5. /\ \A m : Has(inbox', m) <=> Has(inbox, m) \/ Has(O!Displaced, m)
      /\ NoDone(inbox) => NoDone(inbox')
      /\ inbox' \in Seq(O!Messages)
  BY <1>1, <1>3, <1>4, Arrive
<1>6. O!TypeOK'
  BY <1>1, <1>2, <1>5 DEF OwnerInv, O!TypeOK
<1>7. OnceRule'
  BY <1>1, <1>2, <1>4, <1>5 DEF OwnerInv, OnceRule
<1>8. Owning' <=> Owning
  BY <1>1 DEF Owning, O!Exited
<1>9. ASSUME Owning
      PROVE  serving # O!NoCaller /\ Asked(mine[serving])
  BY <1>1, <1>9 DEF OwnerInv, TurnRule, Quiet, Granted
<1>10. CountRule'
  <2>1. Owning => sent \in live
    BY <1>9 DEF Asked
  <2> QED
    BY <1>1, <1>8, <2>1, CountKept DEF CountRule, Waits
<1>11. ASSUME Owning
       PROVE  Granted(mine[serving])'
  <2>1. sent = mine[serving] /\ Asked(sent) /\ mine'[serving'] = sent
    BY <1>1, <1>9, <1>11 DEF Asked
  <2>2. NoDone(inbox') /\ OneDone(inbox')
    BY <1>5, <2>1 DEF Asked, NoDone, OneDone
  <2>3. current # O!NoSource => Has(inbox', O!Cancelled(current))
    <3>1. current # O!NoSource => selection = current \/ Has(inbox, O!Cancelled(current))
      BY <2>1 DEF Asked, Agreed
    <3>2. current # O!NoSource => current \in O!Sources
      BY DEF OwnerInv, O!TypeOK
    <3> QED
      BY <1>4, <1>5, <3>1, <3>2
  <2>4. current' # O!NoSource => Due(inbox', current')
    BY <1>1, <1>5, <2>2, <2>3, ComingIsDue
  <2> QED
    BY <1>1, <2>1, <2>2, <2>4 DEF Granted, Asked
<1>12. TurnRule'
  BY <1>1, <1>8, <1>9, <1>11 DEF OwnerInv, TurnRule
<1>13. O!OkMeansTaken'
  BY <1>1 DEF OwnerInv, O!OkMeansTaken
<1> QED
  BY <1>6, <1>7, <1>10, <1>12, <1>13 DEF OwnerInv

LEMMA CompositorSyncsStep ==
  ASSUME OwnerInv, O!CompositorSyncs
  PROVE  OwnerInv'
<1>1. /\ sync /\ sync' = FALSE /\ sent = O!NoSource /\ inbox' = Append(inbox, O!SyncDone)
      /\ UNCHANGED <<call, mine, sets, closer, stop, wake, run, serving, current, live, sent,
                     selection, taken, foreign, lost>>
  BY DEF O!CompositorSyncs, O!callerv, O!closev, O!runv, O!remote
<1>2. inbox \in Seq(O!Messages) /\ O!SyncDone \in O!Messages
  BY DEF OwnerInv, O!TypeOK, O!Messages
<1>3. \A s : O!SyncDone # O!Cancelled(s)
  BY DEF O!SyncDone, O!Cancelled
<1>4. /\ \A s : Has(inbox', O!Cancelled(s)) <=> Has(inbox, O!Cancelled(s))
      /\ NoDone(inbox) => OneDone(inbox')
      /\ \A s : Due(inbox, s) => Due(inbox', s)
  BY <1>1, <1>2, <1>3, ArriveOne
<1>5. O!TypeOK'
  <2>1. \A D, q, m : q \in Seq(D) /\ m \in D => Append(q, m) \in Seq(D)
    OBVIOUS
  <2>2. Append(inbox, O!SyncDone) \in Seq(O!Messages)
    BY <1>2, <2>1
  <2>3. inbox' \in Seq(O!Messages)
    BY <1>1, <2>2
  <2> QED
    BY <1>1, <2>3 DEF OwnerInv, O!TypeOK
<1>6. OnceRule'
  BY <1>1, <1>4 DEF OwnerInv, OnceRule
<1>7. Owning' <=> Owning
  BY <1>1 DEF Owning, O!Exited
<1>8. CountRule'
  BY <1>1, <1>7, CountKept DEF Waits
<1>9. TurnRule'
  <2>1. ASSUME Owning
        PROVE  /\ serving # O!NoCaller /\ call[serving] = "handed" /\ mine[serving] \in O!Sources
               /\ Granted(mine[serving])
    BY <1>1, <2>1 DEF OwnerInv, TurnRule, Quiet, Asked, O!Sources, O!NoSource
  <2>2. ASSUME Owning
        PROVE  Granted(mine[serving])'
    <3>1. mine'[serving'] = mine[serving]
      BY <1>1
    <3> QED
      BY <1>1, <1>4, <2>1, <2>2, <3>1 DEF Granted
  <2> QED
    BY <1>1, <1>7, <2>1, <2>2 DEF OwnerInv, TurnRule
<1>10. O!OkMeansTaken'
  BY <1>1 DEF OwnerInv, O!OkMeansTaken
<1> QED
  BY <1>5, <1>6, <1>8, <1>9, <1>10 DEF OwnerInv

LEMMA ForeignSetsStep ==
  ASSUME OwnerInv, O!ForeignSets
  PROVE  OwnerInv'
<1>1. /\ selection' = O!Foreign /\ foreign < MaxForeign /\ foreign' = foreign + 1
      /\ inbox' = inbox \o O!Displaced
      /\ UNCHANGED <<call, mine, sets, closer, stop, wake, run, serving, current, live, sent, sync,
                     taken, lost>>
  BY DEF O!ForeignSets, O!callerv, O!closev, O!runv, O!requested
<1>2. O!Foreign \notin O!Sources
  BY OwnerAssumption DEF O!Foreign, O!Sources
<1>3. inbox \in Seq(O!Messages)
  BY DEF OwnerInv, O!TypeOK
<1>4. /\ O!Displaced \in Seq(O!Messages) /\ NoDone(O!Displaced)
      /\ selection \in O!Sources => Has(O!Displaced, O!Cancelled(selection))
      /\ \A s \in O!Sources : Has(O!Displaced, O!Cancelled(s)) => s = selection
  BY DisplacedTells
<1>5. /\ \A m : Has(inbox', m) <=> Has(inbox, m) \/ Has(O!Displaced, m)
      /\ NoDone(inbox) => NoDone(inbox')
      /\ OneDone(inbox) => OneDone(inbox')
      /\ \A s : Due(inbox, s) => Due(inbox', s)
      /\ inbox' \in Seq(O!Messages)
  BY <1>1, <1>3, <1>4, Arrive
<1>6. O!TypeOK'
  BY <1>1, <1>5, OwnerAssumption DEF OwnerInv, O!TypeOK
<1>7. OnceRule'
  BY <1>1, <1>2, <1>4, <1>5 DEF OwnerInv, OnceRule
<1>8. Owning' <=> Owning
  BY <1>1 DEF Owning, O!Exited
<1>9. CountRule'
  BY <1>1, <1>8, CountKept DEF Waits
<1>10. current \in O!Sources \cup {O!NoSource}
  BY DEF OwnerInv, O!TypeOK
<1>11. Agreed => Agreed'
  BY <1>1, <1>2, <1>4, <1>5, <1>10 DEF Agreed
<1>12. Quiet => Quiet'
  BY <1>1, <1>5, <1>11 DEF Quiet
<1>13. mine'[serving'] = mine[serving]
  BY <1>1
<1>14. Asked(mine[serving]) => Asked(mine[serving])'
  BY <1>1, <1>5, <1>11, <1>13 DEF Asked
<1>15. mine[serving] \in O!Sources /\ Granted(mine[serving]) => Granted(mine[serving])'
  BY <1>1, <1>2, <1>4, <1>5, <1>13 DEF Granted
<1>16. TurnRule'
  BY <1>1, <1>8, <1>12, <1>13, <1>14, <1>15 DEF OwnerInv, TurnRule
<1>17. O!OkMeansTaken'
  BY <1>1 DEF OwnerInv, O!OkMeansTaken
<1> QED
  BY <1>6, <1>7, <1>9, <1>16, <1>17 DEF OwnerInv

LEMMA ForeignPastesStep ==
  ASSUME OwnerInv, O!ForeignPastes
  PROVE  OwnerInv'
<1> DEFINE m == O!Send(selection)
<1>1. /\ selection \in O!Sources /\ foreign < MaxForeign /\ foreign' = foreign + 1
      /\ inbox' = Append(inbox, m)
      /\ UNCHANGED <<call, mine, sets, closer, stop, wake, run, serving, current, live, sent, sync,
                     selection, taken, lost>>
  BY DEF O!ForeignPastes, O!callerv, O!closev, O!runv, O!requested
<1>2. /\ inbox \in Seq(O!Messages) /\ m \in O!Messages /\ m.kind # "done"
      /\ \A s : m # O!Cancelled(s)
  BY <1>1 DEF OwnerInv, O!TypeOK, O!Messages, O!Send, O!Cancelled
<1> HIDE DEF m
<1>3. /\ \A s : Has(inbox', O!Cancelled(s)) <=> Has(inbox, O!Cancelled(s))
      /\ NoDone(inbox) => NoDone(inbox')
      /\ OneDone(inbox) => OneDone(inbox')
      /\ \A s : Due(inbox, s) => Due(inbox', s)
  BY <1>1, <1>2, ArriveOne
<1>4. O!TypeOK'
  BY <1>1, <1>2, OwnerAssumption DEF OwnerInv, O!TypeOK
<1>5. OnceRule'
  BY <1>1, <1>3 DEF OwnerInv, OnceRule
<1>6. Owning' <=> Owning
  BY <1>1 DEF Owning, O!Exited
<1>7. CountRule'
  BY <1>1, <1>6, CountKept DEF Waits
<1>8. Agreed => Agreed'
  BY <1>1, <1>3 DEF Agreed
<1>9. Quiet => Quiet'
  BY <1>1, <1>3, <1>8 DEF Quiet
<1>10. mine'[serving'] = mine[serving]
  BY <1>1
<1>11. /\ Asked(mine[serving]) => Asked(mine[serving])'
       /\ Granted(mine[serving]) => Granted(mine[serving])'
  BY <1>1, <1>3, <1>8, <1>10 DEF Asked, Granted
<1>12. TurnRule'
  BY <1>1, <1>6, <1>9, <1>10, <1>11 DEF OwnerInv, TurnRule
<1>13. O!OkMeansTaken'
  BY <1>1 DEF OwnerInv, O!OkMeansTaken
<1> QED
  BY <1>4, <1>5, <1>7, <1>12, <1>13 DEF OwnerInv

LEMMA OwnerStart == O!Init => OwnerInv
<1> SUFFICES ASSUME O!Init PROVE OwnerInv
  OBVIOUS
<1>1. /\ call = [k \in Callers |-> "none"] /\ sets = 0 /\ run = "select" /\ serving = O!NoCaller
      /\ current = O!NoSource /\ live = {} /\ sent = O!NoSource /\ sync = FALSE
      /\ selection \in {O!NoSource, O!Foreign} /\ taken = {} /\ inbox = << >>
  BY DEF O!Init
<1>2. O!TypeOK
  <2>1. inbox \in Seq(O!Messages) /\ 0 \in 0..MaxSets /\ 0 \in 0..MaxForeign /\ 0 \in 0..PipeCap
    BY <1>1, OwnerAssumption
  <2>2. selection \in O!Sources \cup {O!NoSource, O!Foreign}
    BY <1>1
  <2> QED
    BY <2>1, <2>2 DEF O!Init, O!TypeOK
<1>3. selection \notin O!Sources
  BY <1>1, OwnerAssumption DEF O!Sources, O!NoSource, O!Foreign
<1>4. NoDone(inbox) /\ \A m : ~Has(inbox, m)
  BY <1>1 DEF NoDone, Has
<1>5. CountRule
  <2>1. Waits = {}
    BY <1>1 DEF Waits
  <2>2. taken \cup live = {} /\ Made = 0 /\ Cardinality(Waits) = 0
    BY <1>1, <2>1, FS_EmptySet DEF Made
  <2> QED
    BY <1>1, <2>2 DEF CountRule
<1>6. OnceRule
  BY <1>1, <1>3, <1>4 DEF OnceRule
<1>7. TurnRule
  BY <1>1, <1>3, <1>4 DEF TurnRule, Quiet, Agreed
<1>8. O!OkMeansTaken
  BY <1>1 DEF O!OkMeansTaken
<1> QED
  BY <1>2, <1>5, <1>6, <1>7, <1>8 DEF OwnerInv

THEOREM OwnerInvCorrect == O!Spec => []OwnerInv
<1>1. OwnerInv /\ [O!Next]_O!vars => OwnerInv'
  <2> SUFFICES ASSUME OwnerInv, [O!Next]_O!vars PROVE OwnerInv'
    OBVIOUS
  <2>1. ASSUME NEW k \in Callers, O!SetWake(k) \/ O!CallerStep(k)
        PROVE  OwnerInv'
    BY <2>1, SetWakeStep, CallerSteps
  <2>2. CASE O!CloseStep
    BY <2>2, CloseSteps
  <2>3. CASE O!RunStop \/ O!RunIdle \/ O!SendDone
    BY <2>3, LeaveStep, RestStep
  <2>4. ASSUME NEW k \in Callers, O!RunTake(k)
        PROVE  OwnerInv'
    BY <2>4, ServeStep
  <2>5. CASE O!RunPoll
    <3>1. CASE lost
      BY <2>5, <3>1, LeaveStep
    <3>2. CASE ~lost /\ inbox = << >>
      BY <2>5, <3>2, RestStep
    <3>3. CASE ~lost /\ inbox # << >>
      <4>1. /\ run = "poll" /\ O!Handle(Head(inbox)) /\ inbox' = Tail(inbox) /\ wake' = 0
            /\ run' \in {"sending", "select"}
            /\ UNCHANGED <<call, mine, sets, closer, stop, serving, sent, sync, selection, taken,
                           foreign, lost>>
        BY <2>5, <3>3 DEF O!RunPoll, O!callerv, O!closev, O!requested, O!remote
      <4>2. NoDone(inbox)
        BY <3>3, <4>1 DEF OwnerInv, TurnRule, Owning, O!Exited, Quiet
      <4>3. Head(inbox).kind # "done"
        BY <3>3, <4>2 DEF NoDone, OwnerInv, O!TypeOK
      <4> QED
        BY <3>3, <4>1, <4>3, DispatchStep
    <3> QED
      BY <3>1, <3>2, <3>3
  <2>6. CASE O!RunRoundtrip
    <3>1. /\ run = "roundtrip"
          /\ UNCHANGED <<mine, sets, closer, stop, wake, sent, sync, selection, taken, foreign, lost>>
      BY <2>6 DEF O!RunRoundtrip, O!closev, O!requested, O!remote
    <3>2. CASE /\ inbox # << >> /\ Head(inbox).kind = "done" /\ O!Adopt(serving)
               /\ O!Served(serving) /\ inbox' = Tail(inbox) /\ UNCHANGED live
      <4>1. CASE ~lost
        BY <3>1, <3>2, <4>1, AnswerStep
      <4>2. CASE lost
        BY <3>1, <3>2, <4>2, LateAnswerStep
      <4> QED
        BY <4>1, <4>2
    <3>3. CASE /\ inbox # << >> /\ Head(inbox).kind # "done" /\ O!Handle(Head(inbox))
               /\ inbox' = Tail(inbox) /\ run' \in {"sending", "roundtrip"}
               /\ UNCHANGED <<call, serving>>
      <4>1. CASE ~lost
        BY <3>1, <3>3, <4>1, DispatchStep
      <4>2. CASE lost
        BY <3>1, <3>3, <4>2, LateDispatchStep
      <4> QED
        BY <4>1, <4>2
    <3>4. CASE lost /\ O!Adopt(serving) /\ O!Served(serving) /\ UNCHANGED <<inbox, live>>
      BY <3>1, <3>4, GiveUpStep
    <3> QED
      BY <2>6, <3>2, <3>3, <3>4 DEF O!RunRoundtrip, O!Answers
  <2>7. CASE O!CompositorSets \/ O!CompositorSyncs \/ O!ForeignSets \/ O!ForeignPastes \/ O!Lose
    BY <2>7, CompositorSetsStep, CompositorSyncsStep, ForeignSetsStep, ForeignPastesStep, LoseStep
  <2>8. CASE UNCHANGED O!vars
    <3>1. UNCHANGED <<call, mine, sets, closer, stop, wake, foreign, selectionv>>
      BY <2>8 DEF O!vars, O!callerv, O!closev, O!runv, O!requested, O!remote, selectionv
    <3>2. OnceRule' /\ TurnRule'
      BY <3>1, CallerTurn
    <3>3. O!TypeOK' /\ O!OkMeansTaken'
      BY <3>1 DEF OwnerInv, O!TypeOK, O!OkMeansTaken, selectionv
    <3>4. CountRule'
      BY <3>1, CountKept DEF Waits, Owning, O!Exited, selectionv
    <3> QED
      BY <3>2, <3>3, <3>4 DEF OwnerInv
  <2> QED
    BY <2>1, <2>2, <2>3, <2>4, <2>5, <2>6, <2>7, <2>8 DEF O!Next, O!RunStep
<1> QED
  BY <1>1, OwnerStart, PTL DEF O!Spec

\* The owner and the compositor agree on who has the selection, up to
\* cancellations on their way, and a Set that answered without an error took it
\* (owner.go, Set, serve and run): for any callers, calls and foreign selections.
THEOREM AgreesWithCompositorCorrect == MCSpec => []AgreesWithCompositor
<1>1. ASSUME OwnerInv
      PROVE  AgreesWithCompositor
  <2>1. O!OkMeansTaken
    BY <1>1 DEF OwnerInv
  <2>2. ASSUME O!Between
        PROVE  Quiet
    BY <1>1, <2>2 DEF OwnerInv, TurnRule, O!Between, Owning, O!Exited
  <2>3. \A m : O!Contains(inbox, m) <=> Has(inbox, m)
    BY DEF O!Contains, Has
  <2>4. O!AgreesWithCompositor
    BY <2>2, <2>3 DEF O!AgreesWithCompositor, Quiet, Agreed
  <2> QED
    BY <2>1, <2>4 DEF AgreesWithCompositor
<1> QED
  BY <1>1, GroupOwner, OwnerInvCorrect, PTL

-----------------------------------------------------------------------------
(* The size scans.                                                          *)

\* A behaviour of the group is a behaviour of the scans, which may rest.
LEMMA GroupScans == MCSpec => S!Spec
<1>1. MCInit => S!Init
  BY DEF MCInit
<1>2. [MCNext]_<<which, vars, others>> => [S!Next]_S!vars
  BY DEF MCNext, Only, others, scanvars, S!vars
<1> QED
  BY <1>1, <1>2, PTL DEF MCSpec, S!Spec

\* Division with remainder.
LEMMA Remainder ==
  ASSUME NEW z \in Nat \ {0}, NEW q \in Nat, NEW r \in Nat, r < z
  PROVE  (z * q + r) % z = r
OBVIOUS

LEMMA Quotient ==
  ASSUME NEW z \in Nat \ {0}, NEW n \in Nat
  PROVE  \E q \in Nat, p \in Nat : p = z * q /\ p <= n /\ n < p + z /\ n % z = n - p
<1>1. n \div z \in Nat
  OBVIOUS
<1>2. PICK q \in Nat : q = n \div z
  BY <1>1
<1>3. z * q \in Nat
  OBVIOUS
<1>4. PICK p \in Nat : p = z * q
  BY <1>3
<1>5. p <= n /\ n < p + z
  BY <1>2, <1>4
<1>6. n % z = n - p
  BY <1>2, <1>4
<1> QED
  BY <1>4, <1>5, <1>6

\* From one check to the next the remainder counts the entries.
LEMMA CheckComes ==
  ASSUME NEW z \in Nat \ {0}, NEW n \in Nat, (n + 1) % z # 0
  PROVE  (n + 1) % z = (n % z) + 1
<1>1. PICK q \in Nat, p \in Nat : p = z * q /\ p <= n /\ n < p + z /\ n % z = n - p
  BY Quotient
<1>2. CASE n + 1 < p + z
  <2>1. PICK r \in Nat : r = n + 1 - p /\ r < z
    BY <1>1, <1>2
  <2>2. (z * q + r) % z = r
    BY <2>1, Remainder
  <2>3. z * q + r = n + 1
    BY <1>1, <2>1
  <2> QED
    BY <1>1, <2>1, <2>2, <2>3
<1>3. CASE n + 1 = p + z
  <2>1. q + 1 \in Nat /\ (z * (q + 1) + 0) % z = 0
    BY Remainder
  <2>2. z * (q + 1) + 0 = p + z
    BY <1>1
  <2> QED
    BY <1>3, <2>1, <2>2
<1> QED
  BY <1>1, <1>2, <1>3

LEMMA CheckBound ==
  ASSUME NEW z \in Nat \ {0}, NEW n \in Nat
  PROVE  n % z \in Nat /\ n % z < z
OBVIOUS

\* While its goroutine walks, a scan has a tally of what it visited; once it is
\* cancelled it counts no further than the next check.
Tally(s) == scan[s].counted < scan[s].seen <=> scan[s].code
Walked(s) == scan[s].seen = Entries /\ Tally(s)

WalkRule(s) ==
  /\ walker[s] \in {"none", "walk"} => Tally(s) /\ event[s] = None
  /\ walker[s] = "none" => scan[s].seen = 0
  /\ walker[s] = "judge" => (s \in ended \/ Walked(s)) /\ event[s] = None
  /\ walker[s] \in {"unregister", "publish", "done"} => scan[s].cancelled \/ Walked(s)
  /\ walker[s] \in {"unregister", "publish"} => event[s] = None
  /\ walker[s] = "done" => event[s] = scan[s]
LateRule(s) ==
  /\ s \notin ended => late[s] = 0
  /\ walker[s] \in {"none", "walk"} => late[s] <= scan[s].seen % CheckRun
  /\ late[s] < CheckRun /\ late[s] <= scan[s].seen
GoneRule ==
  /\ \A s \in Scans : walker[s] \in {"publish", "done"} => s \notin scans
  /\ \A k \in Cancels : cancel[k].over => cancel[k].at = "false"
  /\ \A k \in Cancels : cancel[k].at = "found" => cancel[k].scan \in Scans

SizesInv ==
  /\ S!TypeOK
  /\ cancel \in [Cancels -> [scan : Scans \cup {None}, over : BOOLEAN,
                             at : {"none", "found", "false", "true"}]]
  /\ \A s \in Scans : scan[s].counted <= scan[s].seen /\ WalkRule(s) /\ LateRule(s)
  /\ GoneRule

LEMMA SizesStart == S!Init => SizesInv
<1> SUFFICES ASSUME S!Init PROVE SizesInv
  OBVIOUS
<1>1. /\ walker = [s \in Scans |-> "none"]
      /\ scan = [s \in Scans |-> [seen |-> 0, counted |-> 0, code |-> FALSE, cancelled |-> FALSE]]
      /\ ended = {} /\ scans = {} /\ event = [s \in Scans |-> None]
      /\ cancel = [k \in Cancels |-> [scan |-> None, over |-> FALSE, at |-> "none"]]
      /\ conn = TRUE /\ service = None /\ late = [s \in Scans |-> 0]
  BY DEF S!Init
<1>2. 0 \in 0..Entries /\ 0 % CheckRun \in Nat /\ 0 < CheckRun
  BY SizesAssumption, CheckBound
<1>3. S!TypeOK
  BY <1>1, <1>2 DEF S!TypeOK, S!Count
<1>4. \A s \in Scans : scan[s].counted <= scan[s].seen /\ WalkRule(s) /\ LateRule(s)
  BY <1>1, <1>2 DEF WalkRule, Tally, LateRule
<1> QED
  BY <1>1, <1>3, <1>4 DEF SizesInv, GoneRule

\* One more entry is visited, and counted unless this is a check.
LEMMA VisitStep ==
  ASSUME SizesInv, NEW s \in Scans, S!Visit(s)
  PROVE  SizesInv'
<1> DEFINE seen == scan[s].seen + 1
           halt == S!CheckDue(seen) /\ s \in ended
<1>1. /\ scan[s] \in S!Count /\ scan[s].seen < Entries /\ walker[s] = "walk"
      /\ walker \in [Scans -> {"none", "walk", "judge", "unregister", "publish", "done"}]
      /\ scan \in [Scans -> S!Count] /\ late \in [Scans -> 0..Entries] /\ Entries \in Nat
  BY SizesAssumption DEF S!Visit, SizesInv, S!TypeOK
<1>2. /\ walker' = [walker EXCEPT ![s] = IF halt \/ (seen \in PathEnds /\ s \in ended) \/ seen = Entries
                                         THEN "judge" ELSE "walk"]
      /\ late' = [late EXCEPT ![s] = IF ~halt /\ s \in ended THEN @ + 1 ELSE @]
      /\ UNCHANGED <<ended, scans, event, cancel, conn, service>>
  BY DEF S!Visit
<1>3. PICK readable \in BOOLEAN :
        scan' = [scan EXCEPT ![s].seen = seen,
                             ![s].counted = IF ~halt /\ readable THEN @ + 1 ELSE @,
                             ![s].code = @ \/ (~halt /\ ~readable)]
  BY DEF S!Visit
<1> HIDE DEF halt
<1>4. /\ scan'[s].seen = scan[s].seen + 1
      /\ scan'[s].counted = IF ~halt /\ readable THEN scan[s].counted + 1 ELSE scan[s].counted
      /\ scan'[s].code = (scan[s].code \/ (~halt /\ ~readable))
      /\ scan'[s].cancelled = scan[s].cancelled
      /\ scan'[s] \in [seen : Nat, counted : Nat, code : BOOLEAN, cancelled : BOOLEAN]
      /\ \A t \in Scans \ {s} : scan'[t] = scan[t]
      /\ scan' = [t \in Scans |-> scan'[t]]
  <2>1. scan[s] \in [seen : Nat, counted : Nat, code : BOOLEAN, cancelled : BOOLEAN]
    BY <1>1 DEF S!Count
  <2> DEFINE counted == IF ~halt /\ readable THEN scan[s].counted + 1 ELSE scan[s].counted
             code    == scan[s].code \/ (~halt /\ ~readable)
  <2>2. counted \in Nat /\ code \in BOOLEAN /\ seen \in Nat
    BY <2>1
  <2>3. scan' = [scan EXCEPT ![s] = [scan[s] EXCEPT !.seen = seen, !.counted = counted, !.code = code]]
    BY <1>1, <1>3, <2>1
  <2> HIDE DEF counted, code, seen
  <2>4. scan'[s] = [seen |-> seen, counted |-> counted, code |-> code, cancelled |-> scan[s].cancelled]
    BY <1>1, <2>1, <2>3
  <2>5. /\ \A t \in Scans \ {s} : scan'[t] = scan[t]
        /\ scan' = [t \in Scans |-> scan'[t]]
    BY <1>1, <2>3
  <2>6. scan'[s] \in [seen : Nat, counted : Nat, code : BOOLEAN, cancelled : BOOLEAN]
    BY <2>1, <2>2, <2>4
  <2> QED
    BY <2>4, <2>5, <2>6 DEF counted, code, seen
<1>5. /\ scan[s].counted <= scan[s].seen /\ Tally(s) /\ event[s] = None
      /\ late[s] <= scan[s].seen % CheckRun /\ late[s] < CheckRun /\ late[s] <= scan[s].seen
      /\ (s \notin ended => late[s] = 0) /\ late[s] \in Nat
  BY <1>1 DEF SizesInv, WalkRule, LateRule
<1>6. scan'[s].counted <= scan'[s].seen
  BY <1>1, <1>4, <1>5 DEF S!Count
<1>7. scan'[s] \in S!Count
  BY <1>1, <1>4, <1>6 DEF S!Count
<1>8. ~halt => Tally(s)'
  BY <1>1, <1>4, <1>5 DEF Tally, S!Count
<1>9. halt => s \in ended
  BY DEF halt
<1>10. WalkRule(s)'
  BY <1>1, <1>2, <1>4, <1>5, <1>8, <1>9 DEF WalkRule, Walked, S!Count
<1>11. s \in ended /\ ~halt => seen % CheckRun = (scan[s].seen % CheckRun) + 1
  <2>1. s \in ended /\ ~halt => seen % CheckRun # 0
    BY DEF halt, S!CheckDue
  <2>2. scan[s].seen \in Nat
    BY <1>1 DEF S!Count
  <2> QED
    BY <2>1, <2>2, CheckComes, SizesAssumption
<1>12. /\ scan[s].seen % CheckRun \in Nat /\ seen % CheckRun \in Nat /\ seen % CheckRun < CheckRun
       /\ CheckRun \in Nat /\ scan[s].seen \in Nat
  BY <1>1, CheckBound, SizesAssumption DEF S!Count
<1>13. late'[s] = IF ~halt /\ s \in ended THEN late[s] + 1 ELSE late[s]
  BY <1>1, <1>2
<1>14. walker'[s] \in {"none", "walk"} => ~halt
  BY <1>1, <1>2
<1>15. LateRule(s)'
  <2>1. CASE s \in ended /\ ~halt
    BY <1>2, <1>4, <1>5, <1>11, <1>12, <1>13, <2>1 DEF LateRule
  <2>2. CASE s \in ended /\ halt
    BY <1>2, <1>4, <1>5, <1>12, <1>13, <1>14, <2>2 DEF LateRule
  <2>3. CASE s \notin ended
    BY <1>2, <1>4, <1>5, <1>12, <1>13, <2>3 DEF LateRule
  <2> QED
    BY <2>1, <2>2, <2>3
<1>16. ASSUME NEW t \in Scans \ {s}
       PROVE  scan'[t].counted <= scan'[t].seen /\ WalkRule(t)' /\ LateRule(t)'
  <2>1. scan'[t] = scan[t] /\ walker'[t] = walker[t] /\ late'[t] = late[t] /\ t \in Scans
    BY <1>1, <1>2, <1>4
  <2> QED
    BY <1>2, <2>1 DEF SizesInv, WalkRule, LateRule, Tally, Walked
<1>17. S!TypeOK'
  <2>1. scan' \in [Scans -> S!Count]
    BY <1>1, <1>4, <1>7
  <2>2. late'[s] \in 0..Entries
    BY <1>1, <1>5, <1>12, <1>13
  <2>3. late' \in [Scans -> 0..Entries] /\ walker' \in [Scans -> {"none", "walk", "judge",
                                                          "unregister", "publish", "done"}]
    BY <1>1, <1>2, <1>13, <2>2
  <2> QED
    BY <1>2, <2>1, <2>3 DEF SizesInv, S!TypeOK
<1>18. GoneRule'
  BY <1>1, <1>2 DEF SizesInv, GoneRule
<1> QED
  BY <1>2, <1>6, <1>10, <1>15, <1>16, <1>17, <1>18 DEF SizesInv

\* The other steps of a scan, each of which leaves its tally as it is.
LEMMA ScanEndStep ==
  ASSUME SizesInv, NEW s \in Scans, S!Start(s) \/ S!Judge(s) \/ S!Unregister(s) \/ S!Publish(s)
  PROVE  SizesInv'
<1>1. /\ walker \in [Scans -> {"none", "walk", "judge", "unregister", "publish", "done"}]
      /\ scan \in [Scans -> S!Count] /\ event \in [Scans -> S!Count \cup {None}]
  BY DEF SizesInv, S!TypeOK
<1>2. S!EndOrder[1] = "unregister" /\ S!EndOrder[2] = "publish"
  BY DEF S!EndOrder, S!UnregisterFirst
<1>3. /\ UNCHANGED <<ended, cancel, conn, service, late>>
      /\ \/ /\ walker[s] = "none" /\ walker' = [walker EXCEPT ![s] = "walk"]
            /\ scans' = scans \cup {s} /\ UNCHANGED <<scan, event>>
         \/ /\ walker[s] = "judge" /\ walker' = [walker EXCEPT ![s] = "unregister"]
            /\ scan' = [scan EXCEPT ![s].cancelled = s \in ended] /\ UNCHANGED <<scans, event>>
         \/ /\ walker[s] = "unregister" /\ walker' = [walker EXCEPT ![s] = "publish"]
            /\ scans' = scans \ {s} /\ UNCHANGED <<scan, event>>
         \/ /\ walker[s] = "publish" /\ walker' = [walker EXCEPT ![s] = "done"]
            /\ event' = [event EXCEPT ![s] = scan[s]] /\ UNCHANGED <<scan, scans>>
  BY <1>2 DEF S!Start, S!Judge, S!Unregister, S!Publish, S!NextAt
<1>4. /\ scan'[s].seen = scan[s].seen /\ scan'[s].counted = scan[s].counted
      /\ scan'[s].code = scan[s].code
      /\ scan'[s].cancelled = IF walker[s] = "judge" THEN s \in ended ELSE scan[s].cancelled
      /\ scan' \in [Scans -> S!Count]
  <2>1. CASE walker[s] = "judge"
    <3>1. scan' = [scan EXCEPT ![s] = [scan[s] EXCEPT !.cancelled = s \in ended]]
      BY <1>3, <2>1
    <3>2. scan'[s] = [scan[s] EXCEPT !.cancelled = s \in ended]
      BY <1>1, <3>1
    <3>3. (s \in ended) \in BOOLEAN /\ scan[s] \in S!Count
      BY <1>1
    <3>4. scan'[s] \in S!Count
      BY <3>2, <3>3 DEF S!Count
    <3>5. /\ scan'[s].seen = scan[s].seen /\ scan'[s].counted = scan[s].counted
          /\ scan'[s].code = scan[s].code /\ scan'[s].cancelled = (s \in ended)
      BY <3>2, <3>3 DEF S!Count
    <3> QED
      BY <1>1, <2>1, <3>1, <3>4, <3>5
  <2>2. CASE walker[s] # "judge"
    <3>1. scan' = scan
      BY <1>3, <2>2
    <3> QED
      BY <1>1, <2>2, <3>1
  <2> QED
    BY <2>1, <2>2
<1>5. \A t \in Scans \ {s} : walker'[t] = walker[t] /\ scan'[t] = scan[t] /\ event'[t] = event[t]
  BY <1>1, <1>3
<1>6. (Tally(s) => Tally(s)') /\ (Walked(s) => Walked(s)')
  BY <1>4 DEF Tally, Walked
<1>7. WalkRule(s)'
  <2>1. WalkRule(s)
    BY DEF SizesInv
  <2>2. CASE walker[s] = "none"
    BY <1>1, <1>3, <1>6, <2>1, <2>2 DEF WalkRule
  <2>3. CASE walker[s] = "judge"
    BY <1>1, <1>3, <1>4, <1>6, <2>1, <2>3 DEF WalkRule
  <2>4. CASE walker[s] = "unregister"
    BY <1>1, <1>3, <1>4, <1>6, <2>1, <2>4 DEF WalkRule
  <2>5. CASE walker[s] = "publish"
    BY <1>1, <1>3, <1>4, <1>6, <2>1, <2>5 DEF WalkRule
  <2> QED
    BY <1>3, <2>2, <2>3, <2>4, <2>5
<1>8. LateRule(s)'
  <2>1. walker'[s] = "walk" => walker[s] = "none"
    BY <1>1, <1>3
  <2>2. walker'[s] # "none"
    BY <1>1, <1>3
  <2> QED
    BY <1>3, <1>4, <2>1, <2>2 DEF SizesInv, LateRule
<1>9. \A t \in Scans \ {s} : scan'[t].counted <= scan'[t].seen /\ WalkRule(t)' /\ LateRule(t)'
  BY <1>3, <1>5 DEF SizesInv, WalkRule, LateRule, Tally, Walked
<1>10. S!TypeOK'
  BY <1>1, <1>3, <1>4 DEF SizesInv, S!TypeOK
<1>11. GoneRule'
  BY <1>1, <1>3 DEF SizesInv, GoneRule
<1>12. scan'[s].counted <= scan'[s].seen
  BY <1>4 DEF SizesInv
<1> QED
  BY <1>3, <1>7, <1>8, <1>9, <1>10, <1>11, <1>12 DEF SizesInv

\* Cancelling, by a request, the connection's end or the service's: the scan's
\* own state is left alone.
LEMMA CancelStep ==
  ASSUME SizesInv,
         \/ \E s \in Scans : S!AfterConn(s) \/ S!CloseScan(s)
         \/ \E k \in Cancels : S!CancelFound(k) \/ \E s \in Scans : S!CancelLookup(k, s)
         \/ S!ConnEnds \/ S!CloseService
  PROVE  SizesInv'
<1>1. UNCHANGED <<walker, scan, scans, event, late>> /\ ended \subseteq ended'
  BY DEF S!AfterConn, S!CloseScan, S!CancelFound, S!CancelLookup, S!ConnEnds, S!CloseService, S!Stop
<1>2. \A s \in Scans : scan'[s].counted <= scan'[s].seen /\ WalkRule(s)' /\ LateRule(s)'
  BY <1>1 DEF SizesInv, WalkRule, LateRule, Tally, Walked
<1>3. CASE UNCHANGED cancel /\ \A k \in Cancels : ~S!CancelFound(k)
  <2>1. /\ conn' \in BOOLEAN /\ ended' \cup scans' \subseteq Scans
        /\ service' = None \/ service' \subseteq Scans
    BY <1>3 DEF SizesInv, S!TypeOK, S!AfterConn, S!CloseScan, S!CancelLookup, S!ConnEnds,
                S!CloseService, S!Stop
  <2>2. S!TypeOK'
    BY <1>1, <2>1 DEF SizesInv, S!TypeOK
  <2>3. GoneRule'
    BY <1>1, <1>3 DEF SizesInv, GoneRule
  <2> QED
    BY <1>2, <1>3, <2>2, <2>3 DEF SizesInv
<1>4. ASSUME NEW k \in Cancels, S!CancelFound(k)
      PROVE  SizesInv'
  <2>1. /\ cancel[k].at = "found" /\ cancel' = [cancel EXCEPT ![k].at = "true"]
        /\ ended' = ended \cup {cancel[k].scan} /\ UNCHANGED <<conn, service>>
    BY <1>4 DEF S!CancelFound, S!Stop
  <2>2. /\ cancel[k].scan \in Scans /\ ~cancel[k].over
        /\ cancel \in [Cancels -> [scan : Scans \cup {None}, over : BOOLEAN,
                                   at : {"none", "found", "false", "true"}]]
    BY <2>1 DEF SizesInv, GoneRule
  <2>3. /\ cancel'[k].at = "true" /\ cancel'[k].over = cancel[k].over
        /\ \A j \in Cancels \ {k} : cancel'[j] = cancel[j]
        /\ cancel' \in [Cancels -> [scan : Scans \cup {None}, over : BOOLEAN,
                                    at : {"none", "found", "false", "true"}]]
    BY <2>1, <2>2
  <2>4. S!TypeOK'
    BY <1>1, <2>1, <2>2 DEF SizesInv, S!TypeOK
  <2>5. GoneRule'
    BY <1>1, <2>2, <2>3 DEF SizesInv, GoneRule
  <2> QED
    BY <1>2, <2>3, <2>4, <2>5 DEF SizesInv
<1>5. ASSUME NEW k \in Cancels, NEW s \in Scans, S!CancelLookup(k, s)
      PROVE  SizesInv'
  <2> DEFINE a == [scan |-> s, over |-> event[s] # None, at |-> IF s \in scans THEN "found" ELSE "false"]
  <2>1. cancel' = [cancel EXCEPT ![k] = a] /\ UNCHANGED <<ended, conn, service>>
    BY <1>5 DEF S!CancelLookup
  <2>2. event[s] # None => s \notin scans
    BY DEF SizesInv, S!TypeOK, WalkRule, GoneRule
  <2>3. /\ a \in [scan : Scans \cup {None}, over : BOOLEAN, at : {"none", "found", "false", "true"}]
        /\ (a.over => a.at = "false") /\ a.scan \in Scans
    BY <2>2
  <2> HIDE DEF a
  <2>4. S!TypeOK'
    BY <1>1, <2>1 DEF SizesInv, S!TypeOK
  <2>5. GoneRule'
    <3>1. \A j \in Cancels : cancel'[j] = IF j = k THEN a ELSE cancel[j]
      BY <2>1 DEF SizesInv
    <3> QED
      BY <1>1, <2>3, <3>1 DEF SizesInv, GoneRule
  <2>6. cancel' \in [Cancels -> [scan : Scans \cup {None}, over : BOOLEAN,
                                at : {"none", "found", "false", "true"}]]
    BY <2>1, <2>3 DEF SizesInv
  <2> QED
    BY <1>2, <2>4, <2>5, <2>6 DEF SizesInv
<1> QED
  BY <1>3, <1>4, <1>5 DEF S!AfterConn, S!CloseScan, S!ConnEnds, S!CloseService

THEOREM SizesInvCorrect == S!Spec => []SizesInv
<1>1. SizesInv /\ [S!Next]_S!vars => SizesInv'
  <2> SUFFICES ASSUME SizesInv, [S!Next]_S!vars PROVE SizesInv'
    OBVIOUS
  <2>1. ASSUME NEW s \in Scans, S!Start(s) \/ S!ScanStep(s)
        PROVE  SizesInv'
    BY <2>1, VisitStep, ScanEndStep DEF S!ScanStep
  <2>2. CASE \/ \E s \in Scans : S!AfterConn(s) \/ S!CloseScan(s)
             \/ \E k \in Cancels : S!CancelFound(k) \/ \E s \in Scans : S!CancelLookup(k, s)
             \/ S!ConnEnds \/ S!CloseService
    BY <2>2, CancelStep
  <2>3. CASE UNCHANGED S!vars
    BY <2>3 DEF S!vars, SizesInv, S!TypeOK, WalkRule, LateRule, Tally, Walked, GoneRule
  <2> QED
    BY <2>1, <2>2, <2>3 DEF S!Next
<1> QED
  BY <1>1, SizesStart, PTL DEF S!Spec

\* What the done event of a size scan says is true: the total is of every entry
\* unless it is marked cancelled, a cancelled scan counts nothing after its next
\* check, and a scan whose event is out is no longer cancellable (files/size.go,
\* run, cancelScan): for any scans, entries and distance of the checks.
THEOREM SizesTrueCorrect == MCSpec => []SizesTrue
<1>1. ASSUME SizesInv
      PROVE  SizesTrue
  <2>1. ASSUME NEW s \in Scans, event[s] # None
        PROVE  /\ event[s].cancelled
                  \/ (event[s].seen = Entries /\ (event[s].counted < Entries <=> event[s].code))
               /\ late[s] < CheckRun
    <3>1. WalkRule(s) /\ LateRule(s)
      BY <1>1 DEF SizesInv
    <3>2. walker[s] \in {"none", "walk", "judge", "unregister", "publish", "done"}
      BY <1>1 DEF SizesInv, S!TypeOK
    <3>3. walker[s] = "done"
      BY <2>1, <3>1, <3>2 DEF WalkRule
    <3> QED
      BY <3>1, <3>3 DEF WalkRule, LateRule, Walked, Tally
  <2> QED
    BY <1>1, <2>1 DEF SizesInv, GoneRule, SizesTrue, S!SizesTrue
<1> QED
  BY <1>1, GroupScans, SizesInvCorrect, PTL
-----------------------------------------------------------------------------
(* The answer of the portal (portal/request.go).                            *)

LEMMA GroupPortal == MCSpec => P!Init /\ [][P!Next]_P!vars
<1>1. MCInit => P!Init
  BY DEF MCInit
<1>2. [MCNext]_<<which, vars, others>> => [P!Next]_P!vars
  BY DEF MCNext, Only, others, portalvars, P!vars
<1> QED
  BY <1>1, <1>2, PTL DEF MCSpec

\* Only the portal's answer to this request is under the handle it chose, and
\* it answers once, after it was asked.
PortalInv ==
  /\ P!TypeOK
  /\ client \in {"idle", "first", "second"} => request = None
  /\ \A s \in signals : s.path = "other" \/ (s.path = P!Handle /\ s.code = request)
  /\ client \in {"read", "secret"} => request = "granted"

LEMMA PortalKept ==
  /\ P!Init => PortalInv
  /\ PortalInv /\ [P!Next]_P!vars => PortalInv'
<1>1. P!Init => PortalInv
  BY PortalAssumption DEF P!Init, PortalInv, P!TypeOK, P!Codes, P!Handle
<1>2. PortalInv /\ [P!Next]_P!vars => PortalInv'
  <2> SUFFICES ASSUME PortalInv, [P!Next]_P!vars PROVE PortalInv'
    OBVIOUS
  <2> USE DEF PortalInv, P!TypeOK, P!Codes, P!Ended, P!Handle
  <2>1. CASE P!Begin \/ P!CallFails \/ P!Returned \/ P!ContextEnds \/ P!ReadSecret
    <3>1. P!TypeOK'
      BY <2>1 DEF P!Begin, P!Goto, P!CallFails, P!Returned, P!ContextEnds, P!ReadSecret
    <3>2. /\ UNCHANGED <<old, signals, request>>
          /\ client' \in {"idle", "first", "second"} => request = None
          /\ client' \in {"read", "secret"} => request = "granted"
      BY <2>1 DEF P!Begin, P!Goto, P!CallFails, P!Returned, P!ContextEnds, P!ReadSecret
    <3> QED
      BY <3>1, <3>2
  <2>2. CASE P!StartStep
    <3>1. P!Order[1] = "predicted" /\ P!Order[2] = "call"
      BY DEF P!Order, P!SubscribeFirst
    <3>2. \A s \in signals : s.path = "other"
      BY <2>2, PortalAssumption DEF P!StartStep
    <3> QED
      BY <2>2, <3>1, <3>2 DEF P!StartStep
  <2>3. CASE P!Redirect \/ P!Reply \/ P!ClosePipe \/ P!Cancel \/ P!Lose
    <3>1. P!TypeOK'
      BY <2>3 DEF P!Redirect, P!Reply, P!ClosePipe, P!Cancel, P!Lose
    <3>2. /\ UNCHANGED <<old, signals, request>>
          /\ client' \in {client, "wait"}
      BY <2>3 DEF P!Redirect, P!Reply, P!ClosePipe, P!Cancel, P!Lose
    <3> QED
      BY <3>1, <3>2
  <2>4. ASSUME NEW s \in signals, P!Await(s)
        PROVE  PortalInv'
    BY <2>4 DEF P!Await, P!Own
  <2>5. ASSUME NEW code \in P!Codes, P!Respond(code)
        PROVE  PortalInv'
    <3>1. \A s \in signals : s.path = "other"
      BY <2>5 DEF P!Respond
    <3>2. [path |-> P!Handle, code |-> code].path = P!Handle /\ [path |-> P!Handle, code |-> code].code = code
      OBVIOUS
    <3>3. P!TypeOK'
      BY <2>5 DEF P!Respond, P!Deliver, P!Heard
    <3>4. client \notin {"idle", "first", "second", "read", "secret"}
      BY <2>5, PortalAssumption DEF P!Respond
    <3>5. \A s \in signals' : s.path = "other" \/ (s.path = P!Handle' /\ s.code = request')
      BY <2>5, <3>1 DEF P!Respond, P!Deliver, P!Heard
    <3> QED
      BY <2>5, <3>3, <3>4, <3>5 DEF P!Respond
  <2>6. ASSUME NEW code \in P!Codes, P!OtherResponse(code)
        PROVE  PortalInv'
    BY <2>6 DEF P!OtherResponse, P!Deliver, P!Heard
  <2>7. CASE UNCHANGED P!vars
    BY <2>7 DEF P!vars
  <2> QED
    BY <2>1, <2>2, <2>3, <2>4, <2>5, <2>6, <2>7 DEF P!Next
<1> QED
  BY <1>1, <1>2

\* Only the answer to the own request yields a secret (RetrieveSecret, wait).
THEOREM GrantedOnlyCorrect == MCSpec => []P!GrantedOnly
<1>1. PortalInv => P!GrantedOnly
  BY DEF PortalInv, P!GrantedOnly
<1> QED
  BY <1>1, PortalKept, GroupPortal, PTL
-----------------------------------------------------------------------------
(* The end of the servers (app/serve.go).                                   *)

LEMMA GroupApp == MCSpec => A!Init /\ [][A!Next]_A!vars
<1>1. MCInit => A!Init
  BY DEF MCInit
<1>2. [MCNext]_<<which, vars, others>> => [A!Next]_A!vars
  BY DEF MCNext, Only, others, appvars, A!vars, A!runv, A!group, A!servev
<1> QED
  BY <1>1, <1>2, PTL DEF MCSpec

\* An error has a cause; Serve goes past an HTTP server only when it has
\* closed it and its requests are over, or the ten seconds.
Http(r)  == r \in 1..Servers /\ r \in Https
AppShape ==
  /\ stopped \in [1..Servers -> BOOLEAN] /\ errCh \in {None, "nil", "error"}
  /\ runner \in [1..Servers -> {"begin", "serve", "shutdown", "nil", "error"}]
  /\ busy \in BOOLEAN /\ done \in BOOLEAN /\ asked \in BOOLEAN /\ broke \in BOOLEAN
  /\ over \subseteq {"run", "serve"} /\ result \in 1..Servers \cup {None} /\ serve \in 0..(Servers + 2)
CauseRule == /\ errCh = "error" => broke
             /\ result # None => broke \/ "run" \in over
PastRule  == /\ asked => serve \in 1..Servers
             /\ \A r \in 1..Servers : Http(r) /\ (serve > r \/ (serve = r /\ asked)) => stopped[r]
             /\ busy => "serve" \in over \/ \E r \in 1..Servers : Http(r) /\ serve <= r
AppInv == AppShape /\ CauseRule /\ PastRule

LEMMA AppNames ==
  /\ A!Runners = 1..Servers /\ A!Waiting = 0
  /\ A!Joining = Servers + 1 /\ A!Returned = Servers + 2
  /\ \A r, kind, at : r \in 1..Servers => (A!Is(r, kind, at) <=> KindOf(r) = kind /\ runner[r] = at)
<1>1. Servers \in Nat
  BY ServersAssumption
<1> QED
  BY <1>1 DEF A!Runners, A!Waiting, A!Joining, A!Returned, A!Is

\* Nothing but the end of a runner or of the context.
LEMMA AppRunStep ==
  ASSUME AppInv, NEW r \in 1..Servers, A!RunStep(r) \/ A!Quits(r)
  PROVE  AppInv'
<1>1. UNCHANGED <<serve, asked, busy, broke, over>>
  BY DEF A!RunStep, A!FuncEnds, A!Begin, A!HttpClosed, A!HttpAccepted, A!HttpDone, A!HttpShutdown,
         A!IpcStopped, A!IpcCloser, A!Quits, A!servev, A!group
<1>2. errCh' \in {errCh, "nil"}
  BY DEF A!RunStep, A!FuncEnds, A!Begin, A!HttpClosed, A!HttpAccepted, A!HttpDone, A!HttpShutdown,
         A!IpcStopped, A!IpcCloser, A!Quits, A!ServerClosed
<1>3. stopped' = stopped \/ stopped' = [stopped EXCEPT ![r] = TRUE]
  BY DEF A!RunStep, A!FuncEnds, A!Begin, A!HttpClosed, A!HttpAccepted, A!HttpDone, A!HttpShutdown,
         A!IpcStopped, A!IpcCloser, A!Quits, A!Close
<1>4. PICK how \in {"begin", "serve", "shutdown", "nil", "error"} : runner' = [runner EXCEPT ![r] = how]
  BY <1>2 DEF A!RunStep, A!FuncEnds, A!Begin, A!HttpClosed, A!HttpAccepted, A!HttpDone, A!HttpShutdown,
         A!IpcStopped, A!IpcCloser, A!Quits, A!Return, AppInv, AppShape
<1>5. done' \in BOOLEAN /\ result' \in {result, r} /\ (result' # result => broke \/ "run" \in over)
  <2>1. CASE A!HttpAccepted(r)
    BY <2>1 DEF A!HttpAccepted, A!Return, A!Is, AppInv, AppShape, CauseRule
  <2>2. CASE A!HttpShutdown(r)
    BY <2>2 DEF A!HttpShutdown, A!Return, AppInv, AppShape
  <2>3. CASE A!FuncEnds(r) \/ A!Begin(r) \/ A!HttpClosed(r) \/ A!HttpDone(r) \/ A!IpcStopped(r)
             \/ A!IpcCloser(r) \/ A!Quits(r)
    BY <2>3 DEF A!FuncEnds, A!Begin, A!HttpClosed, A!HttpDone, A!IpcStopped, A!IpcCloser, A!Quits,
           A!Return, A!group, AppInv, AppShape
  <2> QED
    BY <2>1, <2>2, <2>3 DEF A!RunStep
<1>6. AppShape'
  BY <1>1, <1>2, <1>3, <1>4, <1>5 DEF AppInv, AppShape
<1>7. CauseRule'
  BY <1>1, <1>2, <1>5 DEF AppInv, CauseRule
<1>8. PastRule'
  BY <1>1, <1>3 DEF AppInv, AppShape, PastRule
<1> QED
  BY <1>6, <1>7, <1>8 DEF AppInv

\* Serve goes on, and whatever comes from outside.
LEMMA AppOuterStep ==
  ASSUME AppInv, A!ServeStep \/ A!Signal \/ A!RequestEnds \/ A!TenSeconds
  PROVE  AppInv'
<1> USE DEF AppInv, AppShape, CauseRule, PastRule
<1>1. CASE A!Awake
  <2>1. /\ serve = 0 /\ serve' = 1
        /\ UNCHANGED <<runner, stopped, errCh, done, result, asked, busy, broke, over>>
    BY <1>1, AppNames DEF A!Awake, A!runv, A!group
  <2> QED
    BY <2>1, ServersAssumption DEF Http
<1>2. CASE A!Ask
  <2>1. /\ serve \in 1..Servers /\ ~asked /\ asked' = TRUE
        /\ stopped' = IF KindOf(serve) = "func" THEN stopped ELSE [stopped EXCEPT ![serve] = TRUE]
        /\ UNCHANGED <<runner, errCh, done, result, serve, busy, broke, over>>
    BY <1>2, AppNames DEF A!Ask, A!Close, A!group
  <2>2. Http(serve) => KindOf(serve) # "func"
    BY DEF Http, KindOf
  <2> QED
    BY <2>1, <2>2, ServersAssumption DEF Http
<1>3. CASE A!Asked
  <2>1. /\ serve \in 1..Servers /\ asked /\ asked' = FALSE /\ serve' = serve + 1
        /\ KindOf(serve) = "http" => ~busy \/ "serve" \in over
        /\ UNCHANGED <<runner, stopped, errCh, done, result, busy, broke, over>>
    BY <1>3, AppNames DEF A!Asked, A!Idle, A!runv, A!group
  <2>2. Http(serve) => ~busy \/ "serve" \in over
    BY <2>1 DEF Http, KindOf
  <2>3. AppShape' /\ CauseRule'
    <3>1. serve' \in 0..(Servers + 2)
      BY <2>1, ServersAssumption
    <3> QED
      BY <2>1, <3>1
  <2>4. \A r \in 1..Servers : Http(r) /\ serve' > r => stopped'[r]
    BY <2>1, ServersAssumption
  <2>5. busy' => "serve" \in over' \/ \E r \in 1..Servers : Http(r) /\ serve' <= r
    BY <2>1, <2>2, ServersAssumption DEF Http
  <2> QED
    BY <2>1, <2>3, <2>4, <2>5 DEF Http
<1>4. CASE A!Join
  <2>1. /\ serve = Servers + 1 /\ serve' = Servers + 2
        /\ UNCHANGED <<runner, stopped, errCh, done, result, asked, busy, broke, over>>
    BY <1>4, AppNames DEF A!Join, A!runv, A!group
  <2> QED
    BY <2>1, ServersAssumption DEF Http
<1>5. CASE A!Signal \/ A!RequestEnds \/ A!TenSeconds
  <2>1. /\ UNCHANGED <<runner, stopped, errCh, result, serve, asked, broke>>
        /\ done' \in BOOLEAN /\ busy' \in BOOLEAN /\ (busy' => busy)
        /\ over \subseteq over' /\ over' \subseteq {"run", "serve"}
    <3>1. CASE A!Signal
      BY <3>1 DEF A!Signal, A!runv, A!servev
    <3>2. CASE A!RequestEnds
      BY <3>2 DEF A!RequestEnds, A!runv, A!group, A!servev
    <3>3. CASE A!TenSeconds
      BY <3>3 DEF A!TenSeconds, A!runv, A!group, A!servev
    <3> QED
      BY <1>5, <3>1, <3>2, <3>3
  <2> QED
    BY <2>1 DEF Http
<1> QED
  BY <1>1, <1>2, <1>3, <1>4, <1>5 DEF A!ServeStep

LEMMA AppFaultStep ==
  ASSUME AppInv, NEW r \in 1..Servers, A!Fails(r) \/ A!RequestBegins(r)
  PROVE  AppInv'
<1>1. CASE A!Fails(r)
  <2>1. /\ UNCHANGED <<stopped, serve, asked, busy, over>> /\ broke' = TRUE
        /\ errCh' \in {errCh, "error"} /\ result' \in {result, r} /\ done' \in BOOLEAN
        /\ runner' \in {runner, [runner EXCEPT ![r] = "error"]}
    BY <1>1 DEF A!Fails, A!Return, A!group, A!servev, AppInv, AppShape
  <2>2. AppShape'
    BY <2>1 DEF AppInv, AppShape
  <2>3. CauseRule' /\ PastRule'
    BY <2>1 DEF AppInv, CauseRule, PastRule
  <2> QED
    BY <2>2, <2>3 DEF AppInv
<1>2. CASE A!RequestBegins(r)
  <2>1. /\ UNCHANGED <<runner, stopped, errCh, done, result, serve, asked, broke, over>>
        /\ Http(r) /\ ~stopped[r] /\ busy' = TRUE
    BY <1>2, AppNames DEF A!RequestBegins, A!runv, A!group, A!servev, Http, KindOf
  <2>2. serve <= r
    BY <2>1, ServersAssumption DEF AppInv, AppShape, PastRule
  <2> QED
    BY <2>1, <2>2 DEF AppInv, AppShape, CauseRule, PastRule
<1> QED
  BY <1>1, <1>2

LEMMA AppKept ==
  /\ A!Init => AppInv
  /\ AppInv /\ [A!Next]_A!vars => AppInv'
<1>1. A!Init => AppInv
  <2> SUFFICES ASSUME A!Init PROVE AppInv
    OBVIOUS
  <2>1. /\ runner = [r \in 1..Servers |-> "begin"] /\ stopped = [r \in 1..Servers |-> FALSE]
        /\ errCh = None /\ busy = FALSE /\ done = FALSE /\ result = None /\ serve = 0
        /\ asked = FALSE /\ broke = FALSE /\ over = {}
    BY AppNames DEF A!Init
  <2> QED
    <3>1. AppShape
      <4>1. runner \in [1..Servers -> {"begin", "serve", "shutdown", "nil", "error"}]
        BY <2>1
      <4>2. stopped \in [1..Servers -> BOOLEAN] /\ serve \in 0..(Servers + 2)
        BY <2>1, ServersAssumption
      <4> QED
        BY <2>1, <4>1, <4>2 DEF AppShape
    <3>2. CauseRule
      BY <2>1, ServersAssumption DEF CauseRule
    <3>3. PastRule
      BY <2>1, ServersAssumption DEF PastRule, Http
    <3> QED
      BY <3>1, <3>2, <3>3 DEF AppInv
<1>2. AppInv /\ [A!Next]_A!vars => AppInv'
  <2> SUFFICES ASSUME AppInv, [A!Next]_A!vars PROVE AppInv'
    OBVIOUS
  <2>1. CASE A!Next
    BY <2>1, AppNames, AppRunStep, AppOuterStep, AppFaultStep DEF A!Next
  <2>2. CASE UNCHANGED A!vars
    BY <2>2 DEF A!vars, A!runv, A!group, A!servev, AppInv, AppShape, CauseRule, PastRule
  <2> QED
    BY <2>1, <2>2
<1> QED
  BY <1>1, <1>2

\* A stop nobody failed and no request delayed is no error, and Serve returns
\* only when no request is answered or its ten seconds are over (Serve).
THEOREM CleanStopCorrect == MCSpec => [](A!ErrorHasCause /\ A!RequestsAnswered)
<1>1. AppInv => A!ErrorHasCause /\ A!RequestsAnswered
  BY AppNames, ServersAssumption DEF AppInv, AppShape, CauseRule, PastRule,
     A!ErrorHasCause, A!RequestsAnswered
<1> QED
  BY <1>1, AppKept, GroupApp, PTL
-----------------------------------------------------------------------------
(* The shape of the state of each component.                                *)

LEMMA GroupPool == MCSpec => Init /\ [][Next]_vars
<1>1. MCInit => Init
  BY DEF MCInit
<1>2. [MCNext]_<<which, vars, others>> => [Next]_vars
  BY DEF MCNext, Only, vars
<1> QED
  BY <1>1, <1>2, PTL DEF MCSpec

LEMMA GroupLyrics == MCSpec => L!Init /\ [][L!Next]_L!vars
<1>1. MCInit => L!Init
  BY DEF MCInit
<1>2. [MCNext]_<<which, vars, others>> => [L!Next]_L!vars
  BY DEF MCNext, Only, others, lyricsvars, L!vars
<1> QED
  BY <1>1, <1>2, PTL DEF MCSpec

LEMMA GroupTimer == MCSpec => B!Init /\ [][B!Next]_B!vars
<1>1. MCInit => B!Init
  BY DEF MCInit
<1>2. [MCNext]_<<which, vars, others>> => [B!Next]_B!vars
  BY DEF MCNext, Only, others, timervars, B!vars
<1> QED
  BY <1>1, <1>2, PTL DEF MCSpec

LEMMA LyricsShape == L!TypeOK /\ [L!Next]_L!vars => L!TypeOK'
<1> SUFFICES ASSUME L!TypeOK, [L!Next]_L!vars PROVE L!TypeOK'
  OBVIOUS
<1> USE DEF L!TypeOK
<1>1. L!Answers \subseteq L!Error..L!Word /\ L!Out \in L!Error..L!Word
  BY DEF L!Answers, L!Error, L!Word, L!Out
<1>2. ASSUME NEW how \in {"won", "grace", "late", "miss", "error"}, NEW b \in L!Providers \cup {0},
             L!Ends(how, b)
      PROVE  /\ flight' = how /\ chosen' \in L!Providers \cup {0} /\ grace' \in BOOLEAN
             /\ caller' \in [Callers -> {"idle", "waiting", "served", "cancelled"}]
  BY <1>2 DEF L!Ends
<1>3. ASSUME NEW r \in L!Providers, NEW a \in L!Answers, L!Receive(r, a)
      PROVE  L!TypeOK'
  <2> DEFINE after == [reply EXCEPT ![r] = a]
  <2>1. reply' = after /\ after \in [L!Providers -> L!Error..L!Word] /\ UNCHANGED <<marked, flights>>
    BY <1>1, <1>3 DEF L!Receive
  <2> HIDE DEF after
  <2>2. \/ \E how \in {"won", "grace", "late", "miss", "error"}, b \in L!Providers \cup {0} : L!Ends(how, b)
        \/ grace' \in BOOLEAN /\ UNCHANGED <<flight, chosen, caller>>
    BY <1>3 DEF L!Receive, L!LeaderFound
  <2> QED
    BY <1>2, <2>1, <2>2
<1>4. CASE L!GraceFires \/ L!Deadline
  <2>1. /\ UNCHANGED <<marked, reply, flights>>
        /\ \E how \in {"won", "grace", "late", "miss", "error"}, b \in L!Providers \cup {0} : L!Ends(how, b)
    BY <1>4 DEF L!GraceFires, L!Deadline
  <2> QED
    BY <1>2, <2>1
<1>5. ASSUME NEW k \in Callers, L!Join(k) \/ L!Cancel(k) \/ L!Forget(k)
      PROVE  L!TypeOK'
  <2>1. UNCHANGED <<marked, grace>> /\ flight' \in {flight, "racing"} /\ chosen' \in {chosen, 0}
    BY <1>5 DEF L!Join, L!Cancel, L!Forget, L!FlightGoesOn
  <2>2. flights' \in 0..MaxFlights
    BY <1>5, BoundsAssumption DEF L!Join, L!Cancel, L!Forget
  <2>3. reply' \in [L!Providers -> L!Error..L!Word]
    BY <1>1, <1>5 DEF L!Join, L!Cancel, L!Forget
  <2>4. caller' \in [Callers -> {"idle", "waiting", "served", "cancelled"}]
    BY <1>5 DEF L!Join, L!Cancel, L!Forget
  <2> QED
    BY <2>1, <2>2, <2>3, <2>4
<1>6. CASE UNCHANGED L!vars
  BY <1>6 DEF L!vars
<1> QED
  BY <1>3, <1>4, <1>5, <1>6 DEF L!Next

LEMMA TimerShape == B!TypeOK /\ [B!Next]_B!vars => B!TypeOK'
<1> SUFFICES ASSUME B!TypeOK, [B!Next]_B!vars PROVE B!TypeOK'
  OBVIOUS
<1> USE DEF B!TypeOK
<1>1. CASE B!Reset
  BY <1>1, BoundsAssumption DEF B!Reset
<1>2. CASE B!ResetStep
  BY <1>2 DEF B!ResetStep, B!Arm
<1>3. CASE B!Stop \/ B!Expire \/ B!ReadExpiry \/ B!Send \/ B!Receive
  BY <1>3 DEF B!Stop, B!Expire, B!ReadExpiry, B!Send, B!Receive
<1>4. CASE UNCHANGED B!vars
  BY <1>4 DEF B!vars
<1> QED
  BY <1>1, <1>2, <1>3, <1>4 DEF B!Next

\* The state of every component keeps its shape; in particular the pool never
\* runs more than max workers and the wake-up pipe of the owner never holds
\* more than it has room for (pool.go, owner.go).
THEOREM TypesCorrect == MCSpec => []TypesOK
<1>1. IInv => TypeOK
  BY DEF IInv
<1>2. OwnerInv => O!TypeOK
  BY DEF OwnerInv
<1>3. L!Init => L!TypeOK
  <2>1. 0 \in 0..MaxFlights /\ L!Out \in L!Error..L!Word
    BY BoundsAssumption DEF L!Error, L!Word, L!Out
  <2> QED
    BY <2>1 DEF L!Init, L!TypeOK
<1>4. B!Init => B!TypeOK
  <2>1. 0 \in 0..MaxResets
    BY BoundsAssumption
  <2> QED
    BY <2>1 DEF B!Init, B!TypeOK
<1>5. PortalInv => P!TypeOK
  BY DEF PortalInv
<1>6. SizesInv => S!TypeOK
  BY DEF SizesInv
<1>7. AppInv => A!TypeOK
  BY AppNames DEF AppInv, AppShape, A!TypeOK
<1> QED
  BY <1>1, <1>2, <1>3, <1>4, <1>5, <1>6, <1>7, GroupPool, Initially, Inductive,
     GroupOwner, OwnerInvCorrect, GroupLyrics, LyricsShape, GroupTimer, TimerShape,
     GroupPortal, PortalKept, GroupScans, SizesInvCorrect, GroupApp, AppKept, PTL DEF TypesOK
=============================================================================

----------------------------- MODULE AsyncExec -----------------------------
(***************************************************************************)
(* The worker pool of src/asyncexec.cpp: TaskQueue, WorkerThread and       *)
(* AsyncExec::init, schedule, shutdown.  Every lock, unlock, wait and      *)
(* signal is a step of its own; what the code does while it holds          *)
(* TaskQueue::mutex is one step, from the point where the mutex is held to *)
(* the point where it is released.                                         *)
(*                                                                         *)
(* A task is one call of schedule(callback): the callers are as many       *)
(* threads as there are calls in flight.  Actions come after the mutated   *)
(* forms (suffix _Bug...) that the model checker must be able to refute.   *)
(***************************************************************************)
EXTENDS Naturals, Sequences, FiniteSets

CONSTANTS Workers,   \* the threads AsyncExec::init creates
          Tasks,     \* the calls of schedule()
          Blocking,  \* the tasks whose Python code may never return
          NoTask, Nobody

ASSUME AsyncExecAssumption ==
  /\ Workers # {}
  /\ Workers \cap Tasks = {}
  /\ Blocking \subseteq Tasks
  /\ NoTask \notin Tasks
  /\ Nobody \notin Workers \cup Tasks

VARIABLES
  que,        \* TaskQueue::que, oldest first
  mutex,      \* the holder of TaskQueue::mutex: a worker or a call of schedule()
  event,      \* TaskQueue::event, a binary event: signals do not add up
  g_workers,  \* the workers in the global vector
  running,    \* WorkerThread::running
  wpc,        \* where WorkerThread::run and TaskQueue::dequeue stand
  cb,         \* the callback a worker is executing
  call,       \* where each call of schedule() stands, or what it returned
  main,       \* where the thread that runs init() and shutdown() stands
  late        \* history: callbacks a worker started after it was told to stop

vars == <<que, mutex, event, g_workers, running, wpc, cb, call, main, late>>

WorkerPC == {"unborn", "top", "lock", "check", "wait", "relock", "take", "exec", "exited"}
CallPC == {"idle", "lock", "push", "signal", "true", "false"}

TypeOK ==
  /\ que \in Seq(Tasks)
  /\ mutex \in Workers \cup Tasks \cup {Nobody}
  /\ event \in BOOLEAN
  /\ g_workers \in SUBSET Workers
  /\ running \in [Workers -> BOOLEAN]
  /\ wpc \in [Workers -> WorkerPC]
  /\ cb \in [Workers -> Tasks \cup {NoTask}]
  /\ call \in [Tasks -> CallPC]
  /\ main \in {"init", "up", "stop", "join", "down"}
  /\ late \in [Workers -> Nat]

Init ==
  /\ que = <<>>
  /\ mutex = Nobody
  /\ event = FALSE
  /\ g_workers = {}
  /\ running = [w \in Workers |-> TRUE]
  /\ wpc = [w \in Workers |-> "unborn"]
  /\ cb = [w \in Workers |-> NoTask]
  /\ call = [t \in Tasks |-> "idle"]
  /\ main = "init"
  /\ late = [w \in Workers |-> 0]

WorkerGoes(w, to) == wpc' = [wpc EXCEPT ![w] = to]
CallGoes(t, to) == call' = [call EXCEPT ![t] = to]

-----------------------------------------------------------------------------
(* AsyncExec::init, shutdown: the thread of the IOC's main program.          *)

\* One turn of the loop in AsyncExec::init: the thread runs before the next one is made.
InitWorker(w) ==
  /\ main = "init"
  /\ w \notin g_workers
  /\ g_workers' = g_workers \cup {w}
  /\ WorkerGoes(w, "top")
  /\ main' = IF g_workers' = Workers THEN "up" ELSE "init"
  /\ UNCHANGED <<que, mutex, event, running, cb, call, late>>

\* One turn of the first loop of shutdown().
StopWorker(w) ==
  /\ main \in {"up", "stop"}
  /\ running[w]
  /\ running' = [running EXCEPT ![w] = FALSE]
  /\ main' = IF \E v \in Workers \ {w} : running[v] THEN "stop" ELSE "join"
  /\ UNCHANGED <<que, mutex, event, g_workers, wpc, cb, call, late>>

\* g_workers.clear(): each ~WorkerThread blocks in exitWait(); the vector is empty only at the end.
JoinWorkers ==
  /\ main = "join"
  /\ \A w \in g_workers : wpc[w] = "exited"
  /\ g_workers' = {}
  /\ main' = "down"
  /\ UNCHANGED <<que, mutex, event, running, wpc, cb, call, late>>

-----------------------------------------------------------------------------
(* AsyncExec::schedule and TaskQueue::enqueue.  Records are processed only   *)
(* after the registrar has returned, so no call is made during init().       *)

Schedule(t) ==
  /\ main # "init"
  /\ call[t] = "idle"
  /\ CallGoes(t, IF g_workers = {} THEN "false" ELSE "lock")
  /\ UNCHANGED <<que, mutex, event, g_workers, running, wpc, cb, main, late>>

EnqueueLock(t) ==
  /\ call[t] = "lock"
  /\ mutex = Nobody
  /\ mutex' = t
  /\ CallGoes(t, "push")
  /\ UNCHANGED <<que, event, g_workers, running, wpc, cb, main, late>>

EnqueuePush_BugFront(t) ==
  /\ call[t] = "push"
  /\ que' = <<t>> \o que
  /\ mutex' = Nobody
  /\ CallGoes(t, "signal")
  /\ UNCHANGED <<event, g_workers, running, wpc, cb, main, late>>

EnqueuePush(t) ==
  /\ call[t] = "push"
  /\ que' = Append(que, t)
  /\ mutex' = Nobody
  /\ CallGoes(t, "signal")
  /\ UNCHANGED <<event, g_workers, running, wpc, cb, main, late>>

EnqueueSignal_BugNone(t) ==
  /\ call[t] = "signal"
  /\ CallGoes(t, "true")
  /\ UNCHANGED <<que, mutex, event, g_workers, running, wpc, cb, main, late>>

EnqueueSignal(t) ==
  /\ call[t] = "signal"
  /\ event' = TRUE
  /\ CallGoes(t, "true")
  /\ UNCHANGED <<que, mutex, g_workers, running, wpc, cb, main, late>>

-----------------------------------------------------------------------------
(* WorkerThread::run and TaskQueue::dequeue.                                 *)

RunLoop_BugIgnoresStop(w) ==
  /\ wpc[w] = "top"
  /\ WorkerGoes(w, "lock")
  /\ UNCHANGED <<que, mutex, event, g_workers, running, cb, call, main, late>>

\* while (running)
RunLoop(w) ==
  /\ wpc[w] = "top"
  /\ WorkerGoes(w, IF running[w] THEN "lock" ELSE "exited")
  /\ UNCHANGED <<que, mutex, event, g_workers, running, cb, call, main, late>>

\* Either mutex.lock() of dequeue.
DequeueLock(w) ==
  /\ wpc[w] \in {"lock", "relock"}
  /\ mutex = Nobody
  /\ mutex' = w
  /\ WorkerGoes(w, IF wpc[w] = "lock" THEN "check" ELSE "take")
  /\ UNCHANGED <<que, event, g_workers, running, cb, call, main, late>>

\* que.empty(): release the mutex before waiting, keep it otherwise.
DequeueCheck(w) ==
  /\ wpc[w] = "check"
  /\ IF que = <<>>
       THEN mutex' = Nobody /\ WorkerGoes(w, "wait")
       ELSE UNCHANGED mutex /\ WorkerGoes(w, "take")
  /\ UNCHANGED <<que, event, g_workers, running, cb, call, main, late>>

\* event.wait() consumes the event.
DequeueWake(w) ==
  /\ wpc[w] = "wait"
  /\ event
  /\ event' = FALSE
  /\ WorkerGoes(w, "relock")
  /\ UNCHANGED <<que, mutex, g_workers, running, cb, call, main, late>>

\* event.wait(timeout) gives up after a second; its result is not looked at.
DequeueTimeout(w) ==
  /\ wpc[w] = "wait"
  /\ WorkerGoes(w, "relock")
  /\ UNCHANGED <<que, mutex, event, g_workers, running, cb, call, main, late>>

DequeueTake_BugNoPop(w) ==
  /\ wpc[w] = "take"
  /\ mutex' = Nobody
  /\ IF que # <<>>
       THEN /\ cb' = [cb EXCEPT ![w] = Head(que)]
            /\ late' = [late EXCEPT ![w] = IF running[w] THEN @ ELSE @ + 1]
            /\ WorkerGoes(w, "exec")
       ELSE WorkerGoes(w, "top") /\ UNCHANGED <<cb, late>>
  /\ UNCHANGED <<que, event, g_workers, running, call, main>>

\* front() of an empty list: Nobody stands for the garbage it returns.
DequeueTake_BugNoRecheck(w) ==
  /\ wpc[w] = "take"
  /\ mutex' = Nobody
  /\ cb' = [cb EXCEPT ![w] = IF que = <<>> THEN Nobody ELSE Head(que)]
  /\ que' = IF que = <<>> THEN que ELSE Tail(que)
  /\ WorkerGoes(w, "exec")
  /\ UNCHANGED <<event, g_workers, running, call, main, late>>

DequeueTake(w) ==
  /\ wpc[w] = "take"
  /\ mutex' = Nobody
  /\ IF que # <<>>
       THEN /\ cb' = [cb EXCEPT ![w] = Head(que)]
            /\ que' = Tail(que)
            /\ late' = [late EXCEPT ![w] = IF running[w] THEN @ ELSE @ + 1]
            /\ WorkerGoes(w, "exec")
       ELSE WorkerGoes(w, "top") /\ UNCHANGED <<cb, que, late>>
  /\ UNCHANGED <<event, g_workers, running, call, main>>

\* cb() returns.
ExecReturn(w) ==
  /\ wpc[w] = "exec"
  /\ cb' = [cb EXCEPT ![w] = NoTask]
  /\ WorkerGoes(w, "top")
  /\ UNCHANGED <<que, mutex, event, g_workers, running, call, main, late>>

-----------------------------------------------------------------------------
\* The process ends after shutdown(): every thread is gone and every call has returned.
Ended ==
  /\ main = "down"
  /\ \A t \in Tasks : call[t] \in {"true", "false"}
  /\ UNCHANGED vars

Caller(t) == Schedule(t) \/ EnqueueLock(t) \/ EnqueuePush(t) \/ EnqueueSignal(t)

Worker(w) ==
  \/ RunLoop(w)
  \/ DequeueLock(w)
  \/ DequeueCheck(w)
  \/ DequeueWake(w)
  \/ DequeueTimeout(w)
  \/ DequeueTake(w)
  \/ ExecReturn(w)

Next ==
  \/ \E w \in Workers : InitWorker(w) \/ StopWorker(w) \/ Worker(w)
  \/ JoinWorkers
  \/ \E t \in Tasks : Caller(t)
  \/ Ended

Spec == Init /\ [][Next]_vars

(* Fairness.  The threads are scheduled (WF); the mutex is held only for a   *)
(* few instructions and every waiter gets it in the end (SF); one second     *)
(* passes (WF of the timeout); a callback returns unless it is Blocking.     *)
(* Nothing obliges the program to call schedule() or to begin shutdown().    *)
Fairness ==
  /\ \A w \in Workers :
       /\ WF_vars(InitWorker(w))
       /\ WF_vars(StopWorker(w) /\ main = "stop")
       /\ WF_vars(RunLoop(w))
       /\ SF_vars(DequeueLock(w))
       /\ WF_vars(DequeueCheck(w))
       /\ WF_vars(DequeueWake(w))
       /\ WF_vars(DequeueTimeout(w))
       /\ WF_vars(DequeueTake(w))
       /\ WF_vars(ExecReturn(w) /\ cb[w] \notin Blocking)
  /\ WF_vars(JoinWorkers)
  /\ \A t \in Tasks :
       SF_vars(EnqueueLock(t)) /\ WF_vars(EnqueuePush(t)) /\ WF_vars(EnqueueSignal(t))

FairSpec == Spec /\ Fairness

-----------------------------------------------------------------------------
(* Properties.                                                               *)

Queued(t) == \E i \in DOMAIN que : que[i] = t
RunBy(w, t) == cb[w] = t

\* A callback is at any time in at most one place: once in the queue or in the hands of one
\* worker, and there only if schedule() has accepted it (asyncexec.cpp:27-51).
ExactlyOnce ==
  /\ \A i, j \in DOMAIN que : que[i] = que[j] => i = j
  /\ \A t \in Tasks : Queued(t) => /\ call[t] \in {"signal", "true"}
                                   /\ \A w \in Workers : ~RunBy(w, t)
  /\ \A v, w \in Workers : cb[v] = cb[w] /\ cb[v] # NoTask => v = w

\* While the pool is up, a queue that holds a callback never finds all workers asleep without a
\* signal that is set or on its way: some worker is outside the one-second wait and reads the
\* queue again before it waits (asyncexec.cpp:39-42, 74-79).  That worker may first have a
\* callback to finish.  Signals coalesce, so when this callback blocks and the others sleep, the
\* queue is left to their timeout (EventuallyStarted).
NoLostWakeup ==
  (main = "up" /\ que # <<>>) =>
     \/ event
     \/ \E t \in Tasks : call[t] = "signal"
     \/ \E w \in Workers : wpc[w] # "wait"

\* After stop() a worker starts at most one more callback: the one it was already waiting
\* for in dequeue (asyncexec.cpp:74-78).
AtMostOneLateStart == \A w \in Workers : late[w] <= 1

\* When shutdown() has returned no worker executes a callback or ever will: the order that
\* pydevUnregister relies on before it finalizes the interpreter (epicsdevice.cpp:35-39).
DownMeansIdle ==
  main = "down" => \A w \in Workers : wpc[w] = "exited" /\ cb[w] = NoTask

\* The promise of TaskPool: callbacks start oldest first, one per worker, none once closed.
Pool == INSTANCE TaskPool WITH Slots <- Workers, pending <- que, active <- cb,
                               closed <- (main = "down")
PoolSpec == Pool!Spec

\* As long as one worker is not stuck in Python code that never returns, every queued
\* callback is started although other workers are stuck (README.md:222-225).
EventuallyStarted ==
  \A t \in Tasks : Queued(t) ~> (~Queued(t) \/ main # "up")

\* shutdown() ends unless a worker is in a callback that never returns (asyncexec.cpp:104-113).
ShutdownReturns ==
  main = "stop" ~> (main = "down" \/ \E w \in Workers : cb[w] \in Blocking)
=============================================================================

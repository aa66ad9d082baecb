-------------------------- MODULE AsyncExecProofs --------------------------
(***************************************************************************)
(* Theorems about AsyncExec for any set of workers and any set of calls of *)
(* schedule().  The safety invariants are not inductive by themselves:     *)
(* IInv adds who holds the mutex, what a worker at each control point has  *)
(* in its hands, and how far init() or shutdown() has come.                *)
(***************************************************************************)
EXTENDS AsyncExec, TLAPS

-----------------------------------------------------------------------------
(* The inductive invariant.                                                  *)

\* The mutex is held exactly by whoever stands between lock() and unlock().
MutexInv ==
  /\ \A w \in Workers : mutex = w <=> wpc[w] \in {"check", "take"}
  /\ \A t \in Tasks : mutex = t <=> call[t] = "push"

\* A worker has a callback exactly while it executes it, and schedule() has accepted that one.
BusyInv ==
  /\ \A w \in Workers : wpc[w] = "exec" <=> cb[w] # NoTask
  /\ \A w \in Workers, t \in Tasks : cb[w] = t => call[t] \in {"signal", "true"}

\* How far init() and shutdown() are, as the workers see it.
PhaseInv ==
  /\ main \in {"init", "up"} => \A w \in Workers : running[w]
  /\ main \in {"join", "down"} => \A w \in Workers : ~running[w]
  /\ main = "init" => \A w \in Workers : w \in g_workers <=> wpc[w] # "unborn"
  /\ main \in {"up", "stop", "join"} => g_workers = Workers
  /\ main # "init" => \A w \in Workers : wpc[w] # "unborn"
  /\ main = "down" => \A w \in Workers : wpc[w] = "exited"

\* A worker that was stopped has made its late start at most once and then sees the flag.
LateInv ==
  \A w \in Workers :
    /\ late[w] \in {0, 1}
    /\ late[w] = 1 => ~running[w] /\ wpc[w] \in {"exec", "top", "exited"}

IInv ==
  /\ TypeOK
  /\ MutexInv
  /\ BusyInv
  /\ PhaseInv
  /\ LateInv
  /\ ExactlyOnce
  /\ NoLostWakeup

-----------------------------------------------------------------------------
LEMMA TypeStep == TypeOK /\ [Next]_vars => TypeOK'
<1> SUFFICES ASSUME TypeOK, [Next]_vars PROVE TypeOK'
  OBVIOUS
<1> USE DEF TypeOK, WorkerPC, CallPC, WorkerGoes, CallGoes
<1>1. CASE \E w \in Workers : InitWorker(w)
  BY <1>1 DEF InitWorker
<1>2. CASE \E w \in Workers : StopWorker(w)
  BY <1>2 DEF StopWorker
<1>3. CASE JoinWorkers
  BY <1>3 DEF JoinWorkers
<1>4. CASE \E t \in Tasks : Schedule(t)
  BY <1>4 DEF Schedule
<1>5. CASE \E t \in Tasks : EnqueueLock(t)
  BY <1>5 DEF EnqueueLock
<1>6. CASE \E t \in Tasks : EnqueuePush(t)
  BY <1>6 DEF EnqueuePush
<1>7. CASE \E t \in Tasks : EnqueueSignal(t)
  BY <1>7 DEF EnqueueSignal
<1>8. CASE \E w \in Workers : RunLoop(w)
  BY <1>8 DEF RunLoop
<1>9. CASE \E w \in Workers : DequeueLock(w)
  BY <1>9 DEF DequeueLock
<1>10. CASE \E w \in Workers : DequeueCheck(w)
  BY <1>10 DEF DequeueCheck
<1>11. CASE \E w \in Workers : DequeueWake(w) \/ DequeueTimeout(w)
  BY <1>11 DEF DequeueWake, DequeueTimeout
<1>12. ASSUME NEW w \in Workers, DequeueTake(w) PROVE TypeOK'
  <2>1. CASE que = <<>>
    BY <1>12, <2>1 DEF DequeueTake
  <2>2. CASE que # <<>>
    <3>1. Head(que) \in Tasks /\ Tail(que) \in Seq(Tasks)
      BY <2>2
    <3>2. late' \in [Workers -> Nat]
      BY <1>12, <2>2 DEF DequeueTake
    <3> QED
      BY <1>12, <2>2, <3>1, <3>2 DEF DequeueTake
  <2> QED
    BY <2>1, <2>2
<1>13. CASE \E w \in Workers : ExecReturn(w)
  BY <1>13 DEF ExecReturn
<1>14. CASE UNCHANGED vars
  BY <1>14 DEF vars
<1> QED
  BY <1>1, <1>2, <1>3, <1>4, <1>5, <1>6, <1>7, <1>8, <1>9, <1>10, <1>11, <1>12, <1>13, <1>14
     DEF Next, Worker, Caller, Ended

\* What DequeueTake does to a queue that is not empty, index by index.
LEMMA TakeFacts ==
  ASSUME IInv, NEW w \in Workers, DequeueTake(w), que # <<>>
  PROVE  /\ que[1] \in Tasks
         /\ cb' = [cb EXCEPT ![w] = que[1]]
         /\ wpc' = [wpc EXCEPT ![w] = "exec"]
         /\ DOMAIN que = 1 .. Len(que) /\ Len(que) \in Nat \ {0}
         /\ DOMAIN que' = 1 .. Len(que) - 1
         /\ \A i \in DOMAIN que' : i + 1 \in DOMAIN que /\ que'[i] = que[i + 1]
<1>1. que \in Seq(Tasks) /\ que' = Tail(que) /\ Len(que) \in Nat \ {0}
  BY DEF DequeueTake, IInv, TypeOK
<1>2. Len(que') = Len(que) - 1 /\ que' \in Seq(Tasks)
  BY <1>1
<1> QED
  BY <1>1, <1>2 DEF DequeueTake, WorkerGoes

LEMMA MutexStep == IInv /\ [Next]_vars => MutexInv'
<1> SUFFICES ASSUME IInv, [Next]_vars PROVE MutexInv'
  OBVIOUS
<1> USE AsyncExecAssumption DEF IInv, TypeOK, WorkerGoes, CallGoes, MutexInv
<1>1. ASSUME NEW w \in Workers, InitWorker(w) PROVE MutexInv'
  BY <1>1 DEF InitWorker, PhaseInv
<1>2. ASSUME NEW w \in Workers, StopWorker(w) PROVE MutexInv'
  BY <1>2 DEF StopWorker
<1>3. ASSUME JoinWorkers PROVE MutexInv'
  BY <1>3 DEF JoinWorkers
<1>4. ASSUME NEW t \in Tasks, Schedule(t) PROVE MutexInv'
  BY <1>4 DEF Schedule
<1>5. ASSUME NEW t \in Tasks, EnqueueLock(t) PROVE MutexInv'
  BY <1>5 DEF EnqueueLock
<1>6. ASSUME NEW t \in Tasks, EnqueuePush(t) PROVE MutexInv'
  BY <1>6 DEF EnqueuePush
<1>7. ASSUME NEW t \in Tasks, EnqueueSignal(t) PROVE MutexInv'
  BY <1>7 DEF EnqueueSignal
<1>8. ASSUME NEW w \in Workers, RunLoop(w) PROVE MutexInv'
  BY <1>8 DEF RunLoop
<1>9. ASSUME NEW w \in Workers, DequeueLock(w) PROVE MutexInv'
  BY <1>9 DEF DequeueLock
<1>10. ASSUME NEW w \in Workers, DequeueCheck(w) PROVE MutexInv'
  BY <1>10 DEF DequeueCheck
<1>11. ASSUME NEW w \in Workers, DequeueWake(w) PROVE MutexInv'
  BY <1>11 DEF DequeueWake
<1>12. ASSUME NEW w \in Workers, DequeueTimeout(w) PROVE MutexInv'
  BY <1>12 DEF DequeueTimeout
<1>13. ASSUME NEW w \in Workers, DequeueTake(w) PROVE MutexInv'
  <2>1. CASE que = <<>>
    BY <1>13, <2>1 DEF DequeueTake
  <2>2. CASE que # <<>>
    BY <1>13, <2>2, TakeFacts DEF DequeueTake
  <2> QED
    BY <2>1, <2>2
<1>14. ASSUME NEW w \in Workers, ExecReturn(w) PROVE MutexInv'
  BY <1>14 DEF ExecReturn
<1>15. CASE UNCHANGED vars
  BY <1>15 DEF vars
<1> QED
  BY <1>1, <1>2, <1>3, <1>4, <1>5, <1>6, <1>7, <1>8, <1>9, <1>10, <1>11, <1>12, <1>13, <1>14, <1>15
     DEF Next, Worker, Caller, Ended

LEMMA BusyStep == IInv /\ [Next]_vars => BusyInv'
<1> SUFFICES ASSUME IInv, [Next]_vars PROVE BusyInv'
  OBVIOUS
<1> USE AsyncExecAssumption DEF IInv, TypeOK, WorkerGoes, CallGoes, BusyInv, ExactlyOnce, Queued, RunBy
<1>1. ASSUME NEW w \in Workers, InitWorker(w) PROVE BusyInv'
  BY <1>1 DEF InitWorker, PhaseInv
<1>2. ASSUME NEW w \in Workers, StopWorker(w) PROVE BusyInv'
  BY <1>2 DEF StopWorker
<1>3. ASSUME JoinWorkers PROVE BusyInv'
  BY <1>3 DEF JoinWorkers
<1>4. ASSUME NEW t \in Tasks, Schedule(t) PROVE BusyInv'
  BY <1>4 DEF Schedule
<1>5. ASSUME NEW t \in Tasks, EnqueueLock(t) PROVE BusyInv'
  BY <1>5 DEF EnqueueLock
<1>6. ASSUME NEW t \in Tasks, EnqueuePush(t) PROVE BusyInv'
  BY <1>6 DEF EnqueuePush
<1>7. ASSUME NEW t \in Tasks, EnqueueSignal(t) PROVE BusyInv'
  BY <1>7 DEF EnqueueSignal
<1>8. ASSUME NEW w \in Workers, RunLoop(w) PROVE BusyInv'
  BY <1>8 DEF RunLoop
<1>9. ASSUME NEW w \in Workers, DequeueLock(w) PROVE BusyInv'
  BY <1>9 DEF DequeueLock
<1>10. ASSUME NEW w \in Workers, DequeueCheck(w) PROVE BusyInv'
  BY <1>10 DEF DequeueCheck
<1>11. ASSUME NEW w \in Workers, DequeueWake(w) PROVE BusyInv'
  BY <1>11 DEF DequeueWake
<1>12. ASSUME NEW w \in Workers, DequeueTimeout(w) PROVE BusyInv'
  BY <1>12 DEF DequeueTimeout
<1>13. ASSUME NEW w \in Workers, DequeueTake(w) PROVE BusyInv'
  <2>1. CASE que = <<>>
    BY <1>13, <2>1 DEF DequeueTake
  <2>2. CASE que # <<>>
    <3>1. \A v \in Workers : cb'[v] = IF v = w THEN que[1] ELSE cb[v]
      BY <1>13, <2>2, TakeFacts
    <3>2. que[1] \in Tasks /\ call[que[1]] \in {"signal", "true"} /\ call' = call
      BY <1>13, <2>2, TakeFacts DEF DequeueTake
    <3>3. \A v \in Workers : wpc'[v] = IF v = w THEN "exec" ELSE wpc[v]
      BY <1>13, <2>2, TakeFacts
    <3> QED
      BY <3>1, <3>2, <3>3
  <2> QED
    BY <2>1, <2>2
<1>14. ASSUME NEW w \in Workers, ExecReturn(w) PROVE BusyInv'
  BY <1>14 DEF ExecReturn
<1>15. CASE UNCHANGED vars
  BY <1>15 DEF vars
<1> QED
  BY <1>1, <1>2, <1>3, <1>4, <1>5, <1>6, <1>7, <1>8, <1>9, <1>10, <1>11, <1>12, <1>13, <1>14, <1>15
     DEF Next, Worker, Caller, Ended

LEMMA PhaseStep == IInv /\ [Next]_vars => PhaseInv'
<1> SUFFICES ASSUME IInv, [Next]_vars PROVE PhaseInv'
  OBVIOUS
<1> USE AsyncExecAssumption DEF IInv, TypeOK, WorkerGoes, CallGoes, PhaseInv
<1>1. ASSUME NEW w \in Workers, InitWorker(w) PROVE PhaseInv'
  BY <1>1 DEF InitWorker
<1>2. ASSUME NEW w \in Workers, StopWorker(w) PROVE PhaseInv'
  BY <1>2 DEF StopWorker
<1>3. ASSUME JoinWorkers PROVE PhaseInv'
  BY <1>3 DEF JoinWorkers
<1>4. ASSUME NEW t \in Tasks, Schedule(t) PROVE PhaseInv'
  BY <1>4 DEF Schedule
<1>5. ASSUME NEW t \in Tasks, EnqueueLock(t) PROVE PhaseInv'
  BY <1>5 DEF EnqueueLock
<1>6. ASSUME NEW t \in Tasks, EnqueuePush(t) PROVE PhaseInv'
  BY <1>6 DEF EnqueuePush
<1>7. ASSUME NEW t \in Tasks, EnqueueSignal(t) PROVE PhaseInv'
  BY <1>7 DEF EnqueueSignal
<1>8. ASSUME NEW w \in Workers, RunLoop(w) PROVE PhaseInv'
  BY <1>8 DEF RunLoop
<1>9. ASSUME NEW w \in Workers, DequeueLock(w) PROVE PhaseInv'
  BY <1>9 DEF DequeueLock
<1>10. ASSUME NEW w \in Workers, DequeueCheck(w) PROVE PhaseInv'
  BY <1>10 DEF DequeueCheck
<1>11. ASSUME NEW w \in Workers, DequeueWake(w) PROVE PhaseInv'
  BY <1>11 DEF DequeueWake
<1>12. ASSUME NEW w \in Workers, DequeueTimeout(w) PROVE PhaseInv'
  BY <1>12 DEF DequeueTimeout
<1>13. ASSUME NEW w \in Workers, DequeueTake(w) PROVE PhaseInv'
  BY <1>13 DEF DequeueTake
<1>14. ASSUME NEW w \in Workers, ExecReturn(w) PROVE PhaseInv'
  BY <1>14 DEF ExecReturn
<1>15. CASE UNCHANGED vars
  BY <1>15 DEF vars
<1> QED
  BY <1>1, <1>2, <1>3, <1>4, <1>5, <1>6, <1>7, <1>8, <1>9, <1>10, <1>11, <1>12, <1>13, <1>14, <1>15
     DEF Next, Worker, Caller, Ended

LEMMA LateStep == IInv /\ [Next]_vars => LateInv'
<1> SUFFICES ASSUME IInv, [Next]_vars PROVE LateInv'
  OBVIOUS
<1> USE AsyncExecAssumption DEF IInv, TypeOK, WorkerGoes, CallGoes, LateInv, PhaseInv
<1>1. ASSUME NEW w \in Workers, InitWorker(w) PROVE LateInv'
  BY <1>1 DEF InitWorker
<1>2. ASSUME NEW w \in Workers, StopWorker(w) PROVE LateInv'
  BY <1>2 DEF StopWorker
<1>3. ASSUME JoinWorkers PROVE LateInv'
  BY <1>3 DEF JoinWorkers
<1>4. ASSUME NEW t \in Tasks, Schedule(t) PROVE LateInv'
  BY <1>4 DEF Schedule
<1>5. ASSUME NEW t \in Tasks, EnqueueLock(t) PROVE LateInv'
  BY <1>5 DEF EnqueueLock
<1>6. ASSUME NEW t \in Tasks, EnqueuePush(t) PROVE LateInv'
  BY <1>6 DEF EnqueuePush
<1>7. ASSUME NEW t \in Tasks, EnqueueSignal(t) PROVE LateInv'
  BY <1>7 DEF EnqueueSignal
<1>8. ASSUME NEW w \in Workers, RunLoop(w) PROVE LateInv'
  BY <1>8 DEF RunLoop
<1>9. ASSUME NEW w \in Workers, DequeueLock(w) PROVE LateInv'
  BY <1>9 DEF DequeueLock
<1>10. ASSUME NEW w \in Workers, DequeueCheck(w) PROVE LateInv'
  BY <1>10 DEF DequeueCheck
<1>11. ASSUME NEW w \in Workers, DequeueWake(w) PROVE LateInv'
  BY <1>11 DEF DequeueWake
<1>12. ASSUME NEW w \in Workers, DequeueTimeout(w) PROVE LateInv'
  BY <1>12 DEF DequeueTimeout
<1>13. ASSUME NEW w \in Workers, DequeueTake(w) PROVE LateInv'
  BY <1>13 DEF DequeueTake
<1>14. ASSUME NEW w \in Workers, ExecReturn(w) PROVE LateInv'
  BY <1>14 DEF ExecReturn
<1>15. CASE UNCHANGED vars
  BY <1>15 DEF vars
<1> QED
  BY <1>1, <1>2, <1>3, <1>4, <1>5, <1>6, <1>7, <1>8, <1>9, <1>10, <1>11, <1>12, <1>13, <1>14, <1>15
     DEF Next, Worker, Caller, Ended

LEMMA OnceStep == IInv /\ [Next]_vars => ExactlyOnce'
<1> SUFFICES ASSUME IInv, [Next]_vars PROVE ExactlyOnce'
  OBVIOUS
<1> USE AsyncExecAssumption DEF IInv, TypeOK, WorkerGoes, CallGoes, BusyInv, ExactlyOnce, Queued, RunBy
<1>1. ASSUME NEW w \in Workers, InitWorker(w) PROVE ExactlyOnce'
  BY <1>1 DEF InitWorker
<1>2. ASSUME NEW w \in Workers, StopWorker(w) PROVE ExactlyOnce'
  BY <1>2 DEF StopWorker
<1>3. ASSUME JoinWorkers PROVE ExactlyOnce'
  BY <1>3 DEF JoinWorkers
<1>4. ASSUME NEW t \in Tasks, Schedule(t) PROVE ExactlyOnce'
  BY <1>4 DEF Schedule
<1>5. ASSUME NEW t \in Tasks, EnqueueLock(t) PROVE ExactlyOnce'
  BY <1>5 DEF EnqueueLock
<1>6. ASSUME NEW t \in Tasks, EnqueuePush(t) PROVE ExactlyOnce'
  BY <1>6 DEF EnqueuePush
<1>7. ASSUME NEW t \in Tasks, EnqueueSignal(t) PROVE ExactlyOnce'
  BY <1>7 DEF EnqueueSignal
<1>8. ASSUME NEW w \in Workers, RunLoop(w) PROVE ExactlyOnce'
  BY <1>8 DEF RunLoop
<1>9. ASSUME NEW w \in Workers, DequeueLock(w) PROVE ExactlyOnce'
  BY <1>9 DEF DequeueLock
<1>10. ASSUME NEW w \in Workers, DequeueCheck(w) PROVE ExactlyOnce'
  BY <1>10 DEF DequeueCheck
<1>11. ASSUME NEW w \in Workers, DequeueWake(w) PROVE ExactlyOnce'
  BY <1>11 DEF DequeueWake
<1>12. ASSUME NEW w \in Workers, DequeueTimeout(w) PROVE ExactlyOnce'
  BY <1>12 DEF DequeueTimeout
<1>13. ASSUME NEW w \in Workers, DequeueTake(w) PROVE ExactlyOnce'
  <2>1. CASE que = <<>>
    BY <1>13, <2>1 DEF DequeueTake
  <2>2. CASE que # <<>>
    <3>1. \A v \in Workers : cb'[v] = IF v = w THEN que[1] ELSE cb[v]
      BY <1>13, <2>2, TakeFacts
    <3>2. que[1] \in Tasks /\ call[que[1]] \in {"signal", "true"} /\ call' = call
      BY <1>13, <2>2, TakeFacts DEF DequeueTake
    <3>3. \A v \in Workers : cb[v] # que[1]
      <4>1. 1 \in DOMAIN que /\ que[1] \in Tasks
        BY <1>13, <2>2, TakeFacts
      <4>2. Queued(que[1])
        BY <4>1 DEF Queued
      <4>3. \A v \in Workers : ~RunBy(v, que[1])
        BY <4>1, <4>2 DEF IInv, ExactlyOnce
      <4> QED
        BY <4>3 DEF RunBy
    <3>4. \A k, l \in DOMAIN que' : que'[k] = que'[l] => k = l
      BY <1>13, <2>2, TakeFacts
    <3>5. \A k \in DOMAIN que' : que'[k] # que[1] /\ \E l \in DOMAIN que : que'[k] = que[l]
      BY <1>13, <2>2, TakeFacts
    <3>6. ASSUME NEW k \in DOMAIN que'
          PROVE  /\ call'[que'[k]] \in {"signal", "true"}
                 /\ \A v \in Workers : cb'[v] # que'[k]
      <4>1. PICK l \in DOMAIN que : que'[k] = que[l] /\ que[l] \in Tasks
        BY <3>5
      <4> QED
        BY <4>1, <3>1, <3>2, <3>5
    <3>7. \A u, v \in Workers : cb'[u] = cb'[v] /\ cb'[u] # NoTask => u = v
      BY <3>1, <3>2, <3>3
    <3> QED
      BY <3>4, <3>6, <3>7
  <2> QED
    BY <2>1, <2>2
<1>14. ASSUME NEW w \in Workers, ExecReturn(w) PROVE ExactlyOnce'
  BY <1>14 DEF ExecReturn
<1>15. CASE UNCHANGED vars
  BY <1>15 DEF vars
<1> QED
  BY <1>1, <1>2, <1>3, <1>4, <1>5, <1>6, <1>7, <1>8, <1>9, <1>10, <1>11, <1>12, <1>13, <1>14, <1>15
     DEF Next, Worker, Caller, Ended

LEMMA WakeStep == IInv /\ [Next]_vars => NoLostWakeup'
<1> SUFFICES ASSUME IInv, [Next]_vars PROVE NoLostWakeup'
  OBVIOUS
<1> USE AsyncExecAssumption DEF IInv, TypeOK, WorkerGoes, CallGoes, NoLostWakeup, PhaseInv
<1>1. ASSUME NEW w \in Workers, InitWorker(w) PROVE NoLostWakeup'
  BY <1>1 DEF InitWorker
<1>2. ASSUME NEW w \in Workers, StopWorker(w) PROVE NoLostWakeup'
  BY <1>2 DEF StopWorker
<1>3. ASSUME JoinWorkers PROVE NoLostWakeup'
  BY <1>3 DEF JoinWorkers
<1>4. ASSUME NEW t \in Tasks, Schedule(t) PROVE NoLostWakeup'
  BY <1>4 DEF Schedule
<1>5. ASSUME NEW t \in Tasks, EnqueueLock(t) PROVE NoLostWakeup'
  BY <1>5 DEF EnqueueLock
<1>6. ASSUME NEW t \in Tasks, EnqueuePush(t) PROVE NoLostWakeup'
  BY <1>6 DEF EnqueuePush
<1>7. ASSUME NEW t \in Tasks, EnqueueSignal(t) PROVE NoLostWakeup'
  BY <1>7 DEF EnqueueSignal
<1>8. ASSUME NEW w \in Workers, RunLoop(w) PROVE NoLostWakeup'
  BY <1>8 DEF RunLoop
<1>9. ASSUME NEW w \in Workers, DequeueLock(w) PROVE NoLostWakeup'
  BY <1>9 DEF DequeueLock
<1>10. ASSUME NEW w \in Workers, DequeueCheck(w) PROVE NoLostWakeup'
  BY <1>10 DEF DequeueCheck
<1>11. ASSUME NEW w \in Workers, DequeueWake(w) PROVE NoLostWakeup'
  BY <1>11 DEF DequeueWake
<1>12. ASSUME NEW w \in Workers, DequeueTimeout(w) PROVE NoLostWakeup'
  BY <1>12 DEF DequeueTimeout
<1>13. ASSUME NEW w \in Workers, DequeueTake(w) PROVE NoLostWakeup'
  BY <1>13 DEF DequeueTake
<1>14. ASSUME NEW w \in Workers, ExecReturn(w) PROVE NoLostWakeup'
  BY <1>14 DEF ExecReturn
<1>15. CASE UNCHANGED vars
  BY <1>15 DEF vars
<1> QED
  BY <1>1, <1>2, <1>3, <1>4, <1>5, <1>6, <1>7, <1>8, <1>9, <1>10, <1>11, <1>12, <1>13, <1>14, <1>15
     DEF Next, Worker, Caller, Ended
-----------------------------------------------------------------------------
LEMMA InitInv == Init => IInv
<1> SUFFICES ASSUME Init PROVE IInv
  OBVIOUS
<1> USE AsyncExecAssumption DEF Init
<1>1. TypeOK
  <2>1. "unborn" \in WorkerPC /\ "idle" \in CallPC /\ <<>> \in Seq(Tasks)
    BY DEF WorkerPC, CallPC
  <2> QED
    BY <2>1 DEF TypeOK
<1>2. MutexInv /\ BusyInv /\ PhaseInv /\ LateInv
  BY DEF MutexInv, BusyInv, PhaseInv, LateInv
<1>3. ExactlyOnce /\ NoLostWakeup
  BY DEF ExactlyOnce, NoLostWakeup, Queued, RunBy
<1> QED
  BY <1>1, <1>2, <1>3 DEF IInv

\* The strengthened invariant holds in every reachable state, for any number of workers
\* and of calls of schedule().
THEOREM Invariance == Spec => []IInv
<1>1. IInv /\ [Next]_vars => IInv'
  BY TypeStep, MutexStep, BusyStep, PhaseStep, LateStep, OnceStep, WakeStep DEF IInv
<1> QED
  BY InitInv, <1>1, PTL DEF Spec

\* Every variable of the pool keeps its type (asyncexec.cpp:19-121).
THEOREM TypeCorrect == Spec => []TypeOK
<1>1. IInv => TypeOK
  BY DEF IInv
<1> QED
  BY Invariance, <1>1, PTL

\* No callback is lost from the hands of a worker, duplicated or run by two workers
\* (asyncexec.cpp:27-51).
THEOREM CallbackExactlyOnce == Spec => []ExactlyOnce
<1>1. IInv => ExactlyOnce
  BY DEF IInv
<1> QED
  BY Invariance, <1>1, PTL

\* Although signals coalesce, a queued callback has an awake worker or a pending signal
\* (asyncexec.cpp:32, 39-42).
THEOREM WakeupNotLost == Spec => []NoLostWakeup
<1>1. IInv => NoLostWakeup
  BY DEF IInv
<1> QED
  BY Invariance, <1>1, PTL

\* A stopped worker starts at most the one callback it was waiting for (asyncexec.cpp:74-78).
THEOREM OneLateStart == Spec => []AtMostOneLateStart
<1>1. IInv => AtMostOneLateStart
  BY DEF IInv, LateInv, AtMostOneLateStart
<1> QED
  BY Invariance, <1>1, PTL

\* When shutdown() returns, no worker runs Python code any more (epicsdevice.cpp:35-39).
THEOREM IdleWhenDown == Spec => []DownMeansIdle
<1>1. IInv => DownMeansIdle
  <2> SUFFICES ASSUME IInv, main = "down", NEW w \in Workers
               PROVE  wpc[w] = "exited" /\ cb[w] = NoTask
    BY DEF DownMeansIdle
  <2> QED
    BY DEF IInv, PhaseInv, BusyInv
<1> QED
  BY Invariance, <1>1, PTL

-----------------------------------------------------------------------------
(* AsyncExec implements TaskPool.                                            *)

LEMMA InitRefines == Init => Pool!Init
  BY DEF Init, Pool!Init

LEMMA StepRefines == IInv /\ [Next]_vars => [Pool!Next]_(Pool!poolVars)
<1> SUFFICES ASSUME IInv, [Next]_vars PROVE [Pool!Next]_(Pool!poolVars)
  OBVIOUS
<1> USE DEF Pool!poolVars
<1>1. ASSUME NEW t \in Tasks, EnqueuePush(t) PROVE Pool!Submit(t)
  BY <1>1 DEF EnqueuePush, Pool!Submit
<1>2. ASSUME NEW w \in Workers, DequeueTake(w) PROVE Pool!Start(w) \/ UNCHANGED Pool!poolVars
  <2>1. CASE que = <<>>
    BY <1>2, <2>1 DEF DequeueTake
  <2>2. CASE que # <<>>
    <3>1. main # "down" /\ cb[w] = NoTask
      BY <1>2 DEF DequeueTake, IInv, PhaseInv, BusyInv
    <3> QED
      BY <1>2, <2>2, <3>1 DEF DequeueTake, Pool!Start
  <2> QED
    BY <2>1, <2>2
<1>3. ASSUME NEW w \in Workers, ExecReturn(w) PROVE Pool!Finish(w)
  BY <1>3 DEF ExecReturn, Pool!Finish, IInv, BusyInv
<1>4. ASSUME JoinWorkers PROVE Pool!Close
  <2>1. g_workers = Workers
    BY <1>4 DEF JoinWorkers, IInv, PhaseInv
  <2> QED
    BY <1>4, <2>1 DEF JoinWorkers, Pool!Close, IInv, BusyInv
<1>5. ASSUME NEW w \in Workers,
             InitWorker(w) \/ StopWorker(w) \/ RunLoop(w) \/ DequeueLock(w)
               \/ DequeueCheck(w) \/ DequeueWake(w) \/ DequeueTimeout(w)
      PROVE  UNCHANGED Pool!poolVars
  BY <1>5 DEF InitWorker, StopWorker, RunLoop, DequeueLock, DequeueCheck, DequeueWake,
              DequeueTimeout
<1>6. ASSUME NEW t \in Tasks, Schedule(t) \/ EnqueueLock(t) \/ EnqueueSignal(t)
      PROVE  UNCHANGED Pool!poolVars
  BY <1>6 DEF Schedule, EnqueueLock, EnqueueSignal
<1>7. ASSUME UNCHANGED vars PROVE UNCHANGED Pool!poolVars
  BY <1>7 DEF vars
<1> QED
  BY <1>1, <1>2, <1>3, <1>4, <1>5, <1>6, <1>7
     DEF Next, Worker, Caller, Ended, Pool!Next

\* Every behaviour of the worker pool is one of TaskPool: callbacks start in the order they
\* were queued, one per worker, and none is running or starts once shutdown() has returned.
THEOREM Refinement == Spec => PoolSpec
<1> QED
  BY InitRefines, StepRefines, Invariance, PTL DEF Spec, PoolSpec, Pool!Spec
=============================================================================

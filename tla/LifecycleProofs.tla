-------------------------- MODULE LifecycleProofs --------------------------
(***************************************************************************)
(* Theorems about Lifecycle for any workers, Python threads and records:   *)
(* whoever holds a record's lock waits for nothing, and the interpreter is *)
(* finalized alone.  The inductive invariant says who holds the GIL and    *)
(* the locks at each stage of a thread, and that a worker that is not in   *)
(* processRecordCb has nothing to do.                                      *)
(***************************************************************************)
EXTENDS Lifecycle, TLAPS

-----------------------------------------------------------------------------
(* The inductive invariant.                                                  *)

\* Code, and what it does inside pydev.iointr, holds the GIL; after the interpreter has been
\* finalized the main thread keeps it.
GilInv ==
  /\ \A t \in Coders : pc[t] \in {"code", "scan", "process"} => gil = t
  /\ python = "finalized" => gil = Main /\ pc[Main] = "down"

\* A thread holds at most one lock, and only while it processes that record; the callback task
\* processes for a request.
LockInv ==
  /\ \A r \in Records : lock[r] # Nobody => pc[lock[r]] = "process"
  /\ \A q, r \in Records : lock[q] = lock[r] /\ lock[q] # Nobody => q = r
  /\ \A r \in Records : lock[r] = Callback => requested # <<>>

\* A worker between two tasks has none, and all have ended once shutdown() has joined them.
WorkerInv ==
  /\ pc[Main] \in {"restore", "finalize", "down"} => \A w \in Workers : pc[w] = "ended"
  /\ \A w \in Workers : pc[w] \in {"idle", "ended"} => active[w] = NoTask

IInv == TypeOK /\ GilInv /\ LockInv /\ WorkerInv

-----------------------------------------------------------------------------
LEMMA InitInv == Init => IInv
<1> SUFFICES ASSUME Init PROVE IInv
  OBVIOUS
<1> USE LifecycleAssumption DEF Init, Pool!Init, Coders, Threads
<1>1. TypeOK
  <2>1. pc \in [Threads -> Stages]
    BY DEF Stages
  <2>2. pact \in [Records -> BOOLEAN]
    OBVIOUS
  <2>3. lock \in [Records -> Threads \cup {Nobody}] /\ todo \in [Coders -> SUBSET Listed]
    OBVIOUS
  <2>4. pending \in Seq(Records) /\ active \in [Workers -> Records \cup {NoTask}] /\ closed = FALSE
    OBVIOUS
  <2>5. requested \in Seq(Records) /\ python = "none" /\ gil = Nobody /\ daemons \subseteq PyThreads
    OBVIOUS
  <2> QED
    BY <2>1, <2>2, <2>3, <2>4, <2>5 DEF TypeOK, Pool!PoolTypeOK
<1>2. GilInv
  BY DEF GilInv
<1>3. LockInv
  BY DEF LockInv
<1>4. WorkerInv
  BY DEF WorkerInv
<1> QED
  BY <1>1, <1>2, <1>3, <1>4 DEF IInv

\* The first pass keeps the types of the pool and of PACT.
LEMMA FirstPassTypes ==
  ASSUME TypeOK, NEW r \in Records, FirstPass(r)
  PROVE  pact' \in [Records -> BOOLEAN] /\ Pool!PoolTypeOK'
<1>1. CASE pact[r]
  BY <1>1 DEF FirstPass, TypeOK, Pool!PoolTypeOK, pool
<1>2. CASE ~pact[r] /\ Pool!Submit(r)
  <2>1. pact' = [pact EXCEPT ![r] = TRUE]
    BY <1>2 DEF FirstPass
  <2> QED
    BY <1>2, <2>1 DEF TypeOK, Pool!PoolTypeOK, Pool!Submit
<1>3. CASE ~pact[r] /\ ~Pool!Submit(r)
  <2>1. pact' = [pact EXCEPT ![r] = TRUE] /\ UNCHANGED pool
    BY <1>3 DEF FirstPass
  <2> QED
    BY <2>1 DEF TypeOK, Pool!PoolTypeOK, pool
<1> QED
  BY <1>1, <1>2, <1>3

LEMMA StepInv == IInv /\ [Next]_vars => IInv'
<1> SUFFICES ASSUME IInv, [Next]_vars PROVE IInv'
  OBVIOUS
<1> USE LifecycleAssumption DEF IInv, Goes, Coders, Threads, pool, recVars
<1>1. ASSUME NEW t \in Coders, TakeGil(t) PROVE IInv'
  <2> USE <1>1 DEF TakeGil
  <2>1. TypeOK'
    BY DEF TypeOK, Pool!PoolTypeOK, Stages
  <2>2. GilInv'
    BY DEF TypeOK, GilInv, Stages
  <2>3. LockInv'
    BY DEF TypeOK, LockInv, Stages
  <2>4. WorkerInv'
    BY DEF TypeOK, Pool!PoolTypeOK, WorkerInv
  <2> QED
    BY <2>1, <2>2, <2>3, <2>4
<1>2. ASSUME NEW t \in Coders, Yield(t) PROVE IInv'
  <2> USE <1>2 DEF Yield
  <2>1. TypeOK'
    BY DEF TypeOK, Pool!PoolTypeOK, Stages
  <2>2. GilInv'
    BY DEF TypeOK, GilInv, Stages
  <2>3. LockInv'
    BY DEF TypeOK, LockInv, Stages
  <2>4. WorkerInv'
    BY DEF TypeOK, Pool!PoolTypeOK, WorkerInv
  <2> QED
    BY <2>1, <2>2, <2>3, <2>4
<1>3. ASSUME NEW t \in Coders, Push(t) PROVE IInv'
  <2> USE <1>3 DEF Push
  <2>1. TypeOK'
    BY DEF TypeOK, Pool!PoolTypeOK, Stages
  <2>2. GilInv'
    BY DEF TypeOK, GilInv, Stages
  <2>3. LockInv'
    BY DEF TypeOK, LockInv, Stages
  <2>4. WorkerInv'
    BY DEF TypeOK, Pool!PoolTypeOK, WorkerInv
  <2> QED
    BY <2>1, <2>2, <2>3, <2>4
<1>4. ASSUME NEW t \in Coders, PushReturns(t) PROVE IInv'
  <2> USE <1>4 DEF PushReturns
  <2>1. TypeOK'
    BY DEF TypeOK, Pool!PoolTypeOK, Stages
  <2>2. GilInv'
    BY DEF TypeOK, GilInv, Stages
  <2>3. LockInv'
    BY DEF TypeOK, LockInv, Stages
  <2>4. WorkerInv'
    BY DEF TypeOK, Pool!PoolTypeOK, WorkerInv
  <2> QED
    BY <2>1, <2>2, <2>3, <2>4
<1>5. ASSUME NEW t \in Coders, NEW p \in PyThreads, StartThread(t, p) PROVE IInv'
  <2> USE <1>5 DEF StartThread
  <2>1. TypeOK'
    BY DEF TypeOK, Pool!PoolTypeOK, Stages
  <2>2. GilInv'
    BY DEF TypeOK, GilInv, Stages
  <2>3. LockInv'
    BY DEF TypeOK, LockInv, Stages
  <2>4. WorkerInv'
    BY DEF TypeOK, Pool!PoolTypeOK, WorkerInv
  <2> QED
    BY <2>1, <2>2, <2>3, <2>4
<1>6. ASSUME NEW t \in Coders, NEW r \in Records, LockToPush(t, r) PROVE IInv'
  <2> USE <1>6 DEF LockToPush, Lock
  <2>1. TypeOK'
    BY DEF TypeOK, Pool!PoolTypeOK, Stages
  <2>2. GilInv'
    BY DEF TypeOK, GilInv, Stages
  <2>3. LockInv'
    BY DEF TypeOK, LockInv, Stages
  <2>4. WorkerInv'
    BY DEF TypeOK, Pool!PoolTypeOK, WorkerInv
  <2> QED
    BY <2>1, <2>2, <2>3, <2>4
<1>7. ASSUME NEW t \in Coders, NEW r \in Records, ProcessPushed(t, r) PROVE IInv'
  <2> USE <1>7 DEF ProcessPushed, FirstPass, Pool!Submit, Unlock
  <2>1. TypeOK'
    <3>1. pact' \in [Records -> BOOLEAN] /\ Pool!PoolTypeOK'
      BY FirstPassTypes
    <3>2. pc' \in [Threads -> Stages] /\ lock' \in [Records -> Threads \cup {Nobody}]
      BY DEF TypeOK, Stages
    <3> QED
      BY <3>1, <3>2 DEF TypeOK
  <2>2. GilInv'
    BY DEF TypeOK, GilInv, Stages
  <2>3. LockInv'
    BY DEF TypeOK, LockInv, Stages
  <2>4. WorkerInv'
    BY DEF TypeOK, Pool!PoolTypeOK, WorkerInv
  <2> QED
    BY <2>1, <2>2, <2>3, <2>4
<1>8. ASSUME NEW r \in Records, LockToScan(r) PROVE IInv'
  <2> USE <1>8 DEF LockToScan, Lock
  <2>1. TypeOK'
    BY DEF TypeOK, Pool!PoolTypeOK, Stages
  <2>2. GilInv'
    BY DEF TypeOK, GilInv, Stages
  <2>3. LockInv'
    BY DEF TypeOK, LockInv, Stages
  <2>4. WorkerInv'
    BY DEF TypeOK, Pool!PoolTypeOK, WorkerInv
  <2> QED
    BY <2>1, <2>2, <2>3, <2>4
<1>9. ASSUME NEW r \in Records, ProcessScanned(r) PROVE IInv'
  <2> USE <1>9 DEF ProcessScanned, FirstPass, Pool!Submit, Unlock
  <2>1. TypeOK'
    <3>1. pact' \in [Records -> BOOLEAN] /\ Pool!PoolTypeOK'
      BY FirstPassTypes
    <3>2. pc' \in [Threads -> Stages] /\ lock' \in [Records -> Threads \cup {Nobody}]
      BY DEF TypeOK, Stages
    <3> QED
      BY <3>1, <3>2 DEF TypeOK
  <2>2. GilInv'
    BY DEF TypeOK, GilInv, Stages
  <2>3. LockInv'
    BY DEF TypeOK, LockInv, Stages
  <2>4. WorkerInv'
    BY DEF TypeOK, Pool!PoolTypeOK, WorkerInv
  <2> QED
    BY <2>1, <2>2, <2>3, <2>4
<1>10. ASSUME NEW r \in Records, LockToComplete(r) PROVE IInv'
  <2> USE <1>10 DEF LockToComplete, Lock
  <2>1. TypeOK'
    BY DEF TypeOK, Pool!PoolTypeOK, Stages
  <2>2. GilInv'
    BY DEF TypeOK, GilInv, Stages
  <2>3. LockInv'
    BY DEF TypeOK, LockInv, Stages
  <2>4. WorkerInv'
    BY DEF TypeOK, Pool!PoolTypeOK, WorkerInv
  <2> QED
    BY <2>1, <2>2, <2>3, <2>4
<1>11. ASSUME NEW r \in Records, ProcessCompleted(r) PROVE IInv'
  <2> USE <1>11 DEF ProcessCompleted, Unlock
  <2>1. TypeOK'
    <3>1. requested' \in Seq(Records)
      BY DEF TypeOK, LockInv
    <3>2. pc' \in [Threads -> Stages] /\ lock' \in [Records -> Threads \cup {Nobody}]
      BY DEF TypeOK, Stages
    <3>3. pact' \in [Records -> BOOLEAN]
      BY DEF TypeOK
    <3> QED
      BY <3>1, <3>2, <3>3 DEF TypeOK, Pool!PoolTypeOK
  <2>2. GilInv'
    BY DEF TypeOK, GilInv, Stages
  <2>3. LockInv'
    BY DEF TypeOK, LockInv, Stages
  <2>4. WorkerInv'
    BY DEF TypeOK, Pool!PoolTypeOK, WorkerInv
  <2> QED
    BY <2>1, <2>2, <2>3, <2>4
<1>12. ASSUME NEW w \in Workers, StartTask(w) PROVE IInv'
  <2> USE <1>12 DEF StartTask, Pool!Start
  <2>1. TypeOK'
    BY DEF TypeOK, Pool!PoolTypeOK, Stages
  <2>2. GilInv'
    BY DEF TypeOK, GilInv, Stages
  <2>3. LockInv'
    BY DEF TypeOK, LockInv, Stages
  <2>4. WorkerInv'
    BY DEF TypeOK, Pool!PoolTypeOK, WorkerInv
  <2> QED
    BY <2>1, <2>2, <2>3, <2>4
<1>13. ASSUME NEW w \in Workers, FinishTask(w) PROVE IInv'
  <2> USE <1>13 DEF FinishTask, CodeReturns, Pool!Finish
  <2>1. TypeOK'
    <3>1. active[w] \in Records /\ Pool!PoolTypeOK'
      BY DEF TypeOK, Pool!PoolTypeOK
    <3>2. CASE requested' = Append(requested, active[w]) /\ dropped' = dropped
      BY <3>1, <3>2 DEF TypeOK, Stages
    <3>3. CASE requested' = requested /\ dropped' = dropped \cup {active[w]}
      BY <3>1, <3>3 DEF TypeOK, Stages
    <3> QED
      BY <3>2, <3>3
  <2>2. GilInv'
    BY DEF TypeOK, GilInv, Stages
  <2>3. LockInv'
    BY DEF TypeOK, LockInv, Stages
  <2>4. WorkerInv'
    BY DEF TypeOK, Pool!PoolTypeOK, WorkerInv
  <2> QED
    BY <2>1, <2>2, <2>3, <2>4
<1>14. ASSUME NEW w \in Workers, StopWorker(w) PROVE IInv'
  <2> USE <1>14 DEF StopWorker
  <2>1. TypeOK'
    BY DEF TypeOK, Pool!PoolTypeOK, Stages
  <2>2. GilInv'
    BY DEF TypeOK, GilInv, Stages
  <2>3. LockInv'
    BY DEF TypeOK, LockInv, Stages
  <2>4. WorkerInv'
    BY DEF TypeOK, Pool!PoolTypeOK, WorkerInv
  <2> QED
    BY <2>1, <2>2, <2>3, <2>4
<1>15. ASSUME NEW p \in PyThreads, ThreadEnds(p) PROVE IInv'
  <2> USE <1>15 DEF ThreadEnds, CodeReturns
  <2>1. TypeOK'
    BY DEF TypeOK, Pool!PoolTypeOK, Stages
  <2>2. GilInv'
    BY DEF TypeOK, GilInv, Stages
  <2>3. LockInv'
    BY DEF TypeOK, LockInv, Stages
  <2>4. WorkerInv'
    BY DEF TypeOK, Pool!PoolTypeOK, WorkerInv
  <2> QED
    BY <2>1, <2>2, <2>3, <2>4
<1>16. ASSUME Initialize \/ ShellCommand \/ CommandReturns \/ Exit \/ JoinWorkers \/ RestoreThread PROVE IInv'
  <2> USE <1>16 DEF Initialize, ShellCommand, CommandReturns, CodeReturns, Exit, JoinWorkers, Pool!Close, RestoreThread
  <2>1. TypeOK'
    BY DEF TypeOK, Pool!PoolTypeOK, Stages
  <2>2. GilInv'
    BY DEF TypeOK, GilInv, Stages
  <2>3. LockInv'
    BY DEF TypeOK, LockInv, Stages
  <2>4. WorkerInv'
    BY DEF TypeOK, Pool!PoolTypeOK, WorkerInv
  <2> QED
    BY <2>1, <2>2, <2>3, <2>4
<1>17. ASSUME Finalize PROVE IInv'
  <2> USE <1>17 DEF Finalize
  <2>1. TypeOK'
    BY DEF TypeOK, Pool!PoolTypeOK, Stages
  <2>2. GilInv'
    BY DEF TypeOK, GilInv, Stages
  <2>3. LockInv'
    BY DEF TypeOK, LockInv, Stages
  <2>4. WorkerInv'
    BY DEF TypeOK, Pool!PoolTypeOK, WorkerInv
  <2> QED
    BY <2>1, <2>2, <2>3, <2>4
<1>18. CASE UNCHANGED vars
  BY <1>18 DEF vars, TypeOK, Pool!PoolTypeOK, GilInv, LockInv, WorkerInv
<1> QED
  BY <1>1, <1>2, <1>3, <1>4, <1>5, <1>6, <1>7, <1>8, <1>9, <1>10, <1>11, <1>12, <1>13, <1>14, <1>15, <1>16, <1>17, <1>18 DEF Next, MainStep, Coding, Processing

\* The strengthened invariant holds in every reachable state.
THEOREM Invariance == Spec => []IInv
BY InitInv, StepInv, PTL DEF Spec

\* Every thread, lock and queue of the IOC keeps its type.
THEOREM TypeCorrect == Spec => []TypeOK
<1>1. IInv => TypeOK
  BY DEF IInv
<1> QED
  BY Invariance, <1>1, PTL

\* Whoever holds a record's lock neither waits for the GIL nor for another lock, so pushes under
\* the GIL and evaluations that take it cannot wait for each other (pywrapper.cpp:23, 114).
THEOREM NoLockIsHeldWaiting == Spec => []LocksAreShort
<1>1. IInv => LocksAreShort
  BY DEF IInv, GilInv, LockInv, LocksAreShort
<1> QED
  BY Invariance, <1>1, PTL

\* Py_Finalize finds no worker and nobody inside pydev.iointr, and leaves no lock behind
\* (epicsdevice.cpp:37-38).
THEOREM InterpreterEndsAlone == Spec => []FinalizedAlone
<1>1. IInv => FinalizedAlone
  <2> SUFFICES ASSUME IInv, python = "finalized"
               PROVE  /\ \A w \in Workers : pc[w] = "ended" /\ active[w] = NoTask
                      /\ \A t \in Coders : pc[t] \notin {"code", "scan", "process"}
                      /\ \A r \in Records : lock[r] \notin Coders
    BY DEF FinalizedAlone
  <2>1. gil = Main /\ pc[Main] = "down"
    BY DEF IInv, GilInv
  <2>2. \A w \in Workers : pc[w] = "ended" /\ active[w] = NoTask
    BY <2>1 DEF IInv, WorkerInv
  <2>3. \A t \in Coders : pc[t] \notin {"code", "scan", "process"}
    BY <2>1 DEF IInv, GilInv
  <2>4. \A r \in Records : lock[r] \notin Coders
    BY <2>3, LifecycleAssumption DEF IInv, LockInv, Threads
  <2> QED
    BY <2>2, <2>3, <2>4
<1> QED
  BY Invariance, <1>1, PTL
=============================================================================

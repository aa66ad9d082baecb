------------------------- MODULE AsyncRecordProofs -------------------------
(***************************************************************************)
(* Theorems about AsyncRecord for any records, any number of workers and   *)
(* any size of the callback queue.  The four places where the evaluation   *)
(* of a busy record can be are named predicates; IInv says that exactly    *)
(* one of them holds, and that an alarm which is raised and not yet        *)
(* published belongs to an evaluation that has failed and not completed.   *)
(***************************************************************************)
EXTENDS AsyncRecord, FiniteSetTheorems, FunctionTheorems, TLAPS

-----------------------------------------------------------------------------
(* The inductive invariant.                                                  *)

Begun(r) == pass[r] = "begun"
InQueue(r) == \E i \in DOMAIN pending : pending[i] = r
InWorker(r) == \E w \in Workers : Evaluating(w, r)
CalledBack(r) == callbacks[r] > 0

\* A record is busy exactly while its evaluation, unless it is stranded, is in one place.
PlaceInv ==
  \A r \in Records :
    /\ Begun(r) \/ InQueue(r) \/ InWorker(r) \/ CalledBack(r) <=> pact[r] /\ stranded[r] = "no"
    /\ Begun(r) => ~InQueue(r) /\ ~InWorker(r) /\ ~CalledBack(r)
    /\ InQueue(r) => ~InWorker(r) /\ ~CalledBack(r)
    /\ InWorker(r) => ~CalledBack(r)
    /\ stranded[r] # "no" => pact[r]

\* And it is there only once.
UniqueInv ==
  /\ \A r \in Records : callbacks[r] <= 1
  /\ \A i, j \in DOMAIN pending : pending[i] = pending[j] => i = j
  /\ \A r \in Records, v, w \in Workers : Evaluating(v, r) /\ Evaluating(w, r) => v = w

\* The evaluation of the pass has ended.
Evaluated(r) ==
  \/ callbacks[r] > 0
  \/ stranded[r] = "dropped"
  \/ \E w \in Workers : active[w] = r /\ wst[w] = "request"

AlarmInv ==
  \A r \in Records :
    nsev[r] # "none" => nsev[r] = "CALC" /\ pact[r] /\ status[r] = "fail" /\ Evaluated(r)

\* EPICS has dropped more scans of this pass than it drops in silence.
Over(r) == lcnt[r] > MaxLock

\* The alarm of a failure is raised until the second pass, and published from then on, unless
\* scans of the busy record have published it too early.
LostInv ==
  \A r \in Records : status[r] = "fail" =>
    /\ pact[r] /\ Evaluated(r) => nsev[r] = "CALC" \/ Over(r)
    /\ ~pact[r] => alarm[r] = "CALC" \/ Over(r)

\* pycalc raises the alarm of a failure once more in the second pass.
PyCalcAlarm ==
  \A r \in PyCalc : ~pact[r] => (alarm[r] = "CALC" <=> status[r] = "fail")

PlaceUniqueInv == PlaceInv /\ UniqueInv
AlarmsInv == AlarmInv /\ PyCalcAlarm /\ NoStaleAlarm

IInv == TypeOK /\ PlaceUniqueInv /\ AlarmsInv /\ LostInv

-----------------------------------------------------------------------------
(* The kinds of steps, as far as the invariant can tell them apart.          *)

\* EPICS meets a busy record: at most its alarm is published.
Busy(r) ==
  /\ pact[r]
  /\ UNCHANGED <<poolState, wst, pass, pact, callbacks, stranded, status>>
  /\ \A x \in Records : Over(x) => Over(x)'
  /\ \/ UNCHANGED <<nsev, alarm>>
     \/ /\ nsev' = [nsev EXCEPT ![r] = "none"] /\ Over(r)'
        /\ \E a \in Alarms : alarm' = [alarm EXCEPT ![r] = a]

\* The second pass of either kind of record.
Completion(r) ==
  /\ SecondPass(r)
  /\ Publish(r, IF r \in PyCalc /\ status[r] = "fail" /\ nsev[r] = "none"
                  THEN "CALC" ELSE nsev[r])

LEMMA DropIsBusy == ASSUME TypeOK, NEW r \in Records, DropScan(r) PROVE Busy(r)
<1>1. \A x \in Records : lcnt[x] \in 0 .. MaxLock + 1
  BY DEF TypeOK
<1>2. /\ \A x \in Records : lcnt'[x] = lcnt[x] \/ (x = r /\ lcnt'[x] = lcnt[x] + 1)
      /\ lcnt[r] > MaxLock => lcnt'[r] = lcnt[r]
  BY DEF DropScan, TypeOK
<1>3. \A x \in Records : Over(x) => Over(x)'
  BY <1>1, <1>2, AsyncRecordAssumption DEF Over
<1>4. CASE UNCHANGED <<nsev, alarm>>
  BY <1>3, <1>4 DEF DropScan, Busy
<1>5. CASE ~(UNCHANGED <<nsev, alarm>>)
  <2>1. ~(lcnt[r] < MaxLock) /\ lcnt' = [lcnt EXCEPT ![r] = IF @ > MaxLock THEN @ ELSE @ + 1]
    BY <1>5 DEF DropScan
  <2>2. Over(r)'
    BY <1>1, <2>1, AsyncRecordAssumption DEF Over, TypeOK
  <2> QED
    BY <1>3, <1>5, <2>2 DEF DropScan, Busy, Publish, Alarms, TypeOK
<1> QED
  BY <1>4, <1>5

LEMMA StepKinds ==
  ASSUME TypeOK, [Next]_vars
  PROVE  \/ \E r \in Records : \/ Begin(r) \/ Busy(r) \/ ScheduleTask(r)
                               \/ FirstPassReturns(r) \/ Completion(r)
         \/ \E w \in Workers : \/ StartEval(w) \/ EvalOk(w) \/ EvalFail(w)
                               \/ RequestCallback(w) \/ EvalReturns(w)
         \/ ClosePool
         \/ UNCHANGED vars
<1>1. ASSUME NEW r \in Records, RecordStep(r)
      PROVE  Begin(r) \/ Busy(r) \/ ScheduleTask(r) \/ FirstPassReturns(r) \/ Completion(r)
  <2>1. CASE Process(r)
    BY <2>1 DEF Process
  <2>2. CASE ProcessBusy(r)
    BY <2>2, DropIsBusy DEF ProcessBusy
  <2>3. CASE Put(r)
    BY <2>3 DEF Put, Busy, Over, alarmVars
  <2>4. CASE ProcessOnce(r)
    BY <2>4, DropIsBusy DEF ProcessOnce
  <2>5. CASE CompleteDevice(r)
    BY <2>5 DEF CompleteDevice, Completion
  <2>6. CASE CompletePyCalc(r)
    BY <2>6 DEF CompletePyCalc, Completion
  <2> QED
    BY <1>1, <2>1, <2>2, <2>3, <2>4, <2>5, <2>6 DEF RecordStep
<1> QED
  BY <1>1 DEF Next, WorkerStep

\* What StartEval does to the queue, index by index.
LEMMA StartFacts ==
  ASSUME TypeOK, NEW w \in Workers, StartEval(w)
  PROVE  /\ active[w] = NoRecord
         /\ wst[w] = "idle"
         /\ 1 \in DOMAIN pending
         /\ pending[1] \in Records
         /\ active' = [active EXCEPT ![w] = pending[1]]
         /\ wst' = [wst EXCEPT ![w] = "eval"]
         /\ pending' \in Seq(Records)
         /\ \A i \in DOMAIN pending' : i + 1 \in DOMAIN pending /\ pending'[i] = pending[i + 1] /\ i + 1 # 1
         /\ \A i \in DOMAIN pending : i # 1 => i - 1 \in DOMAIN pending' /\ pending'[i - 1] = pending[i]
         /\ UNCHANGED <<closed, recVars, alarmVars>>
<1>1. /\ pending \in Seq(Records) /\ pending # <<>> /\ pending' = Tail(pending)
      /\ active' = [active EXCEPT ![w] = Head(pending)] /\ active[w] = NoRecord
      /\ wst' = [wst EXCEPT ![w] = "eval"]
      /\ UNCHANGED <<closed, recVars, alarmVars>>
  BY DEF StartEval, Pool!Start, TypeOK, Pool!PoolTypeOK
<1>2. Len(pending) \in Nat \ {0} /\ DOMAIN pending = 1 .. Len(pending)
  BY <1>1
<1>3. /\ pending' \in Seq(Records) /\ DOMAIN pending' = 1 .. Len(pending) - 1
      /\ \A i \in DOMAIN pending' : pending'[i] = pending[i + 1]
  BY <1>1, <1>2
<1>4. pending[1] \in Records /\ Head(pending) = pending[1]
  BY <1>1, <1>2
<1>5. wst[w] = "idle"
  BY <1>1 DEF TypeOK
<1>6. \A i \in DOMAIN pending' : i + 1 \in DOMAIN pending /\ i + 1 # 1
  BY <1>2, <1>3
<1>7. \A i \in DOMAIN pending : i # 1 => i - 1 \in DOMAIN pending' /\ pending'[i - 1] = pending[i]
  BY <1>2, <1>3
<1> QED
  BY <1>1, <1>2, <1>3, <1>4, <1>5, <1>6, <1>7

\* What a submission does to the queue, index by index.
LEMMA SubmitFacts ==
  ASSUME TypeOK, NEW r \in Records, Pool!Submit(r)
  PROVE  /\ pending' \in Seq(Records)
         /\ \A i \in DOMAIN pending : i \in DOMAIN pending' /\ pending'[i] = pending[i]
         /\ \E n \in DOMAIN pending' : /\ pending'[n] = r
                                       /\ \A i \in DOMAIN pending' : i = n \/ i \in DOMAIN pending
         /\ UNCHANGED <<active, closed>>
<1>1. pending \in Seq(Records) /\ pending' = Append(pending, r) /\ UNCHANGED <<active, closed>>
  BY DEF Pool!Submit, TypeOK, Pool!PoolTypeOK
<1>2. Len(pending) \in Nat /\ DOMAIN pending = 1 .. Len(pending)
  BY <1>1
<1>3. /\ pending' \in Seq(Records) /\ DOMAIN pending' = 1 .. Len(pending) + 1
      /\ \A i \in DOMAIN pending : pending'[i] = pending[i]
      /\ pending'[Len(pending) + 1] = r
  BY <1>1, <1>2
<1>4. /\ Len(pending) + 1 \in DOMAIN pending'
      /\ \A i \in DOMAIN pending' : i = Len(pending) + 1 \/ i \in DOMAIN pending
      /\ \A i \in DOMAIN pending : i \in DOMAIN pending'
  BY <1>2, <1>3
<1> QED
  BY <1>1, <1>3, <1>4
-----------------------------------------------------------------------------
(* Types.                                                                    *)

LEMMA TypeStep == ASSUME TypeOK, [Next]_vars PROVE TypeOK'
<1> USE AsyncRecordAssumption
<1> USE DEF TypeOK, Pool!PoolTypeOK, Alarms, poolState, recVars, alarmVars
<1>1. ASSUME NEW r \in Records, Begin(r), UNCHANGED <<rpro, once>> PROVE TypeOK'
  BY <1>1 DEF Begin
<1>2. ASSUME NEW r \in Records, DropScan(r), once' \in [Records -> BOOLEAN] PROVE TypeOK'
  <2>1. lcnt' \in [Records -> 0 .. MaxLock + 1]
    <3> HIDE DEF TypeOK
    <3>1. lcnt' = lcnt \/ lcnt' = [lcnt EXCEPT ![r] = IF @ > MaxLock THEN @ ELSE @ + 1]
      BY <1>2 DEF DropScan
    <3>2. MaxLock \in Nat /\ lcnt \in [Records -> 0 .. MaxLock + 1]
      BY DEF TypeOK
    <3> QED
      BY <3>1, <3>2
  <2>2. nsev' \in [Records -> Alarms] /\ alarm' \in [Records -> Alarms]
    <3> HIDE DEF TypeOK, Alarms
    <3>1. "none" \in Alarms /\ nsev \in [Records -> Alarms] /\ alarm \in [Records -> Alarms]
      BY DEF TypeOK, Alarms
    <3> QED
      BY <1>2, DropIsBusy, <3>1 DEF Busy
  <2> QED
    BY <1>2, <2>1, <2>2 DEF DropScan
<1>3. ASSUME NEW r \in Records, RecordStep(r) PROVE TypeOK'
  <2>1. CASE Process(r)
    BY <2>1, <1>1 DEF Process
  <2>2. CASE ProcessBusy(r)
    BY <2>2, <1>2 DEF ProcessBusy
  <2>3. CASE Put(r)
    <3>1. CASE Begin(r)
      <4>1. Begin(r) /\ UNCHANGED <<rpro, once>>
        BY <2>3, <3>1 DEF Put, Begin
      <4> QED
        BY <4>1, <1>1
    <3>2. CASE ~Begin(r)
      <4>1. /\ UNCHANGED <<poolState, wst, pass, pact, callbacks, stranded, once, alarmVars>>
            /\ rpro' = [rpro EXCEPT ![r] = TRUE]
        BY <2>3, <3>2 DEF Put
      <4>2. rpro' \in [Records -> BOOLEAN]
        BY <4>1
      <4> QED
        BY <4>1, <4>2
    <3> QED
      BY <3>1, <3>2
  <2>4. CASE ProcessOnce(r)
    <3>1. CASE DropScan(r)
      BY <2>4, <3>1, <1>2 DEF ProcessOnce
    <3>2. CASE Begin(r)
      BY <2>4, <3>2 DEF ProcessOnce, Begin, DropScan
    <3> QED
      BY <2>4, <3>1, <3>2 DEF ProcessOnce
  <2>5. CASE ScheduleTask(r)
    <3>1. pending' \in Seq(Records) /\ active' = active /\ closed' = closed
      BY <2>5, SubmitFacts DEF ScheduleTask, Refused
    <3> QED
      BY <2>5, <3>1 DEF ScheduleTask, Refused
  <2>6. CASE FirstPassReturns(r)
    BY <2>6 DEF FirstPassReturns
  <2>7. CASE CompleteDevice(r)
    BY <2>7 DEF CompleteDevice, SecondPass, Publish, Reprocess
  <2>8. CASE CompletePyCalc(r)
    BY <2>8 DEF CompletePyCalc, SecondPass, Publish, Reprocess
  <2> QED
    BY <1>3, <2>1, <2>2, <2>3, <2>4, <2>5, <2>6, <2>7, <2>8 DEF RecordStep
<1>4. ASSUME NEW w \in Workers, WorkerStep(w) PROVE TypeOK'
  <2>1. CASE StartEval(w)
    <3>1. /\ active' = [active EXCEPT ![w] = pending[1]] /\ pending[1] \in Records
          /\ wst' = [wst EXCEPT ![w] = "eval"] /\ pending' \in Seq(Records)
          /\ UNCHANGED <<closed, recVars, alarmVars>>
      BY <2>1, StartFacts
    <3> QED
      BY <3>1
  <2>2. CASE EvalOk(w)
    BY <2>2 DEF EvalOk
  <2>3. CASE EvalFail(w)
    BY <2>3 DEF EvalFail
  <2>4. CASE RequestCallback(w)
    <3>1. /\ active[w] \in Records /\ wst[w] = "request"
          /\ wst' = [wst EXCEPT ![w] = "return"]
          /\ \/ callbacks' = [callbacks EXCEPT ![active[w]] = @ + 1] /\ UNCHANGED stranded
             \/ stranded' = [stranded EXCEPT ![active[w]] = "dropped"] /\ UNCHANGED callbacks
          /\ UNCHANGED <<poolState, pass, pact, rpro, once, alarmVars>>
      BY <2>4 DEF RequestCallback
    <3>2. callbacks' \in [Records -> Nat] /\ stranded' \in [Records -> {"no", "refused", "dropped"}]
      <4> HIDE DEF TypeOK
      <4>1. callbacks \in [Records -> Nat] /\ stranded \in [Records -> {"no", "refused", "dropped"}]
        BY DEF TypeOK
      <4> QED
        BY <3>1, <4>1
    <3>3. /\ wst' \in [Workers -> {"idle", "eval", "request", "return"}]
          /\ \A v \in Workers : wst'[v] = "idle" <=> active'[v] = NoRecord
      BY <3>1
    <3> QED
      BY <3>1, <3>2, <3>3
  <2>5. CASE EvalReturns(w)
    BY <2>5 DEF EvalReturns, Pool!Finish
  <2> QED
    BY <1>4, <2>1, <2>2, <2>3, <2>4, <2>5 DEF WorkerStep
<1>5. CASE ClosePool
  BY <1>5 DEF ClosePool, Pool!Close
<1>6. CASE UNCHANGED vars
  BY <1>6 DEF vars
<1> QED
  BY <1>3, <1>4, <1>5, <1>6 DEF Next

-----------------------------------------------------------------------------
(* Where the evaluation of a record is: for each kind of step, what becomes  *)
(* of the four places, for its record and for the others.                    *)

LEMMA BeginPlace ==
  ASSUME TypeOK, PlaceUniqueInv, NEW r \in Records, Begin(r)
  PROVE  PlaceUniqueInv'
<1>1. \A x \in Records : /\ InQueue(x)' <=> InQueue(x)
                         /\ InWorker(x)' <=> InWorker(x)
                         /\ CalledBack(x)' <=> CalledBack(x)
  BY DEF Begin, InQueue, InWorker, CalledBack, Evaluating, poolState
<1>2. \A x \in Records : Begun(x)' <=> x = r \/ Begun(x)
  BY DEF Begin, Begun, TypeOK
<1>3. ~Begun(r) /\ ~pact[r] /\ UNCHANGED stranded
  BY DEF Begin, Begun, Unlocked
<1>4. \A x \in Records : pact'[x] = IF x = r THEN TRUE ELSE pact[x]
  BY DEF Begin, TypeOK
<1>5. PlaceInv'
  BY <1>1, <1>2, <1>3, <1>4 DEF PlaceUniqueInv, PlaceInv
<1>6. UniqueInv'
  BY DEF Begin, PlaceUniqueInv, UniqueInv, Evaluating, poolState
<1> QED
  BY <1>5, <1>6 DEF PlaceUniqueInv

LEMMA SchedulePlace ==
  ASSUME TypeOK, PlaceUniqueInv, NEW r \in Records, ScheduleTask(r)
  PROVE  PlaceUniqueInv'
<1>1. \A x \in Records : /\ InWorker(x)' <=> InWorker(x)
                         /\ CalledBack(x)' <=> CalledBack(x)
  BY SubmitFacts DEF ScheduleTask, Refused, InWorker, CalledBack, Evaluating, poolState
<1>2. Begun(r) /\ \A x \in Records : Begun(x)' <=> x # r /\ Begun(x)
  BY DEF ScheduleTask, Begun, TypeOK
<1>3. UNCHANGED <<pact, wst, active, callbacks>>
  BY SubmitFacts DEF ScheduleTask, Refused, poolState
<1>4. CASE Pool!Submit(r) /\ UNCHANGED stranded
  <2>1. \A x \in Records : InQueue(x)' <=> x = r \/ InQueue(x)
    BY <1>4, SubmitFacts DEF InQueue
  <2>2. PlaceInv'
    BY <1>1, <1>2, <1>3, <1>4, <2>1 DEF PlaceUniqueInv, PlaceInv
  <2>3. ~InQueue(r)
    BY <1>2 DEF PlaceUniqueInv, PlaceInv
  <2>4. \A i, j \in DOMAIN pending' : pending'[i] = pending'[j] => i = j
    BY <1>4, <2>3, SubmitFacts DEF InQueue, PlaceUniqueInv, UniqueInv
  <2> QED
    BY <1>3, <2>2, <2>4 DEF PlaceUniqueInv, UniqueInv, Evaluating
<1>5. CASE Refused(r)
  <2>1. \A x \in Records : InQueue(x)' <=> InQueue(x)
    BY <1>5 DEF Refused, poolState, InQueue
  <2>2. \A x \in Records : stranded'[x] = IF x = r THEN "refused" ELSE stranded[x]
    BY <1>5 DEF Refused, TypeOK
  <2>3. PlaceInv'
    BY <1>1, <1>2, <1>3, <2>1, <2>2 DEF PlaceUniqueInv, PlaceInv
  <2> QED
    BY <1>3, <1>5, <2>3 DEF PlaceUniqueInv, UniqueInv, Evaluating, Refused, poolState
<1> QED
  BY <1>4, <1>5 DEF ScheduleTask

LEMMA CompletionPlace ==
  ASSUME TypeOK, PlaceUniqueInv, NEW r \in Records, Completion(r)
  PROVE  PlaceUniqueInv'
<1>1. \A x \in Records : /\ InQueue(x)' <=> InQueue(x)
                         /\ InWorker(x)' <=> InWorker(x)
                         /\ Begun(x)' <=> Begun(x)
  BY DEF Completion, SecondPass, InQueue, InWorker, Begun, Evaluating, poolState
<1>2. callbacks[r] = 1 /\ \A x \in Records : callbacks'[x] = IF x = r THEN 0 ELSE callbacks[x]
  BY DEF Completion, SecondPass, TypeOK, PlaceUniqueInv, UniqueInv
<1>3. CalledBack(r) /\ \A x \in Records : CalledBack(x)' <=> x # r /\ CalledBack(x)
  BY <1>2 DEF CalledBack
<1>4. UNCHANGED stranded /\ \A x \in Records : pact'[x] = IF x = r THEN FALSE ELSE pact[x]
  BY DEF Completion, SecondPass, TypeOK
<1>5. PlaceInv'
  BY <1>1, <1>3, <1>4 DEF PlaceUniqueInv, PlaceInv
<1>6. UniqueInv'
  BY <1>2 DEF Completion, SecondPass, PlaceUniqueInv, UniqueInv, Evaluating, poolState
<1> QED
  BY <1>5, <1>6 DEF PlaceUniqueInv

LEMMA StartPlace ==
  ASSUME TypeOK, PlaceUniqueInv, NEW w \in Workers, StartEval(w)
  PROVE  PlaceUniqueInv'
<1> DEFINE r == pending[1]
<1>1. r \in Records /\ InQueue(r) /\ UNCHANGED <<pass, pact, callbacks, stranded>>
  BY StartFacts DEF InQueue, recVars
<1>2. \A v \in Workers, x \in Records : Evaluating(v, x)' <=> Evaluating(v, x) \/ (v = w /\ x = r)
  BY StartFacts, AsyncRecordAssumption DEF Evaluating, TypeOK, Pool!PoolTypeOK
<1>3. \A x \in Records : InWorker(x)' <=> x = r \/ InWorker(x)
  BY <1>2 DEF InWorker
<1>4. \A x \in Records : InQueue(x)' <=> x # r /\ InQueue(x)
  BY StartFacts DEF InQueue, PlaceUniqueInv, UniqueInv
<1>5. \A x \in Records : (Begun(x)' <=> Begun(x)) /\ (CalledBack(x)' <=> CalledBack(x))
  BY <1>1 DEF Begun, CalledBack
<1>6. PlaceInv'
  BY <1>1, <1>3, <1>4, <1>5 DEF PlaceUniqueInv, PlaceInv
<1>7. \A i, j \in DOMAIN pending' : pending'[i] = pending'[j] => i = j
  <2> TAKE i, j \in DOMAIN pending'
  <2>1. i \in Int /\ j \in Int
    BY StartFacts
  <2>2. pending'[i] = pending'[j] => i + 1 = j + 1
    BY StartFacts DEF PlaceUniqueInv, UniqueInv
  <2> QED
    BY <2>1, <2>2
<1>8. \A x \in Records, u, v \in Workers : Evaluating(u, x)' /\ Evaluating(v, x)' => u = v
  <2>1. ~InWorker(r)
    BY <1>1 DEF PlaceUniqueInv, PlaceInv
  <2> QED
    BY <1>2, <2>1 DEF InWorker, PlaceUniqueInv, UniqueInv
<1> QED
  BY <1>1, <1>6, <1>7, <1>8 DEF PlaceUniqueInv, UniqueInv

LEMMA RequestPlace ==
  ASSUME TypeOK, PlaceUniqueInv, NEW w \in Workers, RequestCallback(w)
  PROVE  PlaceUniqueInv'
<1> DEFINE r == active[w]
<1>1. r \in Records /\ InWorker(r) /\ UNCHANGED <<pending, active, pass, pact>>
  BY DEF RequestCallback, InWorker, Evaluating, TypeOK, Pool!PoolTypeOK, poolState
<1>2. \A v \in Workers, x \in Records : Evaluating(v, x)' <=> v # w /\ Evaluating(v, x)
  BY <1>1 DEF RequestCallback, Evaluating, TypeOK
<1>3. \A x \in Records : InWorker(x)' <=> x # r /\ InWorker(x)
  <2>1. Evaluating(w, r) /\ \A v \in Workers : Evaluating(v, r) => v = w
    BY <1>1 DEF RequestCallback, Evaluating, PlaceUniqueInv, UniqueInv
  <2>2. \A x \in Records : Evaluating(w, x) => x = r
    BY DEF Evaluating
  <2> QED
    BY <1>2, <2>1, <2>2 DEF InWorker
<1>4. \A x \in Records : (Begun(x)' <=> Begun(x)) /\ (InQueue(x)' <=> InQueue(x))
  BY <1>1 DEF Begun, InQueue
<1>5. callbacks[r] = 0
  BY <1>1 DEF PlaceUniqueInv, PlaceInv, CalledBack, TypeOK
<1>6. CASE callbacks' = [callbacks EXCEPT ![r] = @ + 1] /\ UNCHANGED stranded
  <2>1. \A x \in Records : callbacks'[x] = IF x = r THEN 1 ELSE callbacks[x]
    BY <1>5, <1>6 DEF TypeOK
  <2>2. \A x \in Records : CalledBack(x)' <=> x = r \/ CalledBack(x)
    BY <2>1 DEF CalledBack
  <2>3. PlaceInv'
    BY <1>1, <1>3, <1>4, <1>6, <2>2 DEF PlaceUniqueInv, PlaceInv
  <2> QED
    BY <1>1, <1>2, <2>1, <2>3 DEF PlaceUniqueInv, UniqueInv
<1>7. CASE stranded' = [stranded EXCEPT ![r] = "dropped"] /\ UNCHANGED callbacks
  <2>1. \A x \in Records : stranded'[x] = IF x = r THEN "dropped" ELSE stranded[x]
    BY <1>7 DEF TypeOK
  <2>2. \A x \in Records : CalledBack(x)' <=> CalledBack(x)
    BY <1>7 DEF CalledBack
  <2>3. PlaceInv'
    BY <1>1, <1>3, <1>4, <2>1, <2>2 DEF PlaceUniqueInv, PlaceInv
  <2> QED
    BY <1>1, <1>2, <1>7, <2>3 DEF PlaceUniqueInv, UniqueInv
<1> QED
  BY <1>6, <1>7 DEF RequestCallback

\* The other steps of a worker move nothing, because Evaluating covers "eval" and "request".
LEMMA NoMovePlace ==
  ASSUME TypeOK, PlaceUniqueInv,
         UNCHANGED <<pending, pact, callbacks, stranded>>,
         \A x \in Records : Begun(x)' <=> Begun(x),
         \A v \in Workers, x \in Records : Evaluating(v, x)' <=> Evaluating(v, x)
  PROVE  PlaceUniqueInv'
<1>1. \A x \in Records : /\ InQueue(x)' <=> InQueue(x)
                         /\ InWorker(x)' <=> InWorker(x)
                         /\ CalledBack(x)' <=> CalledBack(x)
  BY DEF InQueue, InWorker, CalledBack
<1>2. PlaceInv'
  BY <1>1 DEF PlaceUniqueInv, PlaceInv
<1> QED
  BY <1>2 DEF PlaceUniqueInv, UniqueInv

LEMMA PlaceStep ==
  ASSUME TypeOK, PlaceUniqueInv, [Next]_vars
  PROVE  PlaceUniqueInv'
<1>1. ASSUME NEW r \in Records, Busy(r) PROVE PlaceUniqueInv'
  BY <1>1, NoMovePlace DEF Busy, Begun, Evaluating, poolState
<1>2. ASSUME NEW r \in Records, FirstPassReturns(r) PROVE PlaceUniqueInv'
  <2>1. \A x \in Records : Begun(x)' <=> Begun(x)
    BY <1>2 DEF FirstPassReturns, Begun, TypeOK
  <2> QED
    BY <1>2, <2>1, NoMovePlace DEF FirstPassReturns, Evaluating, poolState
<1>3. ASSUME NEW w \in Workers, EvalOk(w) \/ EvalFail(w) PROVE PlaceUniqueInv'
  <2>1. \A v \in Workers, x \in Records : Evaluating(v, x)' <=> Evaluating(v, x)
    BY <1>3 DEF EvalOk, EvalFail, Evaluating, TypeOK, poolState
  <2> QED
    BY <1>3, <2>1, NoMovePlace DEF EvalOk, EvalFail, Begun, poolState, recVars
<1>4. ASSUME NEW w \in Workers, EvalReturns(w) PROVE PlaceUniqueInv'
  <2>1. \A v \in Workers, x \in Records : Evaluating(v, x)' <=> Evaluating(v, x)
    BY <1>4 DEF EvalReturns, Pool!Finish, Evaluating, TypeOK, Pool!PoolTypeOK
  <2> QED
    BY <1>4, <2>1, NoMovePlace DEF EvalReturns, Pool!Finish, Begun, recVars
<1>5. ASSUME ClosePool PROVE PlaceUniqueInv'
  BY <1>5, NoMovePlace DEF ClosePool, Pool!Close, Begun, Evaluating, recVars
<1>6. ASSUME UNCHANGED vars PROVE PlaceUniqueInv'
  BY <1>6, NoMovePlace DEF vars, Begun, Evaluating, recVars, poolState
<1> QED
  BY StepKinds, BeginPlace, SchedulePlace, CompletionPlace, StartPlace, RequestPlace,
     <1>1, <1>2, <1>3, <1>4, <1>5, <1>6

-----------------------------------------------------------------------------
(* Whether the evaluation has ended, and whether the record is busy: what    *)
(* RecordCycle sees of a step.                                               *)

LEMMA BeginCycle ==
  ASSUME TypeOK, PlaceUniqueInv, NEW r \in Records, Begin(r)
  PROVE  /\ ~pact[r] /\ ~Evaluated(r)
         /\ \A x \in Records : Evaluated(x)' <=> Evaluated(x)
         /\ \A x \in Records : pact'[x] <=> x = r \/ pact[x]
<1>1. ~pact[r] /\ \A x \in Records : pact'[x] <=> x = r \/ pact[x]
  BY DEF Begin, TypeOK
<1>2. ~Evaluated(r)
  BY <1>1 DEF PlaceUniqueInv, PlaceInv, Evaluated, InWorker, CalledBack, Evaluating
<1> QED
  BY <1>1, <1>2 DEF Begin, Evaluated, poolState

LEMMA EvaluateCycle ==
  ASSUME TypeOK, PlaceUniqueInv, NEW w \in Workers, EvalOk(w) \/ EvalFail(w)
  PROVE  /\ active[w] \in Records /\ pact[active[w]] /\ ~Evaluated(active[w])
         /\ \A x \in Records : Evaluated(x)' <=> x = active[w] \/ Evaluated(x)
         /\ UNCHANGED pact
<1> DEFINE r == active[w]
<1>1. r \in Records /\ Evaluating(w, r) /\ InWorker(r)
  BY DEF EvalOk, EvalFail, InWorker, Evaluating, TypeOK, Pool!PoolTypeOK
<1>2. pact[r] /\ stranded[r] = "no" /\ ~CalledBack(r)
  BY <1>1 DEF PlaceUniqueInv, PlaceInv
<1>3. \A v \in Workers : active[v] = r => wst[v] # "request"
  BY <1>1 DEF EvalOk, EvalFail, Evaluating, PlaceUniqueInv, UniqueInv
<1>4. ~Evaluated(r)
  BY <1>2, <1>3 DEF Evaluated, CalledBack
<1>5. /\ UNCHANGED <<active, callbacks, stranded, pact>>
      /\ \A v \in Workers : wst'[v] = IF v = w THEN "request" ELSE wst[v]
      /\ wst[w] = "eval"
  BY DEF EvalOk, EvalFail, TypeOK, poolState, recVars
<1>6. \A x \in Records : Evaluated(x)' <=> x = r \/ Evaluated(x)
  BY <1>5 DEF Evaluated
<1> QED
  BY <1>1, <1>2, <1>4, <1>5, <1>6

LEMMA CompletionCycle ==
  ASSUME TypeOK, PlaceUniqueInv, NEW r \in Records, Completion(r)
  PROVE  /\ pact[r] /\ Evaluated(r)
         /\ \A x \in Records \ {r} : Evaluated(x)' <=> Evaluated(x)
         /\ \A x \in Records : pact'[x] <=> x # r /\ pact[x]
<1>1. CalledBack(r) /\ Evaluated(r)
  BY DEF Completion, SecondPass, CalledBack, Evaluated
<1>2. pact[r]
  BY <1>1 DEF PlaceUniqueInv, PlaceInv
<1>3. /\ UNCHANGED <<active, wst, stranded>>
      /\ \A x \in Records \ {r} : callbacks'[x] = callbacks[x]
      /\ \A x \in Records : pact'[x] <=> x # r /\ pact[x]
  BY DEF Completion, SecondPass, TypeOK, poolState
<1> QED
  BY <1>1, <1>2, <1>3 DEF Evaluated

LEMMA ScheduleCycle ==
  ASSUME TypeOK, PlaceUniqueInv, NEW r \in Records, ScheduleTask(r)
  PROVE  UNCHANGED pact /\ \A x \in Records : Evaluated(x)' <=> Evaluated(x)
<1>1. UNCHANGED <<pact, active, wst, callbacks>>
  BY SubmitFacts DEF ScheduleTask, Refused, poolState
<1>2. Begun(r) /\ stranded[r] = "no"
  BY DEF ScheduleTask, Begun, PlaceUniqueInv, PlaceInv
<1>3. \A x \in Records : stranded'[x] = "dropped" <=> stranded[x] = "dropped"
  BY <1>2 DEF ScheduleTask, Refused, TypeOK
<1> QED
  BY <1>1, <1>3 DEF Evaluated

LEMMA StartCycle ==
  ASSUME TypeOK, NEW w \in Workers, StartEval(w)
  PROVE  UNCHANGED pact /\ \A x \in Records : Evaluated(x)' <=> Evaluated(x)
<1>1. /\ UNCHANGED <<pact, callbacks, stranded>>
      /\ \A v \in Workers : v # w => active'[v] = active[v] /\ wst'[v] = wst[v]
      /\ wst[w] = "idle" /\ wst'[w] = "eval"
  BY StartFacts DEF TypeOK, Pool!PoolTypeOK, recVars
<1> QED
  BY <1>1 DEF Evaluated

LEMMA RequestCycle ==
  ASSUME TypeOK, PlaceUniqueInv, NEW w \in Workers, RequestCallback(w)
  PROVE  UNCHANGED pact /\ \A x \in Records : Evaluated(x)' <=> Evaluated(x)
<1> DEFINE r == active[w]
<1>1. /\ r \in Records /\ wst[w] = "request"
      /\ \A v \in Workers : wst'[v] = IF v = w THEN "return" ELSE wst[v]
      /\ UNCHANGED <<active, pact>>
  BY DEF RequestCallback, TypeOK, Pool!PoolTypeOK, poolState
<1>2. Evaluating(w, r) /\ InWorker(r) /\ Evaluated(r)
  BY <1>1 DEF Evaluating, InWorker, Evaluated
<1>3. \/ /\ \A x \in Records : callbacks'[x] = IF x = r THEN callbacks[r] + 1 ELSE callbacks[x]
         /\ UNCHANGED stranded
      \/ /\ \A x \in Records : stranded'[x] = IF x = r THEN "dropped" ELSE stranded[x]
         /\ UNCHANGED callbacks
  BY <1>1 DEF RequestCallback, TypeOK
<1>4. callbacks[r] \in Nat
  BY <1>1 DEF TypeOK
<1>5. Evaluated(r)'
  BY <1>1, <1>3, <1>4 DEF Evaluated
<1>6. \A x \in Records \ {r} : Evaluated(x)' <=> Evaluated(x)
  BY <1>1, <1>3 DEF Evaluated
<1> QED
  BY <1>1, <1>2, <1>5, <1>6

LEMMA QuietCycle ==
  ASSUME TypeOK,
         \/ \E r \in Records : Busy(r) \/ FirstPassReturns(r)
         \/ \E w \in Workers : EvalReturns(w)
         \/ ClosePool
         \/ UNCHANGED vars
  PROVE  UNCHANGED pact /\ \A x \in Records : Evaluated(x)' <=> Evaluated(x)
<1>1. CASE \E r \in Records : Busy(r) \/ FirstPassReturns(r)
  BY <1>1 DEF Busy, FirstPassReturns, Evaluated, poolState
<1>2. CASE \E w \in Workers : EvalReturns(w)
  <2>1. PICK w \in Workers : EvalReturns(w)
    BY <1>2
  <2>2. /\ UNCHANGED <<pact, callbacks, stranded>>
        /\ \A v \in Workers : v # w => active'[v] = active[v] /\ wst'[v] = wst[v]
        /\ wst[w] = "return" /\ wst'[w] = "idle"
    BY <2>1 DEF EvalReturns, Pool!Finish, TypeOK, Pool!PoolTypeOK, recVars
  <2> QED
    BY <2>2 DEF Evaluated
<1>3. CASE ClosePool \/ UNCHANGED vars
  BY <1>3 DEF ClosePool, Pool!Close, vars, Evaluated, recVars, poolState
<1> QED
  BY <1>1, <1>2, <1>3

-----------------------------------------------------------------------------
(* The alarms.                                                               *)

\* A step that raises no alarm, publishes at most that of a busy record and ends no pass.
LEMMA QuietAlarms ==
  ASSUME TypeOK, AlarmsInv, UNCHANGED status,
         \A x \in Records : pact[x] => pact'[x],
         \A x \in Records : Evaluated(x) => Evaluated(x)',
         \A x \in Records : nsev'[x] = nsev[x] \/ nsev'[x] = "none",
         \A x \in Records : ~pact'[x] => alarm'[x] = alarm[x]
  PROVE  AlarmsInv'
<1>1. AlarmInv'
  BY DEF AlarmsInv, AlarmInv
<1>2. \A x \in Records : ~pact'[x] => ~pact[x] /\ alarm'[x] = alarm[x] /\ status'[x] = status[x]
  OBVIOUS
<1>3. PyCalcAlarm' /\ NoStaleAlarm'
  BY <1>2, AsyncRecordAssumption DEF AlarmsInv, PyCalcAlarm, NoStaleAlarm
<1> QED
  BY <1>1, <1>3 DEF AlarmsInv

LEMMA AlarmsStep ==
  ASSUME TypeOK, PlaceUniqueInv, AlarmsInv, [Next]_vars
  PROVE  AlarmsInv'
<1>1. ASSUME NEW r \in Records, Begin(r) PROVE AlarmsInv'
  <2>1. UNCHANGED <<status, nsev, alarm>>
    BY <1>1 DEF Begin
  <2> QED
    BY <1>1, <2>1, BeginCycle, QuietAlarms
<1>2. ASSUME NEW r \in Records, Busy(r) PROVE AlarmsInv'
  <2>1. /\ UNCHANGED <<status, pact>> /\ pact[r]
        /\ \A x \in Records : nsev'[x] = nsev[x] \/ nsev'[x] = "none"
        /\ \A x \in Records : x # r => alarm'[x] = alarm[x]
    BY <1>2 DEF Busy, TypeOK
  <2> QED
    BY <1>2, <2>1, QuietCycle, QuietAlarms
<1>3. ASSUME NEW r \in Records, ScheduleTask(r) PROVE AlarmsInv'
  <2>1. UNCHANGED <<status, nsev, alarm>>
    BY <1>3 DEF ScheduleTask, alarmVars
  <2> QED
    BY <1>3, <2>1, ScheduleCycle, QuietAlarms
<1>4. ASSUME NEW r \in Records, FirstPassReturns(r) PROVE AlarmsInv'
  <2>1. UNCHANGED <<status, nsev, alarm>>
    BY <1>4 DEF FirstPassReturns, alarmVars
  <2> QED
    BY <1>4, <2>1, QuietCycle, QuietAlarms
<1>5. ASSUME NEW r \in Records, Completion(r) PROVE AlarmsInv'
  <2> DEFINE new == IF r \in PyCalc /\ status[r] = "fail" /\ nsev[r] = "none" THEN "CALC" ELSE nsev[r]
  <2>1. /\ UNCHANGED status
        /\ \A x \in Records : nsev'[x] = IF x = r THEN "none" ELSE nsev[x]
        /\ \A x \in Records : alarm'[x] = IF x = r THEN new ELSE alarm[x]
    BY <1>5 DEF Completion, SecondPass, Publish, TypeOK
  <2>2. AlarmInv'
    BY <1>5, <2>1, CompletionCycle DEF AlarmsInv, AlarmInv
  <2>3. nsev[r] # "none" => nsev[r] = "CALC" /\ status[r] = "fail"
    BY DEF AlarmsInv, AlarmInv
  <2>4. PyCalcAlarm'
    BY <1>5, <2>1, <2>3, CompletionCycle, AsyncRecordAssumption DEF AlarmsInv, PyCalcAlarm
  <2>5. NoStaleAlarm'
    BY <1>5, <2>1, <2>3, CompletionCycle DEF AlarmsInv, NoStaleAlarm
  <2> QED
    BY <2>2, <2>4, <2>5 DEF AlarmsInv
<1>6. ASSUME NEW w \in Workers, StartEval(w) PROVE AlarmsInv'
  <2>1. UNCHANGED <<status, nsev, alarm>>
    BY <1>6, StartFacts DEF alarmVars
  <2> QED
    BY <1>6, <2>1, StartCycle, QuietAlarms
<1>7. ASSUME NEW w \in Workers, EvalOk(w) \/ EvalFail(w) PROVE AlarmsInv'
  <2> DEFINE r == active[w]
  <2>1. /\ r \in Records /\ pact[r] /\ ~Evaluated(r) /\ nsev[r] = "none"
        /\ \A x \in Records : Evaluated(x)' <=> x = r \/ Evaluated(x)
        /\ UNCHANGED pact
    BY <1>7, EvaluateCycle DEF AlarmsInv, AlarmInv
  <2>2. /\ UNCHANGED alarm
        /\ \A x \in Records : x # r => status'[x] = status[x] /\ nsev'[x] = nsev[x]
        /\ nsev'[r] = "none" \/ (nsev'[r] = "CALC" /\ status'[r] = "fail")
    BY <1>7, <2>1 DEF EvalOk, EvalFail, TypeOK
  <2>3. AlarmInv'
    BY <2>1, <2>2 DEF AlarmsInv, AlarmInv
  <2>4. PyCalcAlarm' /\ NoStaleAlarm'
    BY <2>1, <2>2, AsyncRecordAssumption DEF AlarmsInv, PyCalcAlarm, NoStaleAlarm
  <2> QED
    BY <2>3, <2>4 DEF AlarmsInv
<1>8. ASSUME NEW w \in Workers, RequestCallback(w) PROVE AlarmsInv'
  <2>1. UNCHANGED <<status, nsev, alarm>>
    BY <1>8 DEF RequestCallback, alarmVars
  <2> QED
    BY <1>8, <2>1, RequestCycle, QuietAlarms
<1>9. ASSUME (\E w \in Workers : EvalReturns(w)) \/ ClosePool \/ UNCHANGED vars PROVE AlarmsInv'
  <2>1. UNCHANGED <<status, nsev, alarm>>
    BY <1>9 DEF EvalReturns, ClosePool, vars, alarmVars
  <2> QED
    BY <1>9, <2>1, QuietCycle, QuietAlarms
<1> QED
  BY StepKinds, <1>1, <1>2, <1>3, <1>4, <1>5, <1>6, <1>7, <1>8, <1>9

\* A step that neither evaluates nor completes, and takes no alarm away without a trace.
LEMMA QuietLost ==
  ASSUME LostInv, UNCHANGED <<status, pact>>,
         \A x \in Records : Evaluated(x)' <=> Evaluated(x),
         \A x \in Records : Over(x) => Over(x)',
         \A x \in Records : nsev'[x] = nsev[x] \/ Over(x)',
         \A x \in Records : ~pact[x] => alarm'[x] = alarm[x]
  PROVE  LostInv'
BY DEF LostInv

LEMMA LostStep ==
  ASSUME TypeOK, PlaceUniqueInv, AlarmsInv, LostInv, [Next]_vars
  PROVE  LostInv'
<1>1. ASSUME NEW r \in Records, Begin(r) PROVE LostInv'
  <2>1. /\ UNCHANGED <<status, nsev, alarm>>
        /\ \A x \in Records \ {r} : Over(x)' <=> Over(x)
    BY <1>1 DEF Begin, Over, TypeOK
  <2> QED
    BY <1>1, <2>1, BeginCycle DEF LostInv
<1>2. ASSUME NEW r \in Records, Busy(r) PROVE LostInv'
  <2>1. /\ UNCHANGED <<status, pact>> /\ pact[r]
        /\ \A x \in Records : Over(x) => Over(x)'
        /\ \A x \in Records : nsev'[x] = nsev[x] \/ Over(x)'
        /\ \A x \in Records : x # r => alarm'[x] = alarm[x]
    BY <1>2 DEF Busy, TypeOK
  <2> QED
    BY <1>2, <2>1, QuietCycle, QuietLost
<1>3. ASSUME UNCHANGED alarmVars, UNCHANGED pact,
             \A x \in Records : Evaluated(x)' <=> Evaluated(x)
      PROVE  LostInv'
  BY <1>3, QuietLost DEF alarmVars, Over
<1>4. ASSUME NEW r \in Records, ScheduleTask(r) \/ FirstPassReturns(r) PROVE LostInv'
  <2>1. UNCHANGED alarmVars
    BY <1>4 DEF ScheduleTask, FirstPassReturns
  <2> QED
    BY <1>3, <1>4, <2>1, ScheduleCycle, QuietCycle
<1>5. ASSUME NEW r \in Records, Completion(r) PROVE LostInv'
  <2>1. /\ UNCHANGED status
        /\ \A x \in Records : x # r => nsev'[x] = nsev[x] /\ alarm'[x] = alarm[x]
        /\ nsev[r] = "CALC" => alarm'[r] = "CALC"
        /\ \A x \in Records : Over(x)' <=> Over(x)
    BY <1>5 DEF Completion, SecondPass, Publish, Over, TypeOK
  <2> QED
    BY <1>5, <2>1, CompletionCycle DEF LostInv
<1>6. ASSUME NEW w \in Workers, StartEval(w) \/ RequestCallback(w) PROVE LostInv'
  <2>1. UNCHANGED alarmVars
    BY <1>6, StartFacts DEF RequestCallback
  <2> QED
    BY <1>3, <1>6, <2>1, StartCycle, RequestCycle
<1>7. ASSUME NEW w \in Workers, EvalOk(w) \/ EvalFail(w) PROVE LostInv'
  <2> DEFINE r == active[w]
  <2>1. /\ r \in Records /\ pact[r] /\ ~Evaluated(r) /\ nsev[r] = "none"
        /\ \A x \in Records : Evaluated(x)' <=> x = r \/ Evaluated(x)
        /\ UNCHANGED pact
    BY <1>7, EvaluateCycle DEF AlarmsInv, AlarmInv
  <2>2. /\ UNCHANGED alarm
        /\ \A x \in Records : x # r => status'[x] = status[x] /\ nsev'[x] = nsev[x]
        /\ status'[r] = "ok" \/ nsev'[r] = "CALC"
        /\ \A x \in Records : Over(x)' <=> Over(x)
    BY <1>7, <2>1 DEF EvalOk, EvalFail, Over, TypeOK
  <2> QED
    BY <2>1, <2>2 DEF LostInv
<1>8. ASSUME (\E w \in Workers : EvalReturns(w)) \/ ClosePool \/ UNCHANGED vars PROVE LostInv'
  <2>1. UNCHANGED alarmVars
    BY <1>8 DEF EvalReturns, ClosePool, vars
  <2> QED
    BY <1>3, <1>8, <2>1, QuietCycle
<1> QED
  BY StepKinds, <1>1, <1>2, <1>4, <1>5, <1>6, <1>7, <1>8

-----------------------------------------------------------------------------
(* The invariant, and what follows from it.                                  *)

LEMMA InitInv == Init => IInv
<1> SUFFICES ASSUME Init PROVE IInv
  OBVIOUS
<1>1. TypeOK
  <2>1. pending \in Seq(Records) /\ active \in [Workers -> Records \cup {NoRecord}]
    BY DEF Init, Pool!Init
  <2>2. \A w \in Workers : wst[w] = "idle" /\ active[w] = NoRecord
    BY DEF Init, Pool!Init
  <2>3. lcnt \in [Records -> 0 .. MaxLock + 1]
    BY AsyncRecordAssumption DEF Init
  <2> QED
    BY <2>1, <2>2, <2>3 DEF Init, Pool!Init, TypeOK, Pool!PoolTypeOK, Alarms
<1>2. PlaceUniqueInv
  BY DEF Init, Pool!Init, PlaceUniqueInv, PlaceInv, UniqueInv, Begun, InQueue, InWorker,
         CalledBack, Evaluating
<1>3. AlarmsInv
  BY AsyncRecordAssumption DEF Init, AlarmsInv, AlarmInv, PyCalcAlarm, NoStaleAlarm
<1>4. LostInv
  BY DEF Init, LostInv
<1> QED
  BY <1>1, <1>2, <1>3, <1>4 DEF IInv

LEMMA StepInv == IInv /\ [Next]_vars => IInv'
BY TypeStep, PlaceStep, AlarmsStep, LostStep DEF IInv

LEMMA Invariance == Spec => []IInv
BY InitInv, StepInv, PTL DEF Spec

\* Every variable keeps its type, for any records, workers and size of the callback queue.
THEOREM TypeCorrect == Spec => []TypeOK
<1>1. IInv => TypeOK
  BY DEF IInv
<1> QED
  BY <1>1, Invariance, PTL

LEMMA OneStage ==
  ASSUME TypeOK, PlaceUniqueInv PROVE OneToken
<1> SUFFICES ASSUME NEW r \in Records
             PROVE  /\ IF pact[r] /\ stranded[r] = "no"
                         THEN \E s \in Stages(r) : Stages(r) = {s} ELSE Stages(r) = {}
                    /\ stranded[r] # "no" => pact[r]
  BY DEF OneToken, PlaceUniqueInv, UniqueInv
<1>1. /\ "pass" \in Stages(r) <=> Begun(r)
      /\ "pending" \in Stages(r) <=> InQueue(r)
      /\ "worker" \in Stages(r) <=> InWorker(r)
      /\ "callback" \in Stages(r) <=> CalledBack(r)
      /\ Stages(r) \subseteq {"pass", "pending", "worker", "callback"}
  BY DEF Stages, Begun, InQueue, InWorker, CalledBack
<1>2. /\ Begun(r) \/ InQueue(r) \/ InWorker(r) \/ CalledBack(r) <=> pact[r] /\ stranded[r] = "no"
      /\ Begun(r) => ~InQueue(r) /\ ~InWorker(r) /\ ~CalledBack(r)
      /\ InQueue(r) => ~InWorker(r) /\ ~CalledBack(r)
      /\ InWorker(r) => ~CalledBack(r)
      /\ stranded[r] # "no" => pact[r]
  BY DEF PlaceUniqueInv, PlaceInv
<1>3. CASE pact[r] /\ stranded[r] = "no"
  <2>1. PICK s \in {"pass", "pending", "worker", "callback"} : s \in Stages(r)
    BY <1>1, <1>2, <1>3
  <2>2. Stages(r) = {s}
    BY <1>1, <1>2, <2>1
  <2> QED
    BY <1>3, <2>1, <2>2
<1>4. CASE ~(pact[r] /\ stranded[r] = "no")
  <2>1. Stages(r) = {}
    BY <1>1, <1>2, <1>4
  <2> QED
    BY <1>2, <1>4, <2>1
<1> QED
  BY <1>3, <1>4

\* PACT keeps the evaluations of a record apart: a busy record has its evaluation in exactly
\* one place, an idle one nowhere (processRecord and processRecordCb).
THEOREM OneEvaluation == Spec => []OneToken
<1>1. IInv => OneToken
  BY OneStage DEF IInv
<1> QED
  BY <1>1, Invariance, PTL

\* After an evaluation that succeeded no record at rest shows an alarm (processCbStatus, NSEV).
THEOREM SuccessClearsAlarm == Spec => []NoStaleAlarm
<1>1. IInv => NoStaleAlarm
  BY DEF IInv, AlarmsInv
<1> QED
  BY <1>1, Invariance, PTL

\* A failure shows as the CALC alarm at rest, in a device-support record unless more scans of the
\* busy record were dropped than EPICS drops in silence (processRecordCb raises, the second pass
\* publishes, and that of pycalc raises once more).
THEOREM FailureIsShown == Spec => []FailureShown
<1>1. IInv => FailureShown
  <2> SUFFICES ASSUME LostInv, PyCalcAlarm, NEW r \in Records, ~pact[r], status[r] = "fail"
               PROVE  alarm[r] = "CALC" \/ (r \notin PyCalc /\ lcnt[r] > MaxLock)
    BY DEF FailureShown, IInv, AlarmsInv
  <2>1. CASE r \in PyCalc
    BY <2>1 DEF PyCalcAlarm
  <2>2. CASE r \notin PyCalc
    BY <2>2 DEF LostInv, Over
  <2> QED
    BY <2>1, <2>2
<1> QED
  BY <1>1, Invariance, PTL

-----------------------------------------------------------------------------
(* Room in the callback queue.                                               *)

\* A record whose completion EPICS drops finds the callbacks of CbQueueSize other records queued,
\* none of which has been dropped.
LEMMA DropNeedsQueue ==
  ASSUME TypeOK, PlaceUniqueInv, IsFiniteSet(Records), NEW r \in Records, callbacks[r] = 0,
         stranded[r] # "dropped", ~(QueuedCallbacks < CbQueueSize)
  PROVE  Cardinality(Dropped \cup {r}) + CbQueueSize <= Cardinality(Records)
<1> DEFINE C == {c \in Records \X (1 .. CbQueueSize) : c[2] <= callbacks[c[1]]}
           Kept == Records \ (Dropped \cup {r})
           f == [c \in C |-> c[1]]
<1> USE AsyncRecordAssumption
<1>1. \A c \in C : c = <<c[1], 1>> /\ c[1] \in Kept
  <2> TAKE c \in C
  <2>1. c[1] \in Records /\ c[2] \in 1 .. CbQueueSize /\ c[2] <= callbacks[c[1]] /\ c = <<c[1], c[2]>>
    OBVIOUS
  <2>2. callbacks[c[1]] \in Nat /\ callbacks[c[1]] <= 1
    BY <2>1 DEF TypeOK, PlaceUniqueInv, UniqueInv
  <2>3. c[2] = 1 /\ callbacks[c[1]] = 1
    BY <2>1, <2>2
  <2>4. stranded[c[1]] = "no"
    BY <2>1, <2>3 DEF PlaceUniqueInv, PlaceInv, CalledBack
  <2> QED
    BY <2>1, <2>3, <2>4 DEF Dropped
<1>2. f \in Injection(C, Kept)
  <2>1. f \in [C -> Kept]
    BY <1>1
  <2>2. \A c, d \in C : f[c] = f[d] => c = d
    BY <1>1
  <2> QED
    BY <2>1, <2>2, Fun_IsInj
<1>3. IsFiniteSet(Dropped \cup {r}) /\ IsFiniteSet(Kept)
  BY FS_Subset DEF Dropped
<1>4. Cardinality(Kept) = Cardinality(Records) - Cardinality(Dropped \cup {r})
  <2>1. Records \cap (Dropped \cup {r}) = Dropped \cup {r}
    BY DEF Dropped
  <2> QED
    BY <2>1, FS_Difference
<1>5. IsFiniteSet(C) /\ Cardinality(C) <= Cardinality(Kept)
  BY <1>2, <1>3, FS_Injection
<1>6. Cardinality(C) \in Nat /\ Cardinality(Records) \in Nat /\ Cardinality(Dropped \cup {r}) \in Nat
  BY <1>3, <1>5, FS_CardinalityType
<1>7. CbQueueSize <= Cardinality(C)
  BY <1>6 DEF QueuedCallbacks
<1> QED
  BY <1>4, <1>5, <1>6, <1>7

LEMMA RoomStep ==
  ASSUME IsFiniteSet(Records), TypeOK, PlaceUniqueInv, DropsBounded, [Next]_vars
  PROVE  DropsBounded'
<1>1. ASSUME UNCHANGED stranded PROVE DropsBounded'
  BY <1>1 DEF DropsBounded, Dropped
<1>2. ASSUME NEW r \in Records, Begin(r) \/ Busy(r) \/ FirstPassReturns(r) \/ Completion(r)
      PROVE  UNCHANGED stranded
  BY <1>2 DEF Begin, Busy, FirstPassReturns, Completion, SecondPass
<1>3. ASSUME NEW w \in Workers, StartEval(w) \/ EvalOk(w) \/ EvalFail(w) \/ EvalReturns(w)
      PROVE  UNCHANGED stranded
  BY <1>3, StartFacts DEF EvalOk, EvalFail, EvalReturns, recVars
<1>4. ASSUME NEW r \in Records, ScheduleTask(r) PROVE DropsBounded'
  <2>1. Begun(r) /\ stranded[r] = "no"
    BY <1>4 DEF ScheduleTask, Begun, PlaceUniqueInv, PlaceInv
  <2>2. Dropped' = Dropped
    BY <1>4, <2>1 DEF ScheduleTask, Refused, Dropped, TypeOK
  <2> QED
    BY <2>2 DEF DropsBounded
<1>5. ASSUME NEW w \in Workers, RequestCallback(w) PROVE DropsBounded'
  <2>1. CASE QueuedCallbacks < CbQueueSize
    BY <1>1, <1>5, <2>1 DEF RequestCallback
  <2>2. CASE ~(QueuedCallbacks < CbQueueSize)
    <3> DEFINE r == active[w]
    <3>1. r \in Records /\ InWorker(r)
      BY <1>5 DEF RequestCallback, InWorker, Evaluating, TypeOK, Pool!PoolTypeOK
    <3>2. callbacks[r] = 0 /\ stranded[r] = "no"
      BY <3>1 DEF PlaceUniqueInv, PlaceInv, CalledBack, TypeOK
    <3>3. Dropped' = Dropped \cup {r}
      BY <1>5, <2>2, <3>1 DEF RequestCallback, Dropped, TypeOK
    <3> QED
      BY <2>2, <3>1, <3>2, <3>3, DropNeedsQueue DEF DropsBounded
  <2> QED
    BY <2>1, <2>2
<1>6. ASSUME ClosePool \/ UNCHANGED vars PROVE UNCHANGED stranded
  BY <1>6 DEF ClosePool, vars, recVars
<1> QED
  BY StepKinds, <1>1, <1>2, <1>3, <1>4, <1>5, <1>6

\* A callback queue with room for every record never drops a completion, and one with less room
\* strands no more records than it lacks places: PACT allows one callback per record, so the
\* unchecked result of callbackRequestProcessCallback does no more harm than that.
THEOREM CallbacksFit ==
  ASSUME IsFiniteSet(Records)
  PROVE  Spec => []DropsBounded
<1>1. Init => DropsBounded
  BY DEF Init, DropsBounded, Dropped
<1>2. IInv /\ DropsBounded /\ [Next]_vars => DropsBounded'
  BY RoomStep DEF IInv
<1> QED
  BY <1>1, <1>2, Invariance, PTL DEF Spec

-----------------------------------------------------------------------------
(* Refinement.                                                               *)

\* What RecordCycle sees of a record follows from PACT and from the end of the evaluation.
LEMMA CyclePhase ==
  cycle = [x \in Records |->
             IF ~pact[x] THEN "idle" ELSE IF Evaluated(x) THEN "evaluated" ELSE "waiting"]
BY DEF cycle, Evaluated

LEMMA CycleSame ==
  ASSUME UNCHANGED pact, \A x \in Records : Evaluated(x)' <=> Evaluated(x)
  PROVE  cycle' = cycle
BY CyclePhase DEF cycle, Evaluated

LEMMA InitRefines == Init => Cycle!Init
BY DEF Init, Cycle!Init, cycle

LEMMA StepRefines ==
  ASSUME TypeOK, PlaceUniqueInv, [Next]_vars
  PROVE  [Cycle!Next]_cycle
<1> DEFINE Phase(x) == IF ~pact[x] THEN "idle"
                       ELSE IF Evaluated(x) THEN "evaluated" ELSE "waiting"
<1>0. cycle = [x \in Records |-> Phase(x)] /\ cycle' = [x \in Records |-> Phase(x)']
  BY DEF cycle, Evaluated
<1>1. ASSUME NEW r \in Records, Begin(r) PROVE Cycle!Next
  <2>1. /\ Phase(r) = "idle" /\ Phase(r)' = "waiting"
        /\ \A x \in Records \ {r} : Phase(x)' = Phase(x)
    BY <1>1, BeginCycle
  <2> HIDE DEF Phase
  <2>2. cycle[r] = "idle" /\ cycle' = [cycle EXCEPT ![r] = "waiting"]
    BY <1>0, <2>1
  <2> QED
    BY <2>2 DEF Cycle!Next, Cycle!Begin, Cycle!Moves
<1>2. ASSUME NEW r \in Records, Completion(r) PROVE Cycle!Next
  <2>1. /\ Phase(r) = "evaluated" /\ Phase(r)' = "idle"
        /\ \A x \in Records \ {r} : Phase(x)' = Phase(x)
    BY <1>2, CompletionCycle
  <2> HIDE DEF Phase
  <2>2. cycle[r] = "evaluated" /\ cycle' = [cycle EXCEPT ![r] = "idle"]
    BY <1>0, <2>1
  <2> QED
    BY <2>2 DEF Cycle!Next, Cycle!Complete, Cycle!Moves
<1>3. ASSUME NEW w \in Workers, EvalOk(w) \/ EvalFail(w) PROVE Cycle!Next
  <2>0. PICK r \in Records : r = active[w]
    BY <1>3, EvaluateCycle
  <2>1. /\ Phase(r) = "waiting" /\ Phase(r)' = "evaluated"
        /\ \A x \in Records \ {r} : Phase(x)' = Phase(x)
    BY <1>3, <2>0, EvaluateCycle
  <2> HIDE DEF Phase
  <2>2. cycle[r] = "waiting" /\ cycle' = [cycle EXCEPT ![r] = "evaluated"]
    BY <1>0, <2>1
  <2> QED
    BY <2>2 DEF Cycle!Next, Cycle!Evaluate, Cycle!Moves
<1> QED
  BY StepKinds, ScheduleCycle, StartCycle, RequestCycle, QuietCycle, CycleSame, <1>1, <1>2, <1>3

\* Record processing implements RecordCycle: a pass runs the code exactly once and completes
\* after that, whatever scans, puts, a full callback queue or a closed pool do meanwhile.
THEOREM Refinement == Spec => CycleSpec
<1>1. IInv /\ [Next]_vars => [Cycle!Next]_cycle
  BY StepRefines DEF IInv
<1> QED
  BY InitRefines, <1>1, Invariance, PTL DEF Spec, CycleSpec, Cycle!Spec
=============================================================================

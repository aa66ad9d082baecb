--------------------------- MODULE EvaluationProofs ---------------------------
(***************************************************************************)
(* Theorems about the evaluation of a record's code: the code cache        *)
(* (CodeCache), for any set of sources, any of which may fail to compile;  *)
(* the interpreter that all records share (PyEval), for any number of      *)
(* workers, any records and any use of names in their codes; and the two   *)
(* together (Evaluation).                                                  *)
(***************************************************************************)
EXTENDS Evaluation, TLAPS

-----------------------------------------------------------------------------
(* CodeCache: ctx->code and ctx->bytecode.                                   *)

\* What each control point of processRecordCb knows of the cache.
CachePointInv ==
  /\ pc = "compile" => bytecode = Null
  /\ pc = "remember" => bytecode = want
  /\ pc = "eval" => code = want

CacheIInv == CacheTypeOK /\ CachePointInv /\ NoLeak /\ CacheCoherent /\ RunsWhatItRead

LEMMA CacheInitInv == CacheInit => CacheIInv
BY CodeCacheAssumption
   DEF CacheInit, CacheIInv, CacheTypeOK, CachePointInv, NoLeak, CacheCoherent, RunsWhatItRead

LEMMA CacheStepInv == CacheIInv /\ [CacheNext]_evalVars => CacheIInv'
<1> SUFFICES ASSUME CacheIInv, [CacheNext]_evalVars PROVE CacheIInv'
  OBVIOUS
<1> USE CodeCacheAssumption
    DEF CacheIInv, CacheTypeOK, CachePointInv, NoLeak, CacheCoherent, RunsWhatItRead, cacheVars
<1>1. ASSUME NEW c \in Codes, PutCalc(c) PROVE CacheIInv'
  BY <1>1 DEF PutCalc
<1>2. CASE ReadCalc
  BY <1>2 DEF ReadCalc
<1>3. CASE Compare
  <2>1. CASE code = want
    BY <1>3, <2>1 DEF Compare
  <2>2. CASE code # want /\ bytecode = Null
    BY <1>3, <2>2 DEF Compare, Release
  <2>3. CASE code # want /\ bytecode # Null
    <3>1. live' = [live EXCEPT ![bytecode] = 0]
      BY <1>3, <2>3 DEF Compare, Release
    <3> QED
      BY <1>3, <2>3, <3>1 DEF Compare
  <2> QED
    BY <2>1, <2>2, <2>3
<1>4. CASE Compile
  <2>1. CASE want \in Bad
    BY <1>4, <2>1 DEF Compile, Fail
  <2>2. CASE want \notin Bad
    <3>1. live' = [live EXCEPT ![want] = 1]
      BY <1>4, <2>2 DEF Compile
    <3> QED
      BY <1>4, <2>2, <3>1 DEF Compile
  <2> QED
    BY <2>1, <2>2
<1>5. CASE Remember
  BY <1>5 DEF Remember
<1>6. CASE Eval
  BY <1>6 DEF Eval, Fail
<1>7. CASE UNCHANGED evalVars
  BY <1>7 DEF evalVars
<1> QED
  BY <1>1, <1>2, <1>3, <1>4, <1>5, <1>6, <1>7 DEF CacheNext

\* The strengthened invariant holds in every reachable state.
THEOREM CacheInvariance == CacheSpec => []CacheIInv
BY CacheInitInv, CacheStepInv, PTL DEF CacheSpec

\* Every variable keeps its type, and a source has at most one code object alive (ByteCode).
THEOREM CacheTypeCorrect == CacheSpec => []CacheTypeOK
<1>1. CacheIInv => CacheTypeOK
  BY DEF CacheIInv
<1> QED
  BY CacheInvariance, <1>1, PTL

\* A record never executes an older version of its code than the one it read in this pass
\* (pycalcRecord.cpp:201-207).
THEOREM NeverRunsStaleCode == CacheSpec => []RunsWhatItRead
<1>1. CacheIInv => RunsWhatItRead
  BY DEF CacheIInv
<1> QED
  BY CacheInvariance, <1>1, PTL

\* Every code object but the one in ctx->bytecode has been released (pywrapper.cpp:483-488).
THEOREM NothingLeaks == CacheSpec => []NoLeak
<1>1. CacheIInv => NoLeak
  BY DEF CacheIInv
<1> QED
  BY CacheInvariance, <1>1, PTL

\* What the cache remembers is what it holds, whenever it holds something.
THEOREM CacheAgrees == CacheSpec => []CacheCoherent
<1>1. CacheIInv => CacheCoherent
  BY DEF CacheIInv
<1> QED
  BY CacheInvariance, <1>1, PTL

-----------------------------------------------------------------------------
(* PyEval: the GIL, the globals and the arguments.                           *)

\* The GIL is held exactly while arguments are set or code runs.
GilInv == \A w \in Workers : gil = w <=> stage[w] \in {"args", "code"}

\* What each control point of eval() knows of its arguments and of what its code has read.
PointInv ==
  \A w \in Workers :
    /\ stage[w] \in {"enter", "args"} => seen[w] = {} /\ ~yielded[w]
    /\ stage[w] = "enter" => Uses[job[w]] \ unset[w] \subseteq args[w]
    /\ stage[w] = "args" => \A n \in (Uses[job[w]] \ unset[w]) \ args[w] : glob[n] = job[w]
    /\ stage[w] \in {"enter", "args"} => args[w] \subseteq Bindings(job[w])
    /\ stage[w] = "away" => yielded[w]

\* A global only ever holds an argument of a record that binds its name, and a name that an
\* evaluation binds is defined as soon as its code runs.
GlobInv ==
  /\ \A n \in Names : glob[n] # NoRecord => n \in Bindings(glob[n])
  /\ \A w \in Workers : Running(w) => \A n \in Uses[job[w]] \ unset[w] : glob[n] # NoRecord

\* A worker without a rival keeps its arguments to itself.
SoleInv ==
  \A w \in Workers : Running(w) /\ (\A v \in Workers : v = w) =>
    \A n \in Uses[job[w]] \ unset[w] : glob[n] = job[w]

IInv ==
  /\ TypeOK
  /\ GilInv
  /\ PointInv
  /\ GlobInv
  /\ SoleInv
  /\ OwnArgsUntilYield
  /\ OnlySharedNamesClash

LEMMA InitInv == Init => IInv
BY PyEvalAssumption
   DEF Init, IInv, TypeOK, GilInv, PointInv, GlobInv, SoleInv, OwnArgsUntilYield,
       OnlySharedNamesClash, Running, Bindings

LEMMA StepInv == IInv /\ [Next]_vars => IInv'
<1> SUFFICES ASSUME IInv, [Next]_vars PROVE IInv'
  OBVIOUS
<1> USE PyEvalAssumption DEF IInv, TypeOK, Goes, Running
<1>1. ASSUME NEW w \in Workers, NEW r \in Records, Enter(w, r) PROVE IInv'
  <2> USE <1>1 DEF Enter, Takes, Bindings
  <2>1. TypeOK'
    OBVIOUS
  <2>2. GilInv'
    BY DEF GilInv
  <2>3. PointInv'
    BY DEF PointInv, GilInv
  <2>4. GlobInv'
    BY DEF GlobInv, PointInv
  <2>5. SoleInv'
    BY DEF SoleInv, PointInv, GilInv
  <2>6. OwnArgsUntilYield'
    BY DEF OwnArgsUntilYield, PointInv, GilInv
  <2>7. OnlySharedNamesClash'
    BY DEF OnlySharedNamesClash, GlobInv, SoleInv, PointInv
  <2> QED
    BY <2>1, <2>2, <2>3, <2>4, <2>5, <2>6, <2>7
<1>2. ASSUME NEW w \in Workers, Acquire(w) PROVE IInv'
  <2> USE <1>2 DEF Acquire, TakeGil
  <2>1. TypeOK'
    OBVIOUS
  <2>2. GilInv'
    BY DEF GilInv
  <2>3. PointInv'
    BY DEF PointInv, GilInv
  <2>4. GlobInv'
    BY DEF GlobInv, PointInv
  <2>5. SoleInv'
    BY DEF SoleInv, PointInv, GilInv
  <2>6. OwnArgsUntilYield'
    BY DEF OwnArgsUntilYield, PointInv, GilInv
  <2>7. OnlySharedNamesClash'
    BY DEF OnlySharedNamesClash, GlobInv, SoleInv, PointInv
  <2> QED
    BY <2>1, <2>2, <2>3, <2>4, <2>5, <2>6, <2>7
<1>3. ASSUME NEW w \in Workers, NEW n \in Names, SetArg(w, n) PROVE IInv'
  <2> USE <1>3 DEF SetArg
  <2>1. TypeOK'
    OBVIOUS
  <2>2. GilInv'
    BY DEF GilInv
  <2>3. PointInv'
    BY DEF PointInv, GilInv
  <2>4. GlobInv'
    BY DEF GlobInv, PointInv
  <2>5. SoleInv'
    BY DEF SoleInv, PointInv, GilInv
  <2>6. OwnArgsUntilYield'
    BY DEF OwnArgsUntilYield, PointInv, GilInv
  <2>7. OnlySharedNamesClash'
    BY DEF OnlySharedNamesClash, GlobInv, SoleInv, PointInv
  <2> QED
    BY <2>1, <2>2, <2>3, <2>4, <2>5, <2>6, <2>7
<1>4. ASSUME NEW w \in Workers, RunCode(w) PROVE IInv'
  <2> USE <1>4 DEF RunCode
  <2>1. TypeOK'
    OBVIOUS
  <2>2. GilInv'
    BY DEF GilInv
  <2>3. PointInv'
    BY DEF PointInv, GilInv
  <2>4. GlobInv'
    BY DEF GlobInv, PointInv
  <2>5. SoleInv'
    BY DEF SoleInv, PointInv, GilInv
  <2>6. OwnArgsUntilYield'
    BY DEF OwnArgsUntilYield, PointInv, GilInv
  <2>7. OnlySharedNamesClash'
    BY DEF OnlySharedNamesClash, GlobInv, SoleInv, PointInv
  <2> QED
    BY <2>1, <2>2, <2>3, <2>4, <2>5, <2>6, <2>7
<1>5. ASSUME NEW w \in Workers, NEW n \in Names, ReadName(w, n) PROVE IInv'
  <2> USE <1>5 DEF ReadName
  <2>1. TypeOK'
    OBVIOUS
  <2>2. GilInv'
    BY DEF GilInv
  <2>3. PointInv'
    BY DEF PointInv, GilInv
  <2>4. GlobInv'
    BY DEF GlobInv, PointInv
  <2>5. SoleInv'
    BY DEF SoleInv, PointInv, GilInv
  <2>6. OwnArgsUntilYield'
    BY DEF OwnArgsUntilYield, PointInv, GilInv
  <2>7. OnlySharedNamesClash'
    BY DEF OnlySharedNamesClash, GlobInv, SoleInv, PointInv
  <2> QED
    BY <2>1, <2>2, <2>3, <2>4, <2>5, <2>6, <2>7
<1>6. ASSUME NEW w \in Workers, Yield(w) PROVE IInv'
  <2> USE <1>6 DEF Yield
  <2>1. TypeOK'
    OBVIOUS
  <2>2. GilInv'
    BY DEF GilInv
  <2>3. PointInv'
    BY DEF PointInv, GilInv
  <2>4. GlobInv'
    BY DEF GlobInv, PointInv
  <2>5. SoleInv'
    BY DEF SoleInv, PointInv, GilInv
  <2>6. OwnArgsUntilYield'
    BY DEF OwnArgsUntilYield, PointInv, GilInv
  <2>7. OnlySharedNamesClash'
    BY DEF OnlySharedNamesClash, GlobInv, SoleInv, PointInv
  <2> QED
    BY <2>1, <2>2, <2>3, <2>4, <2>5, <2>6, <2>7
<1>7. ASSUME NEW w \in Workers, Resume(w) PROVE IInv'
  <2> USE <1>7 DEF Resume, TakeGil
  <2>1. TypeOK'
    OBVIOUS
  <2>2. GilInv'
    BY DEF GilInv
  <2>3. PointInv'
    BY DEF PointInv, GilInv
  <2>4. GlobInv'
    BY DEF GlobInv, PointInv
  <2>5. SoleInv'
    BY DEF SoleInv, PointInv, GilInv
  <2>6. OwnArgsUntilYield'
    BY DEF OwnArgsUntilYield, PointInv, GilInv
  <2>7. OnlySharedNamesClash'
    BY DEF OnlySharedNamesClash, GlobInv, SoleInv, PointInv
  <2> QED
    BY <2>1, <2>2, <2>3, <2>4, <2>5, <2>6, <2>7
<1>8. ASSUME NEW w \in Workers, Leave(w) PROVE IInv'
  <2> USE <1>8 DEF Leave
  <2>1. TypeOK'
    OBVIOUS
  <2>2. GilInv'
    BY DEF GilInv
  <2>3. PointInv'
    BY DEF PointInv, GilInv
  <2>4. GlobInv'
    BY DEF GlobInv, PointInv
  <2>5. SoleInv'
    BY DEF SoleInv, PointInv, GilInv
  <2>6. OwnArgsUntilYield'
    BY DEF OwnArgsUntilYield, PointInv, GilInv
  <2>7. OnlySharedNamesClash'
    BY DEF OnlySharedNamesClash, GlobInv, SoleInv, PointInv
  <2> QED
    BY <2>1, <2>2, <2>3, <2>4, <2>5, <2>6, <2>7
<1>9. ASSUME NEW w \in Workers, Abandon(w) PROVE IInv'
  <2> USE <1>9 DEF Abandon
  <2>1. TypeOK'
    OBVIOUS
  <2>2. GilInv'
    BY DEF GilInv
  <2>3. PointInv'
    BY DEF PointInv, GilInv
  <2>4. GlobInv'
    BY DEF GlobInv, PointInv
  <2>5. SoleInv'
    BY DEF SoleInv, PointInv, GilInv
  <2>6. OwnArgsUntilYield'
    BY DEF OwnArgsUntilYield, PointInv, GilInv
  <2>7. OnlySharedNamesClash'
    BY DEF OnlySharedNamesClash, GlobInv, SoleInv, PointInv
  <2> QED
    BY <2>1, <2>2, <2>3, <2>4, <2>5, <2>6, <2>7
<1>10. CASE UNCHANGED vars
  BY <1>10 DEF vars, GilInv, PointInv, GlobInv, SoleInv, OwnArgsUntilYield, OnlySharedNamesClash
<1> QED
  BY <1>1, <1>2, <1>3, <1>4, <1>5, <1>6, <1>7, <1>8, <1>9, <1>10 DEF Next, WorkerStep

\* The strengthened invariant holds in every reachable state.
THEOREM Invariance == Spec => []IInv
BY InitInv, StepInv, PTL DEF Spec

\* Every variable keeps its type, and a worker has a job exactly while it evaluates (PyWrapper::eval).
THEOREM TypeCorrect == Spec => []TypeOK
<1>1. IInv => TypeOK
  BY DEF IInv
<1> QED
  BY Invariance, <1>1, PTL

\* Until the interpreter gives up the GIL, every name for which the evaluation sets an argument
\* holds it while its code runs, whatever the other workers do (pywrapper.cpp:373-447).
THEOREM ArgumentsSetTogether == Spec => []OwnArgsUntilYield
<1>1. IInv => OwnArgsUntilYield
  BY DEF IInv
<1> QED
  BY Invariance, <1>1, PTL

\* Arguments of two records mix only in a name that the other record binds, and only where a
\* second worker exists or the evaluation set nothing under that name.
THEOREM ClashNeedsSharedName == Spec => []OnlySharedNamesClash
<1>1. IInv => OnlySharedNamesClash
  BY DEF IInv
<1> QED
  BY Invariance, <1>1, PTL

\* With one worker thread (PYDEV_NUM_THREADS = 1) every code reads its own record's fields, but
\* under the names for which no argument was set: those of empty string arrays
\* (pydev_waveform.cpp:198-200), and ZNAM and ONAM of bi and bo (pydev_bi.cpp:92-93).
THEOREM SoleWorkerReadsOwn ==
  ASSUME \A v, w \in Workers : v = w
  PROVE  Spec => []OwnArgs
<1>1. IInv => OwnArgs
  BY DEF IInv, OwnArgs, OnlySharedNamesClash
<1> QED
  BY Invariance, <1>1, PTL

-----------------------------------------------------------------------------
(* Evaluation: the cache of one record among the evaluations of all.         *)

\* A step of the composition is a step of the cache, or leaves it alone.
THEOREM CacheInPlace == EvaluationSpec => CacheSpec
<1>1. EvaluationInit => CacheInit
  BY DEF EvaluationInit
<1>2. [EvaluationNext]_evaluationVars => [CacheNext]_evalVars
  BY DEF EvaluationNext, OtherRecord, Begin, UpdateCache, Reject, InEval, End, CacheNext,
         evaluationVars
<1> QED
  BY <1>1, <1>2, PTL DEF EvaluationSpec, CacheSpec

\* And it is a step of the interpreter's workers, or leaves them alone.
THEOREM InterpreterInPlace == EvaluationSpec => Spec
<1>1. EvaluationInit => Init
  BY DEF EvaluationInit
<1>2. ASSUME [EvaluationNext]_evaluationVars PROVE [Next]_vars
  <2> USE EvaluationAssumption DEF Next, WorkerStep
  <2>1. ASSUME NEW w \in Workers, OtherRecord(w) PROVE Next
    BY <2>1 DEF OtherRecord
  <2>2. ASSUME NEW w \in Workers, Begin(w) PROVE Next
    BY <2>2 DEF Begin
  <2>3. ASSUME NEW w \in Workers, UpdateCache(w) PROVE UNCHANGED vars
    BY <2>3 DEF UpdateCache
  <2>4. ASSUME NEW w \in Workers, Reject(w) PROVE Next
    BY <2>4 DEF Reject
  <2>5. ASSUME NEW w \in Workers, InEval(w) PROVE Next
    BY <2>5 DEF InEval
  <2>6. ASSUME NEW w \in Workers, End(w) PROVE Next
    BY <2>6 DEF End
  <2> QED
    BY <1>2, <2>1, <2>2, <2>3, <2>4, <2>5, <2>6 DEF EvaluationNext, evaluationVars
<1> QED
  BY <1>1, <1>2, PTL DEF EvaluationSpec, Spec

\* The worker that has the cached record is in eval() only when the cache is up to date, and
\* runs its code only if there is some.
Together ==
  /\ \A v, w \in Workers : job[v] = Cached /\ job[w] = Cached => v = w
  /\ \A w \in Workers : job[w] = Cached =>
       /\ stage[w] # "enter" => pc = "eval"
       /\ Running(w) => bytecode # Null

\* A step of one worker leaves the jobs and the control points of the others alone.
LEMMA OthersStay ==
  ASSUME TypeOK, NEW w \in Workers, WorkerStep(w), NEW v \in Workers, v # w
  PROVE  job'[v] = job[v] /\ stage'[v] = stage[v]
BY DEF WorkerStep, TypeOK, Goes, Enter, Takes, Acquire, TakeGil, SetArg, ReadName, RunCode, Yield,
       Resume, Leave, Abandon

LEMMA TogetherStep ==
  ASSUME TypeOK, TypeOK', Together, [EvaluationNext]_evaluationVars
  PROVE  Together'
<1> USE EvaluationAssumption DEF Together, Running
<1>1. ASSUME NEW c \in Codes, PutCalc(c), UNCHANGED vars PROVE Together'
  BY <1>1 DEF PutCalc, vars, cacheVars
<1>2. ASSUME NEW w \in Workers, OtherRecord(w) PROVE Together'
  <2>1. \A v \in Workers : job'[v] = Cached => job[v] = Cached /\ stage'[v] = stage[v]
    BY <1>2, OthersStay DEF OtherRecord
  <2>2. pc' = pc /\ bytecode' = bytecode
    BY <1>2 DEF OtherRecord, evalVars, cacheVars
  <2> QED
    BY <2>1, <2>2
<1>3. ASSUME NEW w \in Workers, Begin(w) PROVE Together'
  BY <1>3, PyEvalAssumption DEF Begin, Enter, Takes, Goes, TypeOK
<1>4. ASSUME NEW w \in Workers, UpdateCache(w) PROVE Together'
  <2>1. UNCHANGED <<job, stage>> /\ job[w] = Cached /\ stage[w] = "enter"
    BY <1>4 DEF UpdateCache, vars
  <2> QED
    BY <2>1
<1>5. ASSUME NEW w \in Workers, Reject(w) PROVE Together'
  BY <1>5, PyEvalAssumption DEF Reject, Abandon, Goes, TypeOK
<1>6. ASSUME NEW w \in Workers, InEval(w) PROVE Together'
  <2>1. UNCHANGED <<pc, bytecode>> /\ job[w] = Cached /\ pc = "eval"
    BY <1>6 DEF InEval, evalVars, cacheVars
  <2>2. job' = job /\ (Running(w)' => bytecode # Null)
    BY <1>6 DEF InEval, Acquire, TakeGil, SetArg, ReadName, RunCode, Yield, Resume, Goes, TypeOK
  <2> QED
    BY <2>1, <2>2
<1>7. ASSUME NEW w \in Workers, End(w) PROVE Together'
  BY <1>7, PyEvalAssumption DEF End, Leave, Goes, TypeOK
<1>8. CASE UNCHANGED evaluationVars
  BY <1>8 DEF evaluationVars, evalVars, cacheVars, vars
<1> QED
  BY <1>1, <1>2, <1>3, <1>4, <1>5, <1>6, <1>7, <1>8 DEF EvaluationNext

\* While the record's code runs, its code object is alive and is the one compiled from the text
\* of CALC that this pass read, whatever the other records, clients and destroy() do.
THEOREM RunsLiveCode == EvaluationSpec => []RunningCodeIsLive
<1>1. EvaluationInit => Together
  BY EvaluationAssumption, PyEvalAssumption DEF EvaluationInit, Init, Together
<1>2. TypeOK /\ TypeOK' /\ Together /\ [EvaluationNext]_evaluationVars => Together'
  BY TogetherStep
<1>3. IInv => TypeOK
  BY DEF IInv
<1>4. CacheIInv /\ Together => RunningCodeIsLive
  BY DEF CacheIInv, CacheTypeOK, CachePointInv, CacheCoherent, NoLeak, Together, RunningCodeIsLive,
         Running
<1> QED
  BY <1>1, <1>2, <1>3, <1>4, CacheInPlace, InterpreterInPlace, CacheInvariance, Invariance, PTL
     DEF EvaluationSpec
=============================================================================

# A TLA+ model of PyDevice

PyDevice lets the records of an EPICS IOC run Python code: device supports for
ai, ao, bi, bo, longin, longout, lsi, lso, mbbi, mbbo, stringin, stringout and
waveform, and a record type of its own, pycalc.  The modules in this directory
model the C++ code under `src/src`; the `.cfg` files check them with TLC on
small instances; the `*Proofs.tla` modules prove the central properties with
TLAPS for every instance.  `PROJECT.json` maps every definition to the lines it
stands for, and lists the runs, the hazards and the theorems.

## 1. The system

### How a record runs Python

```
 EPICS scan / put / push            worker threads                 EPICS callback task
 ------------------------           ------------------             -------------------
 processRecord, PACT = 0   -- schedule() -->  TaskQueue
   PACT := 1                                  dequeue
   return                                     processRecordCb
                                                read fields
                                                compile, if the code changed
                                                PyWrapper::eval (GIL, globDict)
                                                VAL := result, or NSEV := CALC
                                                callbackRequestProcessCallback -->  processRecord, PACT = 1
                                                                                      PACT := 0
                                                                                      alarms, forward link
```

The first and the last column hold the record's lock; the middle one does not.

### Components

| Component | Source | State | Operations | What makes it correct |
|---|---|---|---|---|
| Worker pool | `asyncexec.cpp` | `TaskQueue::que`, `mutex`, `event`; `WorkerThread::running`; `g_workers` | `schedule`, `enqueue`, `dequeue`, `run`, `stop`, `init`, `shutdown` | Every callback starts once, in order, unless the pool goes down; no wake-up is lost; nothing runs after `shutdown()` |
| Two-pass processing | `pydev_*.cpp`, `pycalcRecord.cpp` | PACT, `processCbStatus`, NSEV and SEVR, the callback | `processRecord`, `processRecordCb`, `recGblSetSevr`, the callback request | A busy record has its evaluation in one place; it completes; the alarm at rest is that of the last evaluation |
| Result assignment | the scalar `pydev_*.cpp`, `variant.cpp` | VAL, RVAL, OVAL, LEN, UDF | the arguments, the getters, the assignments, the scaling, the cut of texts | VAL shows the result; a failure and a pass that changes nothing leave it alone |
| Compiled-code cache | `pycalcRecord.cpp`, `pywrapper.cpp`, `pywrapper.h` | `ctx->code`, `ctx->bytecode` | `compile`, `destroy`, the move of `ByteCode` | The code that runs is the one in the field; no code object leaks |
| Evaluation | `pywrapper.cpp` | the GIL, `globDict`, `locDict` | `eval`, `exec`, `convert` | Code sees the fields of its own record, and runs from the source its pass has read |
| I/O Intr parameters | `pywrapper.cpp`, `pydev_*.cpp` | `params`, `ioScanPvts` | `registerIoIntr`, `pydev.iointr`, `scanCallback` | A pushed value reaches the records |
| Waveform | `pydev_waveform.cpp`, `variant.cpp` | NORD, the buffer | `processRecordCb`, `toRecArrayVal`, the array getters | The array at rest is the array returned; the code sees the record's array; a failure leaves it alone |
| Field macros | `util.cpp`, the loops of `processRecordCb` | the text, the code, the names of the arguments | `getMacros`, `replaceMacro`, the tables of fields | Exactly the stand-alone names are replaced, and each has its argument |
| pycalc arrays and links | `pycalcRecord.cpp` | INPA..INPJ, A..J, NEA..NEJ, VAL, NEVL, OUT | `initRecord`, `fetchValues`, the array conversion, `dbPutLink`, puts | Arguments are those of this pass; VAL is never a mixture of two results; OUT follows VAL |
| Start and stop | `epicsdevice.cpp`, `pywrapper.cpp` | the interpreter, the GIL, who waits for what | `pydevRegister`, `pydevUnregister`, `pydev` shell command | The interpreter is not finalized under running code; nobody waits for ever for the GIL, a record's lock or the pool |

Components meet in few places.  The device supports hand callbacks to the pool
and get them back through the callback task of EPICS.  All evaluations share
`globDict` under the GIL.  A push from Python scans records, while the pusher
holds the GIL.  `pydevUnregister` relies on the pool being idle before it
finalizes Python.  The external parts (dbProcess, dbPutField, the callback and
scan-once tasks, recGblResetAlarms, the record supports, the interpreter's
handling of the GIL) are modelled from the way this code relies on them, and
marked external in the map.

### What is hard to test here

Three kinds of threads meet with no common lock: worker threads without the
record lock, EPICS threads with it, and Python threads with the GIL.  The
hazards in `PROJECT.json` name the lines; in short:

* the queue is checked, the mutex released and a binary event waited for in
  separate steps (`asyncexec.cpp:39-42`);
* `stop()` crosses a worker that is already waiting (`asyncexec.cpp:76`);
* PACT alone tells the first pass from the second (`pydev_longout.cpp:131`);
* `callbackRequestProcessCallback` may fail and is not looked at
  (`pydev_longout.cpp:118`);
* the alarm is raised from a worker, without the record's lock, while scans of
  the busy record publish and clear alarms (`pydev_longout.cpp:115`);
* the old code object is destroyed before the new source compiles
  (`pycalcRecord.cpp:202`);
* the arguments of all records are the same Python globals (`pywrapper.cpp:431`), and not every
  name in the code gets one (`pydev_waveform.cpp:200`, `pydev_bi.cpp:92`);
* a push may find the record between its read and its completion
  (`pywrapper.cpp:114`), and several record types may register one parameter
  (`pywrapper.cpp:204`);
* VAL of ao and ai is unscaled in place, in several accesses without the lock, and holds the
  unscaled value during the evaluation (`pydev_ao.cpp:86-87`);
* the loops over string elements look at NORD each time, without the record's lock
  (`pydev_waveform.cpp:85`, `192`);
* a push locks records while it holds the GIL, which every evaluation wants
  (`pywrapper.cpp:114`), and the exit handler waits for the workers (`epicsdevice.cpp:37`);
* macros are replaced one after the other in the same text (`util.cpp:58`);
* NEVL is zeroed and counted up element by element (`pycalcRecord.cpp:256`), and what a link
  does not deliver leaves an older array in place (`pycalcRecord.cpp:357`).

## 2. The modules

| Module | Models | Composes |
|---|---|---|
| `TaskPool` | What `asyncexec.h` promises: oldest first, one per worker, nothing once closed | |
| `AsyncExec` | `asyncexec.cpp`, one step per lock, unlock, wait and signal | implements `TaskPool` (`PoolSpec`) |
| `RecordCycle` | What a client of a record may rely on: idle, waiting, evaluated, idle | |
| `AsyncRecord` | both passes, the worker, alarms, and EPICS around them | uses `TaskPool` as its pool; implements `RecordCycle` (`CycleSpec`) |
| `CodeCache` | `ctx->code`, `ctx->bytecode`, compile, eval, destroy | relies on `OneToken` of `AsyncRecord` |
| `PyEval` | `PyWrapper::eval`, the GIL and `globDict` | relies on `OneToken` of `AsyncRecord` |
| `Evaluation` | `processRecordCb` around the two: the cache of one record among the evaluations of all | composes `CodeCache` and `PyEval`; implements both (`CacheInPlace`, `InterpreterInPlace`) |
| `IoIntr` | `pydev.iointr`, registration and scan | |
| `DeviceSupport` | getters, assignment, scaling, states and cutting in each of the twelve scalar record types | |
| `Waveform` | the array of a waveform: argument, conversion, copy, client puts | |
| `PyCalcRecord` | the arrays of a pycalc record: links, arguments, VAL and NEVL, OUT, client puts | relies on `OneToken` of `AsyncRecord` |
| `Macros` | the scanner, the replacement, and the loop that names the arguments | |
| `Lifecycle` | the threads of an IOC from the registrar to `Py_Finalize`: GIL, record locks, pool | uses `TaskPool` as its pool |
| `MC*` | values of constants and symmetry for TLC | |
| `*Proofs` | theorems | |

Names follow the source.  An action with the suffix `_Bug...` is a changed form
of the action after it, as a plausible mistake in the code would have it; no
specification uses it.  Each shows that some property can fail.

**AsyncExec.**  `que`, `mutex`, `event`, `g_workers` and `running` are the
members of that name.  `wpc` says where `WorkerThread::run` and
`TaskQueue::dequeue` stand, `call` where each call of `schedule()` stands, `main`
where the thread of `init()` and `shutdown()` stands.  What the code does while
it holds the mutex is one step.  The event is binary: two signals before a
wake-up count once.  A wait may also end by its one-second timeout
(`DequeueTimeout`).  `late` counts the callbacks a worker starts after `stop()`.

**AsyncRecord.**  `pass` is the first pass that holds the record's lock, `wst` the
place of each worker in `processRecordCb`, `status` is `processCbStatus`, `nsev`
and `alarm` are the new and the published alarm, `callbacks` the completion
callbacks queued, `stranded` records that the pool refused the evaluation or
that EPICS dropped the callback: both leave PACT = 1.  Clients may scan the
record at any time (`Process`, `ProcessBusy`), put to it (`Put`) and so have it
reprocessed (`rpro`, `once`).  A busy record that is scanned more than `MaxLock`
times gets the SCAN alarm from EPICS, which publishes and clears what the
worker has raised.  The device supports and pycalc differ in the second pass only:
`CompletePyCalc` raises the alarm of a failure once more.

**CodeCache.**  One evaluation at a time, split where a client may change CALC:
read, compare, compile, remember, evaluate.  `live` counts the references held.  The outcome is
`"syntax"` when Python cannot compile the source, `"refused"` when it refuses an argument,
`"missing"` when there is no code object, and otherwise what the code did.

**PyEval.**  Each global is named by the record whose argument it holds.  `eval()`
holds the GIL from the first argument on; `Yield` and `Resume` are the
interpreter giving it up inside the code.  `Argument` is the name under which a record sets
the argument for a name in its code: they differ for ZNAM and ONAM of bi and bo.  `Arrays` are the
names for which it sets none while its array is empty.  `unset` are the names that the running code
reads and its evaluation did not set, `seen` is what it found under each name.  `Abandon` is
an evaluation that ends before `eval()`, with a syntax error.

**Evaluation.**  One record, `Cached`, with its cache and its evaluation; the other records go
through their evaluations alone (`OtherRecord`).  `Begin` reads the source and collects the arguments,
`UpdateCache` brings the cache up to date before the GIL is asked for, `Reject` is the syntax error,
`InEval` what happens inside `eval()`, `End` its return or exception.  `outcome` and the place where
the evaluation ends agree: code that is missing is found out when all arguments are set, code that
raises or returns has run.

**IoIntr.**  One parameter, pushed values numbered 1, 2, ...; `cb` is the callback
kept in `params`, `pvts` the device supports whose own map has the parameter.
`missed` records that a scan was dropped after the record had read an older
value.  With `Immediate` the pusher holds the GIL until every record has been
scanned; without, everything interleaves.

**DeviceSupport.**  One record of any scalar type.  Doubles are counted in units,
integers keep a width (`ToInt32`, `ToEnum16`), texts are sequences of characters that are
cut at the size of the field.  `AiResult` to `StringoutResult` are the assignments, one per
source file.  ASLO, AOFF and SMOO of ai and ao, the states and the shift of mbbi and mbbo are part
of the record.  The accesses to VAL around the evaluation are separate steps, since the worker has
no lock and a client may put between any two: `TakeOffset`, `TakeSlope` and `ReadArguments`
before it, `AoResult`, `GiveSlope` and `GiveOffset` after it.  `disturbed` says that a client did
before the evaluation, `touched` that one did since the result.  A statement like `val -= aoff` is
one step: a put between its load and its store is lost, as if it had come before.  `StateOf` is what the
record support of mbbi makes of RVAL: the first state that equals it, 65535 (`Unknown`) if none
does, RVAL itself if no state is defined.

**Waveform.**  `pc` follows `processRecordCb`: the argument is read element by element
(`ReadElement`), handed over (`SetArgument`), the list is converted (`Return`), NORD is
written (`SetNord`) and then the elements (`WriteElement`); a client may put an array
between any two steps.  The copy of numbers takes its length from NORD, which it reads again
once (`SetLimit`); the loop over strings looks at NORD each time (`WriteLimit`).  `arg` is the
global `pydevVAL`, which outlives the pass.  `Convert`
is what `PyWrapper::convert` makes of a list: the first element decides the type,
others are skipped, a boolean is pushed twice.  Where a put makes NORD larger than the vector in the
middle of a loop over strings, the code's behaviour is undefined: `pc` becomes
`"undefined"` and the record is not followed any further.

**PyCalcRecord.**  `FirstPass` sets PACT, `Skip` and `Fetch` are one turn each of the loop of
`fetchValues`, `ReadArguments` to `Assigned` are `processRecordCb` in the worker,
`AssignElement` one turn of its loops over the elements, a scalar being a list of one;
`Complete` is the second pass.  A client's put writes one element, or several if NEA or NEVL was
larger when the client connected, and leaves the count alone (`Overwrite`).  `fetched`, `latest`,
`prior`, `before`, `putArg` and `putVal` are history.

**Macros.**  A text is a sequence of characters of four classes, typed one by one.  `getMacros`
and `replaceMacro` are recursive functions over it; `StartLoop`, `Replace` and `EndLoop`
are the loop of `processRecordCb`.  Where the code compares and replaces at a position of the text,
`Starts`, `Stands` and `After` speak of what is left of the text from that position on, and the
function `rest` of `replaceMacro` is what becomes of it; its Boolean is the `charBefore` of the
code, which does not matter right after a replacement.  `todo` is what the range-based `for` has
not reached, `rewritten` the string `code`, and `looping` says that the loop is running.
`Split` and `OnlyMacros` serve the properties.  The tables of the thirteen files are abstracted to
the set
`Fields`, and to `Misnamed`, the fields whose argument has another name than the code.

**Lifecycle.**  `pc` says where each thread is: `"want"` and `"away"` wait for the GIL, `"code"`,
`"scan"` and `"process"` hold it (`Scan` and `Callback`, which run no code, have only the
record's lock in `"process"`).  `TakeGil` is PyGIL, `Push` is `pydev.iointr` with a value,
`todo` the records that its immediate scan has not reached.  A worker's request for the second
pass may fail on a full callback queue (`FinishTask`): `dropped` are the records this strands.  The
main thread initialises, runs
shell commands, joins the workers and finalizes; the pool is `TaskPool`.  Python threads may be
started by any code; `daemons` are those for which Py_Finalize does not wait.  With
scanIoRequest a push takes no locks: the threads of EPICS then process the records, which
are steps of `Scan`.

## 3. The runs

Passing runs.

| Run | Checks | Instance |
|---|---|---|
| `AsyncExec` | `TypeOK`, `ExactlyOnce`, `NoLostWakeup`, `AtMostOneLateStart`, `PoolSpec`, `EventuallyStarted`, `ShutdownReturns` | 2 workers, 2 calls of `schedule()`, one of which may block for ever; shutdown at any moment |
| `AsyncRecord` | `TypeOK`, `OneToken`, `FailureShown`, `NoStaleAlarm`, `DropsBounded`, `CycleSpec`, `Completes`, `PutReprocesses` | a device-support and a pycalc record, one worker, a callback queue for one, `MaxLock` = 0, the pool may close |
| `Evaluation` | `RunsWhatItRead`, `NoLeak`, `OwnArgsUntilYield`, `OnlySharedNamesClash` | 2 workers, 3 records: a string waveform that may be empty, a bi that reads ZNAM, a longin that reads VAL and EGU; for the first, two sources that compile and one that does not |
| `IoIntr` | `FreshAtRest`, `Delivered` | 3 records, 2 device supports, 2 pushes, `Immediate` = FALSE |
| `DeviceSupport` | `ResultShown`, `FailureKeepsValue`, `EchoKeepsValue` | all twelve scalar types, 3 passes, slopes 0, 1, 2, with and without offset and smoothing, no states or four of which two are equal, with and without a shift, 4-bit integers, 3-bit enums, texts shorter and longer than buffers of 3 and 4 |
| `Waveform` | `ArrayAtRest`, `ArgumentShown`, `EchoKeepsArray`, `UndefinedNeedsPut` | integer, floating-point and string arrays of 2 elements, cells of 3 characters, 2 passes |
| `PyCalcRecord` | `ArgumentsShown`, `ResultShown`, `FailureCutsArray`, `OutFollowsVal` | an array and a scalar input, constants or links that deliver 0, 1 or 3 elements or fail; VAL of 2 elements; puts of 1 or 2; 2 passes |
| `Macros` | `MacrosFound`, `FieldsReplaced`, `NamesKept` | all texts of up to 6 of the characters A, B, p, 1, % and _; fields A, B and AB |
| `Lifecycle` | `LocksAreShort`, `FinalizedAlone`, `PushesReturn`, `RecordsComplete`, `ExitReturns` | the main thread, one worker, one Python thread, a scan and a callback thread, 2 records, one of them pushed |

Runs that TLC must find violated.  Each is a statement of the documentation that
the code does not keep.

| Run | Statement | What happens |
|---|---|---|
| `CodeCacheValid` | pycalcRecord.md:60-61, the code can be changed at runtime | After a syntax error, the code that ran before is put back: the cache takes it for compiled and runs a null code object, pass after pass |
| `PyCalcInputs` | pycalcRecord.md:25-27, 34-39 and 63, the code gets the value of a constant and the latest value of a link | With MEA > 1 only a link counts elements, so a constant, or what a client puts to it, is an empty list for the code (`pycalcRecord.cpp:109`); and after a transfer that fails the code gets the older elements under the new count (`pycalcRecord.cpp:361-362`).  Each of the two conjuncts is violated on its own |
| `MacrosNames` | README.md:182 and 188, ZNAM and ONAM of bi and bo can be used like variables | The code is rewritten to `pydevZNAM` and `pydevONAM`, the arguments are called `pydevEGU` and `pydevHOPR` (`pydev_bi.cpp:92-93`, `pydev_bo.cpp:92-93`) |

### Why the instances are large enough

* `AsyncExec`: a lost wake-up needs a signal that coalesces or a waiter that was
  passed over, so two calls and two workers; a late start needs one worker that
  waits and one callback.  The safety properties and `PoolSpec` are proved for
  every number besides.
* `AsyncRecord`: records interact through the workers and through the room in
  the callback queue only, so two records, of the two kinds, with fewer workers
  than records and a queue that is too small.  `MaxLock` = 0 lets the SCAN alarm
  appear with the first scan of a busy record.  Properties proved: all but liveness.
* `Evaluation`: two good sources, to be confused, and a bad one.  Each way in which a record does
  not set a name that its code reads, a pair of records that share a name and a pair that does
  not; two workers, so that code is overtaken, or reads alone what an earlier evaluation has left.
* `IoIntr`: two pushes, so that one overtakes a pass; two records of one device
  support and one of another.  The behaviours of scanIoImmediate are among those
  of scanIoRequest, hence `Immediate` = FALSE.
* `DeviceSupport`: three passes, because a fault of one pass shows as the input
  of the next.  `PutValues` and `Results` hold a value of each kind that the getters tell
  apart, including one beyond the width.  `Unit` = 128 makes the halvings exact.
  The states are such that a result has one, two or no match, or one behind the shift.  Without
  any one of the exceptions of `EchoKeepsValue` this instance violates it.
* `Waveform`: two elements, so that a list or a put can be empty, shorter, as long or longer
  and a put can fall between two elements; strings of no, one, two (a full cell) and
  more characters; two passes, since what the first leaves behind the array or behind a
  string shows in the second.
* `PyCalcRecord`: an element fewer and one more than the array has, on both sides; lists that
  fail at the first and at the second element; two passes, since what a pass leaves behind
  shows in the next.
* `Macros`: `%AB%A%` and `A%B%` fit into six characters, so that enclosed fields touch; one field
  is the beginning of another; one character of each class that the code tells apart, the
  underscore standing for whatever is neither a letter, a digit nor the percent sign.
  `MaxFieldLen` = 2 leaves room for words that are too long.
* `Lifecycle`: one thread of each kind and two records, of which one is pushed: everything that
  waits for something else waits for a kind of thread.  A second worker or Python thread makes the
  liveness check too long; the two invariants are proved for any number.

Bounds in guards: `MaxPush` (IoIntr), `MaxPass` (DeviceSupport, Waveform, PyCalcRecord) and
`MaxLen` (Macros) end the behaviour and serve TLC only; `lcnt` of AsyncRecord stops at
`MaxLock + 1`, beyond which EPICS does not tell values apart.  Symmetry is used in
`Evaluation`, where the workers and the good sources are interchangeable and only invariants
are checked.

A run checks the properties that a mistake in the code could break; the type invariants of
the modules are proved (section 4).  Deadlock is checked except
in `AsyncRecord`: with the pool closed and both records stranded nothing need ever happen again.

### Fairness

* `AsyncExec`: threads run (WF).  The mutex is held for a few instructions, and a
  waiter gets it in the end although others take it too (SF).  A second passes
  (WF of the timeout).  A callback returns unless it is one of `Blocking`.  Nobody is
  obliged to call `schedule()` or to begin `shutdown()`.
* `AsyncRecord`: a thread inside a pass goes on; the pool starts what is pending,
  which is `EventuallyStarted` of `AsyncExec`; evaluations end; the callback and
  scan-once tasks serve their queues and get the record's lock in the end (SF).
  Nobody is obliged to scan or put.
* `Lifecycle`: CPython makes a thread give the GIL up when others ask for it, so whoever
  waits for the GIL gets it in the end (SF), and so does who waits for a record's lock.
  The code of records and of the shell returns in the end, whatever it pushed or waited for
  (SF); a Python thread need not end but yields or ends again and again.  Nobody is obliged to
  scan, to push, to call the shell or to exit.
* `IoIntr`: scans proceed, passes read and complete, the read with SF because
  pushes keep taking the GIL.

## 4. The proofs

TLAPS proves, for every value of the constants that satisfies the named
assumption of the module:

| Module | Theorems |
|---|---|
| `AsyncExecProofs` | `TypeCorrect`, `CallbackExactlyOnce`, `WakeupNotLost`, `OneLateStart`, `IdleWhenDown`, `Refinement` (`Spec => PoolSpec`) |
| `AsyncRecordProofs` | `TypeCorrect`, `OneEvaluation`, `FailureIsShown`, `SuccessClearsAlarm`, `CallbacksFit`, `Refinement` (`Spec => CycleSpec`) |
| `ContextProofs` (`IoIntr`) | `ScanTypeCorrect`, `RestIsFresh` |
| `ContextProofs` (`Macros`) | `MacroTypeCorrect`, `ScannerFindsWords`, `OneByOneIsAtOnce`, `WordsKept` |
| `DeviceSupportProofs` | `TypeCorrect`, `ResultAlwaysShown`, `FailureAlwaysKeepsValue`, `EchoAlwaysKeepsValue` |
| `EvaluationProofs` (`CodeCache`) | `CacheTypeCorrect`, `NeverRunsStaleCode`, `NothingLeaks`, `CacheAgrees` |
| `EvaluationProofs` (`PyEval`) | `TypeCorrect`, `ArgumentsSetTogether`, `ClashNeedsSharedName`, `SoleWorkerReadsOwn` |
| `EvaluationProofs` (`Evaluation`) | `CacheInPlace` (`EvaluationSpec => CacheSpec`), `InterpreterInPlace` (`EvaluationSpec => Spec`), `RunsLiveCode` |
| `LifecycleProofs` | `TypeCorrect`, `NoLockIsHeldWaiting`, `InterpreterEndsAlone` |
| `PyCalcRecordProofs` | `TypeCorrect`, `ArgumentsAlwaysShown`, `ResultAlwaysShown`, `FailureAlwaysCuts`, `OutAlwaysFollows` |
| `WaveformProofs` | `TypeCorrect`, `RestAlwaysShown`, `ArgumentAlwaysShown`, `EchoAlwaysKeepsArray`, `UndefinedAlwaysNeedsPut` |

Each rests on an inductive invariant `IInv` with three facts: `Init => IInv`,
`IInv /\ [Next]_vars => IInv'`, `IInv => property`.  `EvaluationProofs` extends `Evaluation`, and
with it `CodeCache` and `PyEval`; `ContextProofs` extends `IoIntr` and `Macros`.  This is why some
specifications are called `CacheSpec`, `MacroSpec` and `EvaluationSpec`.

* **AsyncExec.**  `ExactlyOnce` and `NoLostWakeup` are not inductive alone.
  `MutexInv` ties the holder of the mutex to the program counters, so that what a
  worker found in the queue still holds when it acts on it; `BusyInv` says which
  workers hold a callback; `PhaseInv` follows `main` through start and stop and gives
  `DownMeansIdle`; `LateInv` says that a late callback leaves the worker at the top of
  its loop with its flag down, so there cannot be a second one.  The refinement
  maps `que`, `cb` and `main = "down"` to the abstract pool.
* **AsyncRecord.**  `OneToken` counts places; its inductive form `PlaceInv` says it
  with four predicates (first pass, queue, worker, callback) of which at most one holds,
  and exactly one when the record is busy and not stranded.  `UniqueInv` says that
  the place is taken once.  For each kind of step a lemma says what becomes
  of the four predicates, and `PlaceInv` follows without looking inside them.  The
  alarms need `AlarmInv`: a new alarm that is not published belongs to an
  evaluation that failed and has not completed; and `LostInv`, which follows the alarm
  of a failure from the worker to the second pass and names the only way to lose it: scans of the
  busy record, more than EPICS drops in silence.  `CallbacksFit` assumes that the set of
  records is finite: each has at most one callback queued, so a queue with a place per
  record drops none, and one with less room no more than it lacks places.
* **CodeCache.**  `PointInv` says what the cache holds at each point of the evaluation.
* **IoIntr.**  `ReadInv` carries `FreshAtRest` through the pass, from the read to the
  completion; `StartInv` covers pushes before the records are initialised.
* **Macros.**  `LoopInv` says what the loop has done: the macros of the text are those taken so
  far and `todo`, and the code is the text with the fields among those taken replaced *all at once*
  (`AtOnce`), unless fields touch in the text.  That a step keeps this is the lemma `Join`: one more
  pass
  over a text in which some fields have been replaced gives the text in which that field is
  replaced with them.  It holds because a name that has been written contains a field only behind
  lower case, so that no later search finds one in it (`PastName`); because the capitals and
  percent signs with which a rewritten text begins were there before (`Origin`), so that no field
  begins where none did (`NoneJoined`); and because a field still to be replaced gets a letter next
  to it only from an enclosed field right there, which is `Touching` (`EdgeKept`).  `Fits` says
  when the two passes agree on what stands before the rest of the text.  At the end
  of the loop the fields taken are not all of `Fields`, but the missing ones occur nowhere
  (`Enough`): a field that `AtOnce` would take is a word of capitals, which the scanner has found.
  `GetMacros` ties the scanner to the words of `Split`: at any point its result is what
  it has found, what its token and the next letters make, and the macros among the words still to come.
  `WordsKept` then follows from `AtOnce` alone.
* **PyEval.**  `GilInv` (who is inside `eval` holds the GIL), `PointInv` and `GlobInv`
  (an argument that has been set is the record's own as long as the GIL is held).
  `SoleWorkerReadsOwn` says of one worker that its code finds its own record's argument under every
  name that its evaluation sets; of the other names nothing of the kind holds.
* **Evaluation.**  `CacheInPlace` and `InterpreterInPlace` map each step to a step or a stutter of
  `CodeCache` and of `PyEval`, so that what is proved of either holds of the composition;
  `RunsLiveCode` needs both: whose code runs is at the point `"eval"` of its cache.
* **Lifecycle.**  `GilInv` (code, pushes and what they process hold the GIL, and the main thread
  keeps it once the interpreter has been finalized), `LockInv` (a thread holds one lock at most,
  and only while it processes) and `WorkerInv` (a worker between two tasks has none, and
  all have ended when the main thread goes on).  `LocksAreShort` is the absence of a cycle between
  the GIL and the locks: a holder of a lock never waits.  With fairness it gives
  `PushesReturn`, which TLC checks.
* **DeviceSupport.**  `ResultInv` follows a result from its assignment, through the steps that give
  an ao
  its scale, to the next pass.  The result of a bi or mbbi is not in VAL then: it waits in RVAL, and
  only the second pass makes a value of
  it, so the invariant says what RVAL holds in between; `Smallest` gives the first of several equal
  states.  `Scaling` covers the two steps that give an ao its
  scale.  `BareInv` says what is left of VAL while its scale is taken off, `EchoInv` what becomes of a
  returned argument, `OwnInv` that VAL is what somebody has set, or that without its scale.
  `FieldTypes` is
  `TypeOK` and what the conversions need.  `EchoAlwaysKeepsValue` carries the hypothesis `Exact`, that
  the division by the slope before the evaluation had no remainder: the model divides integers where
  the code rounds a double.  On the instance of the run, with `Unit` = 128, no division that comes
  back has one, and TLC checks `EchoKeepsValue` there without the hypothesis.
* **PyCalcRecord.**  `Traced(i)` follows one input through the fetch: until its turn the field is
  what the pass found, after it what the link delivered, or the old elements under the new
  count when the transfer failed; `FetchInv` says that the inputs not reached yet have had no turn.
  `AssignInv`
  is the loop over the elements: NEVL counts those that are done, all of them were numbers, and
  `Split(n)` says that VAL holds the result before element n and the old array from there on.
  `SettledInv` keeps that until a client puts, and gives `ResultShown` and `FailureCutsArray`.
  `ArgumentsShown` and `OutFollowsVal` are inductive once these are known.  Neither says anything of
  `Unfetched` inputs, which `PyCalcInputs` is about.
* **Waveform.**  The invariant says of either loop what it has copied up to `at`: `ReadInv` (and
  `ArgInv` once the argument is set), `WriteInv` with `IsWritten(i)` for every element written and the
  buffer as it was found from there on; `BeforeInv` says that until NORD is written only a client
  changes the
  array.  `TypeOK` is too weak for strings: `Cells` says that a cell is its characters and
  then nothing but NULs, from which `WrittenShows` follows: what is copied over a cell shows up to
  the cell's size, and after it at most the tail of the longer string that was there.
  `EchoKeepsArray` crosses all of it: the argument is the array (`ArgInv`), the list that comes back
  is converted to itself (`EchoValues`, from the loop of `convert()`, `ConvertAlike`), and each string
  fits the cell it came from (`CutFits`).

What these three assume of their constants, beyond types: dbPut cuts what clients put to NELM elements
(`Waveform`), strings hold no NUL and end at one, being C strings (`Waveform`), an enum is no wider than
RVAL, which is its source, and counts as many states as a record has (`DeviceSupport`), and two
facts about powers of two, of which the
provers know only that they are numbers: 2^w > 0 and 2^w = 2 * 2^(w-1).

What `Macros` assumes: the classes of characters are those of `isupper`, `islower` and `isdigit`, so no
character is in two of them, and `%` is neither letter nor digit; a field's name is a word of
capitals no longer than `MAX_FIELD_LEN` (the names in the tables have one to four letters); the
names of arguments begin with lower-case letters.  That `ZNAM` and `ONAM` have the arguments
of other fields (`Misnamed`) is no assumption: `NamesBound` fails for them, the theorems hold.

Two places need induction over data: the loop of `convert()` over a list, and the texts of
`Macros`, each written as a recursive function.  The library's induction theorems cannot be used, but
the least element of a set of naturals exists (`Least` in `WaveformProofs`, `Strong` in
`ContextProofs`), and induction over numbers, sequences and texts follows from it (`Induction`,
`SeqInduction`, `TextInduction`), stated for sets instead of for operators.  The recursive
functions are unfolded once (`Unfold`, `OnePass`, `SplitStep`) into equations for the ways in
which a text can begin (`Rules`, `Beginnings`); the inductions use only those.

Only model-checked: liveness (`EventuallyStarted`, `ShutdownReturns`, `Completes`,
`PutReprocesses`, `Delivered`, `PushesReturn`, `RecordsComplete`, `ExitReturns`), which is out of
the prover's reach.  Every invariant that a passing run checks is the property of a theorem.

## 5. Observations without a run

Met while modelling; the models contain the behaviour.

*Processing.*

* A worker that waits in `dequeue` when `stop()` is called starts one more callback;
  the comment at `asyncexec.cpp:106-107` says that no new tasks start.
  `AtMostOneLateStart` says what holds.
* The alarm of a failure is raised in the worker.  When scans of the busy record publish and clear
  it before the second pass, a device-support record completes without an alarm, although
  README.md:109 says that failures are reflected in SEVR and STAT; pycalc raises it again
  (`pycalcRecord.cpp:324-326`).  `FailureShown` names this case and no other.
* The arguments of all records are the same globals.  Code that gives up the GIL may go on with
  another record's field, and code that reads a name for which its evaluation sets nothing (VAL of
  an empty string waveform, ZNAM and ONAM) finds what an earlier evaluation, its own or another
  record's, has left there, even with one worker and before any switch, or nothing at all.
  README.md:124 says the fields are replaced right before the code is executed.
  `OnlySharedNamesClash` says exactly when another record's argument can be read, `unset` names the
  second case.
* `NoLostWakeup` does not say that a worker looks at the queue soon: when two signals have become one
  and the worker that took the wake-up stays in its callback, a queued callback waits for
  the one-second timeout of another worker (`asyncexec.cpp:41`).  `EventuallyStarted` holds because
  of that timeout.
* A put to VAL while the evaluation runs is overwritten by the result before any code has read it
  (`pydev_longout.cpp:107`), and the further pass it leads to then reads the result.
  `PutReprocesses` only promises the pass.  With SMOO an ai mixes the put into its result instead.
* A full callback queue strands a record: PACT stays 1 (`pydev_longin.cpp:118`).  `Completes` excepts
  such records and `DropsBounded` limits their number; `RecordsComplete` excepts those in `dropped`.
* Each device support registers a parameter for itself and the last registration replaces the
  callback of the others (`pywrapper.cpp:204`), so a push scans records of one type only;
  README.md:165 speaks of all records that use the parameter.  The guard `Scanned` of `FreshAtRest`
  and `Delivered` is this exception.
* A push between a record's read and its completion is dropped and never shown;
  `FreshAtRest` excepts exactly this case (`missed`).
* At exit Py_Finalize waits for Python threads that are no daemons, for ever if one does not
  end: the second disjunct of `ExitReturns`.

*Values.*

* A 64-bit result that does not fit VAL is cut without an alarm (`pydev_longin.cpp:107`), and in
  pycalc every integer passes through 32 bits, whatever FTVL (`pycalcRecord.cpp:219`), although
  pycalcRecord.md:43-45 says that the result is converted to the type of FTVL.  `ResultShown` of both
  modules is limited to results that fit: `Fits`, `Cut`.
* VAL of an mbbi with states is the place of the first state with the result's value, or 65535; code
  that
  returns VAL itself does not keep it, unless the states are numbered like their places
  (`Enumerated`).
* A client's put between the accesses with which an ai or ao takes the scale off VAL, or
  gives it back, is scaled in part, or lost if it falls between the load and the store of one of
  them (`pydev_ai.cpp:86-87`, `pydev_ao.cpp:109-111`).  `disturbed` and `touched` are the exceptions in
  `EchoKeepsValue`; a value that is lost in a failing pass is the second case of `FailureKeepsValue`.
* The result of a bo goes to RVAL, which the bo record never converts back
  (`pydev_bo.cpp:103`), so that VAL does not show it; README.md:139-141 and 161 say that the
  result is assigned to the record's value.  `ResultShown` excepts bo.
* Code that returns None, every statement included, makes the getter throw and the output
  record goes to CALC / INVALID (`pydev_longout.cpp:107`); README.md:141 calls the result of
  an output record optional.  `Raise` and `Return` of `DeviceSupport` contain it.
* With ASLO = 0 an ai shows AOFF whatever the code returns (`pydev_ai.cpp:111`), an ao does not
  (`pydev_ao.cpp:110`); smoothing in ai mixes an unscaled with a scaled value
  (`pydev_ai.cpp:115`).  `ForgottenSlope` and `MixedSmoothing` name the two: no property promises
  what VAL is then.
* An ai or ao with a slope whose code fails has the scale taken off VAL once per pass
  (`pydev_ai.cpp:86`, `pydev_ao.cpp:86`).
* In a list of booleans each is counted twice, and in a list of mixed types all but those of the
  first type are dropped without an alarm (`pywrapper.cpp:283-332`).

*Arrays.*

* A string element keeps the tail of a longer one that was there before
  (`pydev_waveform.cpp:101`): the second disjunct of the string case of `ArrayAtRest`.
  A numeric array that is only returned grows to NELM elements
  (`pydev_waveform.cpp:181`): `EchoKeepsArray` says that nothing is lost.
* A string array without elements sets no argument, and the code finds an older
  `pydevVAL` (`pydev_waveform.cpp:200`), hence the exception in `ArgumentShown`.
* In pycalc None empties VAL, since NEVL is zeroed before the result is looked at
  (`pycalcRecord.cpp:209`); the comment at `pycalcRecord.cpp:291` says that nothing is assigned.
  `ResultShown` promises that
  None assigns no element, and nothing of NEVL.
* The copy of a numeric list into the waveform reads NORD again after it has written it
  (`pydev_waveform.cpp:39-40`): a put in between that makes it larger has the copy read beyond the
  vector.  `UndefinedNeedsPut` says that only a put does.
* OUT is written after a failure, too, with what is left in VAL (`pycalcRecord.cpp:329`).

*Macros.*

* `%VAL%A%` counts as two macros (`test_util.cpp:103`) but the replacement of the first joins the
  second, which stays; `Touching` is the exception in `FieldsReplaced`.
* An underscore ends a word: the Python name `MAX_VAL` is rewritten to `MAX_pydevVAL`.
  `NamesKept` has it as what a word is.

## 6. What is not modelled

* `escape`, `replace` and `join` of `util.cpp` and `arrayOfStrToStr` of `pydev_waveform.cpp`:
  no record uses them.
* The reference counts of pushed values: a second registration of a parameter forgets the value
  without releasing it (`pywrapper.cpp:205`).  The unlocked map: `registerIoIntr` changes
  `params` without the GIL while a Python thread of the start-up script may read it
  (`pywrapper.cpp:204`); a model would need the inside of `std::map`.
* Pushes before iocInit together with the locks: `Lifecycle` starts scans after
  `PyWrapper::init`, `IoIntr` has the pushes before the records are initialised.
* `exec()` throws an `exception_ptr`, which no handler of `std::exception` sees
  (`pywrapper.cpp:479`); the shell command catches everything, `PyWrapper::init` does not.
* An exception while the arguments are built, before the `try` block of
  `processRecordCb` (`pycalcRecord.cpp:139-198`): it would end the worker thread.
* `get_unsigned` and `get_unsigned_array`, which differ from their signed forms by the width only, and
  FTVL of pycalc other than a type that holds every value of the instance.
* Database definitions, build files, examples, unit tests: no state.

## 7. Plan

1. `Lifecycle` with a second worker for `LocksAreShort` and `FinalizedAlone` alone, should
   the safety part ever be needed beyond the proofs.

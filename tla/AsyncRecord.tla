---------------------------- MODULE AsyncRecord ----------------------------
(***************************************************************************)
(* Two-pass record processing on top of the worker pool: what              *)
(* processRecord and processRecordCb of the pydev_*.cpp device supports    *)
(* and of pycalcRecord.cpp do to PACT, to the alarm and to the callback.   *)
(*                                                                         *)
(* First pass, under the record's lock: PACT is set and the evaluation is  *)
(* handed to the pool.  A worker then evaluates WITHOUT the record's lock, *)
(* writes the result or raises an alarm, and asks EPICS to call the record *)
(* back.  Second pass, under the lock again: the record completes.  In     *)
(* between, EPICS may try to process the busy record, and clients may put  *)
(* to it.  What EPICS base does (dbProcess, dbPutField, the callback and   *)
(* scan-once threads, recGblResetAlarms) is modelled from how this code    *)
(* relies on it.                                                           *)
(***************************************************************************)
EXTENDS Integers, Sequences, FiniteSets

CONSTANTS Records, Workers,
          PyCalc,       \* the pycalc records; the others use a pydev device support
          NoRecord,
          CbQueueSize,  \* the room in the queue of the EPICS callback task
          MaxLock,      \* the scans of a busy record that EPICS drops in silence
          MayClose      \* whether the IOC shuts the pool down in this instance

ASSUME AsyncRecordAssumption ==
  /\ PyCalc \subseteq Records
  /\ NoRecord \notin Records
  /\ CbQueueSize \in Nat
  /\ MaxLock \in Nat
  /\ MayClose \in BOOLEAN

VARIABLES
  pending, active, closed,  \* the pool: see TaskPool
  wst,       \* where each worker stands in processRecordCb
  pass,      \* the first pass that holds the record's lock, if any
  pact,      \* PACT
  callbacks, \* the completion callbacks queued for a record
  stranded,  \* whether the pool refused the evaluation, or EPICS dropped the callback
  status,    \* processCbStatus
  nsev,      \* the new alarm (NSTA/NSEV), not published yet
  alarm,     \* the published alarm (STAT/SEVR)
  lcnt,      \* LCNT: the scans dropped since the record became busy
  rpro,      \* RPRO: a client has put to the busy record
  once       \* the record waits in the scan-once queue

poolState == <<pending, active, closed>>
recVars == <<pass, pact, callbacks, stranded, rpro, once>>
alarmVars == <<status, nsev, alarm, lcnt>>
vars == <<poolState, wst, recVars, alarmVars>>

Pool == INSTANCE TaskPool WITH Tasks <- Records, Slots <- Workers, NoTask <- NoRecord

Alarms == {"none", "CALC", "SCAN"}

TypeOK ==
  /\ Pool!PoolTypeOK
  /\ wst \in [Workers -> {"idle", "eval", "request", "return"}]
  /\ \A w \in Workers : wst[w] = "idle" <=> active[w] = NoRecord
  /\ pass \in [Records -> {"none", "begun", "scheduled"}]
  /\ pact \in [Records -> BOOLEAN]
  /\ callbacks \in [Records -> Nat]
  /\ stranded \in [Records -> {"no", "refused", "dropped"}]
  /\ status \in [Records -> {"unset", "ok", "fail"}]
  /\ nsev \in [Records -> Alarms]
  /\ alarm \in [Records -> Alarms]
  /\ lcnt \in [Records -> 0 .. MaxLock + 1]
  /\ rpro \in [Records -> BOOLEAN]
  /\ once \in [Records -> BOOLEAN]

Init ==
  /\ Pool!Init
  /\ wst = [w \in Workers |-> "idle"]
  /\ pass = [r \in Records |-> "none"]
  /\ pact = [r \in Records |-> FALSE]
  /\ callbacks = [r \in Records |-> 0]
  /\ stranded = [r \in Records |-> "no"]
  /\ status = [r \in Records |-> "unset"]
  /\ nsev = [r \in Records |-> "none"]
  /\ alarm = [r \in Records |-> "none"]
  /\ lcnt = [r \in Records |-> 0]
  /\ rpro = [r \in Records |-> FALSE]
  /\ once = [r \in Records |-> FALSE]

Unlocked(r) == pass[r] = "none"
QueuedCallbacks == Cardinality({c \in Records \X (1 .. CbQueueSize) : c[2] <= callbacks[c[1]]})

-----------------------------------------------------------------------------
(* The first pass.  dbProcess takes the record's lock.                       *)

\* processRecord with PACT = 0.
Begin(r) ==
  /\ Unlocked(r)
  /\ ~pact[r]
  /\ pact' = [pact EXCEPT ![r] = TRUE]
  /\ pass' = [pass EXCEPT ![r] = "begun"]
  /\ lcnt' = [lcnt EXCEPT ![r] = 0]
  /\ UNCHANGED <<poolState, wst, callbacks, stranded, status, nsev, alarm>>

Refused(r) ==
  /\ closed
  /\ stranded' = [stranded EXCEPT ![r] = "refused"]
  /\ UNCHANGED poolState

ScheduleTask_BugReleasesPact(r) ==
  /\ pass[r] = "begun"
  /\ pass' = [pass EXCEPT ![r] = "scheduled"]
  /\ Pool!Submit(r) /\ UNCHANGED stranded
  /\ pact' = [pact EXCEPT ![r] = FALSE]
  /\ UNCHANGED <<wst, callbacks, rpro, once, alarmVars>>

\* AsyncExec::schedule.  A refused record keeps PACT = 1.
ScheduleTask(r) ==
  /\ pass[r] = "begun"
  /\ pass' = [pass EXCEPT ![r] = "scheduled"]
  /\ \/ Pool!Submit(r) /\ UNCHANGED stranded
     \/ Refused(r)
  /\ UNCHANGED <<wst, pact, callbacks, rpro, once, alarmVars>>

\* The record's process routine sees PACT = 1 and returns; dbScanUnlock.
FirstPassReturns(r) ==
  /\ pass[r] = "scheduled"
  /\ pass' = [pass EXCEPT ![r] = "none"]
  /\ UNCHANGED <<poolState, wst, pact, callbacks, stranded, rpro, once, alarmVars>>

-----------------------------------------------------------------------------
(* processRecordCb, in a worker, without the record's lock.                  *)

\* The record's fields are read into the arguments of the code.
StartEval(w) ==
  /\ Pool!Start(w)
  /\ wst' = [wst EXCEPT ![w] = "eval"]
  /\ UNCHANGED <<recVars, alarmVars>>

\* The result goes to VAL.
EvalOk(w) ==
  LET r == active[w] IN
  /\ wst[w] = "eval"
  /\ wst' = [wst EXCEPT ![w] = "request"]
  /\ status' = [status EXCEPT ![r] = "ok"]
  /\ UNCHANGED <<poolState, recVars, nsev, alarm, lcnt>>

EvalFail_BugSilent(w) ==
  LET r == active[w] IN
  /\ wst[w] = "eval"
  /\ wst' = [wst EXCEPT ![w] = "request"]
  /\ status' = [status EXCEPT ![r] = "fail"]
  /\ UNCHANGED <<poolState, recVars, nsev, alarm, lcnt>>

\* catch (std::exception&): recGblSetSevr raises NSEV, it never lowers it.
EvalFail(w) ==
  LET r == active[w] IN
  /\ wst[w] = "eval"
  /\ wst' = [wst EXCEPT ![w] = "request"]
  /\ nsev' = [nsev EXCEPT ![r] = IF @ = "none" THEN "CALC" ELSE @]
  /\ status' = [status EXCEPT ![r] = "fail"]
  /\ UNCHANGED <<poolState, recVars, alarm, lcnt>>

RequestCallback_BugInCatchToo(w) ==
  LET r == active[w]
      n == IF status[r] = "fail" THEN 2 ELSE 1
  IN
  /\ wst[w] = "request"
  /\ wst' = [wst EXCEPT ![w] = "return"]
  /\ IF QueuedCallbacks + n <= CbQueueSize
       THEN callbacks' = [callbacks EXCEPT ![r] = @ + n] /\ UNCHANGED stranded
       ELSE stranded' = [stranded EXCEPT ![r] = "dropped"] /\ UNCHANGED callbacks
  /\ UNCHANGED <<poolState, pass, pact, rpro, once, alarmVars>>

RequestCallback_BugOnlyOnSuccess(w) ==
  LET r == active[w] IN
  /\ wst[w] = "request"
  /\ wst' = [wst EXCEPT ![w] = "return"]
  /\ callbacks' = [callbacks EXCEPT ![r] = IF status[r] = "ok" THEN @ + 1 ELSE @]
  /\ UNCHANGED <<poolState, pass, pact, stranded, rpro, once, alarmVars>>

\* callbackRequestProcessCallback: its failure on a full queue is not looked at.
RequestCallback(w) ==
  LET r == active[w] IN
  /\ wst[w] = "request"
  /\ wst' = [wst EXCEPT ![w] = "return"]
  /\ IF QueuedCallbacks < CbQueueSize
       THEN callbacks' = [callbacks EXCEPT ![r] = @ + 1] /\ UNCHANGED stranded
       ELSE stranded' = [stranded EXCEPT ![r] = "dropped"] /\ UNCHANGED callbacks
  /\ UNCHANGED <<poolState, pass, pact, rpro, once, alarmVars>>

EvalReturns_BugKeepsState(w) ==
  /\ wst[w] = "return"
  /\ Pool!Finish(w)
  /\ UNCHANGED <<wst, recVars, alarmVars>>

\* processRecordCb returns: by now the record may be in its next pass already.
EvalReturns(w) ==
  /\ wst[w] = "return"
  /\ Pool!Finish(w)
  /\ wst' = [wst EXCEPT ![w] = "idle"]
  /\ UNCHANGED <<recVars, alarmVars>>

-----------------------------------------------------------------------------
(* The second pass, in the callback task, under the record's lock.           *)

\* recGblResetAlarms publishes NSEV and clears it.
Publish(r, new) ==
  /\ alarm' = [alarm EXCEPT ![r] = new]
  /\ nsev' = [nsev EXCEPT ![r] = "none"]

\* recGblFwdLink hands a record that was put to while busy to the scan-once task.
Reprocess(r) ==
  /\ once' = [once EXCEPT ![r] = @ \/ rpro[r]]
  /\ rpro' = [rpro EXCEPT ![r] = FALSE]

SecondPass(r) ==
  /\ Unlocked(r)
  /\ callbacks[r] > 0
  /\ callbacks' = [callbacks EXCEPT ![r] = @ - 1]
  /\ pact' = [pact EXCEPT ![r] = FALSE]
  /\ UNCHANGED <<poolState, wst, pass, stranded, status, lcnt>>

\* processRecord of a device support with PACT = 1, then the record support of EPICS.
CompleteDevice(r) ==
  /\ r \notin PyCalc
  /\ SecondPass(r)
  /\ Publish(r, nsev[r])
  /\ Reprocess(r)

CompletePyCalc_BugAlwaysRaises(r) ==
  /\ r \in PyCalc
  /\ SecondPass(r)
  /\ Publish(r, IF nsev[r] = "none" THEN "CALC" ELSE nsev[r])
  /\ Reprocess(r)

CompletePyCalc_BugNoFwdLink(r) ==
  /\ r \in PyCalc
  /\ SecondPass(r)
  /\ Publish(r, IF status[r] = "fail" /\ nsev[r] = "none" THEN "CALC" ELSE nsev[r])
  /\ UNCHANGED <<once, rpro>>

\* processRecord of pycalc with PACT = 1 raises the alarm of a failure once more.
CompletePyCalc(r) ==
  /\ r \in PyCalc
  /\ SecondPass(r)
  /\ Publish(r, IF status[r] = "fail" /\ nsev[r] = "none" THEN "CALC" ELSE nsev[r])
  /\ Reprocess(r)

-----------------------------------------------------------------------------
(* What else EPICS does to the record, under its lock.                       *)

\* A scan, or a put to a record that is not busy: dbProcess.
Process(r) == Begin(r) /\ UNCHANGED <<rpro, once>>

\* dbProcess of a busy record drops the scan; after MaxLock of them it publishes an alarm.
DropScan(r) ==
  /\ Unlocked(r)
  /\ pact[r]
  /\ IF alarm[r] = "SCAN"
       THEN UNCHANGED <<nsev, alarm, lcnt>>
       ELSE /\ lcnt' = [lcnt EXCEPT ![r] = IF @ > MaxLock THEN @ ELSE @ + 1]
            /\ IF lcnt[r] < MaxLock \/ alarm[r] # "none"
                 THEN UNCHANGED <<nsev, alarm>>
                 ELSE Publish(r, IF nsev[r] = "none" THEN "SCAN" ELSE nsev[r])
  /\ UNCHANGED <<poolState, wst, pass, pact, callbacks, stranded, rpro, status>>

ProcessBusy(r) == DropScan(r) /\ UNCHANGED once

\* dbPutField: process the record, or ask for it to be processed again.
Put(r) ==
  /\ UNCHANGED once
  /\ \/ Begin(r) /\ UNCHANGED rpro
     \/ /\ Unlocked(r)
        /\ pact[r]
        /\ rpro' = [rpro EXCEPT ![r] = TRUE]
        /\ UNCHANGED <<poolState, wst, pass, pact, callbacks, stranded, alarmVars>>

\* The scan-once task.
ProcessOnce(r) ==
  /\ once[r]
  /\ once' = [once EXCEPT ![r] = FALSE]
  /\ \/ Begin(r) /\ UNCHANGED rpro
     \/ DropScan(r)

ClosePool ==
  /\ MayClose
  /\ Pool!Close
  /\ UNCHANGED <<wst, recVars, alarmVars>>

-----------------------------------------------------------------------------
RecordStep(r) ==
  \/ Process(r)
  \/ ProcessBusy(r)
  \/ Put(r)
  \/ ProcessOnce(r)
  \/ ScheduleTask(r)
  \/ FirstPassReturns(r)
  \/ CompleteDevice(r)
  \/ CompletePyCalc(r)

WorkerStep(w) ==
  StartEval(w) \/ EvalOk(w) \/ EvalFail(w) \/ RequestCallback(w) \/ EvalReturns(w)

Next ==
  \/ \E r \in Records : RecordStep(r)
  \/ \E w \in Workers : WorkerStep(w)
  \/ ClosePool

Spec == Init /\ [][Next]_vars

(* Fairness.  A thread inside processRecord goes on; the pool starts what is *)
(* pending (EventuallyStarted of AsyncExec) and every evaluation ends, one   *)
(* way or the other; the callback and scan-once tasks serve their queues,    *)
(* and get the record's lock in the end although others take it too (SF).    *)
(* Nothing obliges anybody to scan or to put.                                *)
Fairness ==
  /\ \A r \in Records :
       /\ WF_vars(ScheduleTask(r))
       /\ WF_vars(FirstPassReturns(r))
       /\ SF_vars(CompleteDevice(r) \/ CompletePyCalc(r))
       /\ SF_vars(ProcessOnce(r))
  /\ \A w \in Workers :
       /\ WF_vars(StartEval(w))
       /\ WF_vars(EvalOk(w) \/ EvalFail(w))
       /\ WF_vars(RequestCallback(w))
       /\ WF_vars(EvalReturns(w))

FairSpec == Spec /\ Fairness

-----------------------------------------------------------------------------
(* Properties.                                                               *)

Evaluating(w, r) == active[w] = r /\ wst[w] \in {"eval", "request"}

\* Where the evaluation that a busy record waits for can be.
Stages(r) ==
  {s \in {"pass", "pending", "worker", "callback"} :
     \/ s = "pass" /\ pass[r] = "begun"
     \/ s = "pending" /\ \E i \in DOMAIN pending : pending[i] = r
     \/ s = "worker" /\ \E w \in Workers : Evaluating(w, r)
     \/ s = "callback" /\ callbacks[r] > 0}

\* PACT is the only thing that keeps two evaluations of one record, or an evaluation and a
\* completion, apart: a busy record has its evaluation in exactly one place, an idle record
\* nowhere (pydev_longout.cpp:118, 131-140, pycalcRecord.cpp:303-340).
OneToken ==
  \A r \in Records :
    /\ IF pact[r] /\ stranded[r] = "no" THEN \E s \in Stages(r) : Stages(r) = {s}
                                        ELSE Stages(r) = {}
    /\ stranded[r] # "no" => pact[r]
    /\ callbacks[r] <= 1
    /\ \A i, j \in DOMAIN pending : pending[i] = r /\ pending[j] = r => i = j
    /\ \A v, w \in Workers : Evaluating(v, r) /\ Evaluating(w, r) => v = w

\* EPICS drops no more completions than there are records without room in the callback queue,
\* and none if it has room for all, although the code does not look at what
\* callbackRequestProcessCallback returns (pydev_longout.cpp:118).
Dropped == {r \in Records : stranded[r] = "dropped"}
DropsBounded ==
  \/ Dropped = {}
  \/ Cardinality(Dropped) + CbQueueSize <= Cardinality(Records)

\* README.md:109 promises that a failure shows in SEVR and STAT: it does, at rest, in every pycalc
\* record (pycalcRecord.cpp:299-300, 324-326), and in the others unless scans of the busy record,
\* more than EPICS drops in silence, have published the alarm before the second pass.
FailureShown ==
  \A r \in Records :
    ~pact[r] /\ status[r] = "fail" => alarm[r] = "CALC" \/ (r \notin PyCalc /\ lcnt[r] > MaxLock)

\* No record at rest shows an alarm of an earlier pass, or the SCAN alarm of a long one, after
\* an evaluation that succeeded (pydev_longout.cpp:107-109).
NoStaleAlarm == \A r \in Records : ~pact[r] /\ status[r] = "ok" => alarm[r] = "none"

\* Between two idle moments a record's code runs exactly once, and before it completes.
cycle ==
  [r \in Records |->
     IF ~pact[r] THEN "idle"
     ELSE IF \/ callbacks[r] > 0
             \/ stranded[r] = "dropped"
             \/ \E w \in Workers : active[w] = r /\ wst[w] = "request"
          THEN "evaluated" ELSE "waiting"]
Cycle == INSTANCE RecordCycle WITH phase <- cycle
CycleSpec == Cycle!Spec

\* A busy record becomes idle again, unless the IOC shuts down or its callback is dropped.
Completes == \A r \in Records : pact[r] ~> (~pact[r] \/ closed \/ stranded[r] # "no")

\* A put to a busy record leads to another pass, although the evaluation under way has read its
\* fields already (Completes and CycleSpec say what becomes of that pass).  It is the pass that is
\* promised and not the value: the result under way may overwrite it first (pydev_longout.cpp:107).
PutReprocesses ==
  \A r \in Records : rpro[r] ~> (pass[r] = "begun" \/ closed \/ stranded[r] # "no")
=============================================================================

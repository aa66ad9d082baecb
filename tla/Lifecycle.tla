----------------------------- MODULE Lifecycle -----------------------------
(***************************************************************************)
(* The threads of an IOC and what they wait for, from the registrar to the *)
(* exit handler (epicsdevice.cpp): the main thread, which initialises the  *)
(* interpreter, runs the pydev command and shuts down; the workers of the  *)
(* pool; threads that Python code starts; and two threads of EPICS, Scan,  *)
(* which processes records, and Callback, which completes them.            *)
(*                                                                         *)
(* Three things are waited for: the GIL, the records' locks, and the pool. *)
(* Code runs under the GIL, and gives it up now and then; pydev.iointr     *)
(* keeps it while scanIoImmediate locks and processes the records of the   *)
(* parameter.  The pool is TaskPool, which AsyncExec implements.           *)
(***************************************************************************)
EXTENDS Naturals, Sequences

CONSTANTS Workers,
          PyThreads,  \* threads that Python code may start
          Records,
          Listed,     \* the records that pydev.iointr scans
          Main, Scan, Callback,
          Nobody, NoTask

Coders == Workers \cup PyThreads \cup {Main}
Threads == Coders \cup {Scan, Callback}

ASSUME LifecycleAssumption ==
  /\ Listed \subseteq Records
  /\ Main # Scan /\ Main # Callback /\ Scan # Callback
  /\ {Main, Scan, Callback} \cap (Workers \cup PyThreads) = {} /\ Workers \cap PyThreads = {}
  /\ Nobody \notin Threads /\ NoTask \notin Records

VARIABLES
  pc,          \* where each thread is
  daemons,     \* the Python threads for which the interpreter does not wait
  python,      \* "none", "up" or "finalized"
  gil,         \* the thread that holds the GIL
  lock,        \* the thread that holds each record's lock
  todo,        \* the records a thread has still to process in pydev.iointr
  pact,        \* the records' PACT
  requested,   \* the records with a callback requested, oldest first
  dropped,     \* the records whose callback EPICS has refused: its queue was full
  pending, active, closed   \* the pool

pool == <<pending, active, closed>>
recVars == <<lock, pact, requested, dropped>>
vars == <<pc, daemons, python, gil, todo, recVars, pool>>

Pool == INSTANCE TaskPool WITH Tasks <- Records, Slots <- Workers

Stages == {"unborn", "idle", "want", "code", "away", "scan", "process", "ended",
           "init", "join", "restore", "finalize", "down"}

TypeOK ==
  /\ Pool!PoolTypeOK
  /\ pc \in [Threads -> Stages]
  /\ daemons \subseteq PyThreads
  /\ python \in {"none", "up", "finalized"}
  /\ gil \in Coders \cup {Nobody}
  /\ lock \in [Records -> Threads \cup {Nobody}]
  /\ todo \in [Coders -> SUBSET Listed]
  /\ pact \in [Records -> BOOLEAN]
  /\ requested \in Seq(Records)
  /\ dropped \subseteq Records

\* pydevRegister, before Py_InitializeEx.
Init ==
  /\ Pool!Init
  /\ pc = [t \in Threads |-> IF t = Main THEN "init" ELSE
                             IF t \in PyThreads THEN "unborn" ELSE "idle"]
  /\ daemons \in SUBSET PyThreads
  /\ python = "none"
  /\ gil = Nobody
  /\ lock = [r \in Records |-> Nobody]
  /\ todo = [t \in Coders |-> {}]
  /\ pact = [r \in Records |-> FALSE]
  /\ requested = <<>>
  /\ dropped = {}

Goes(t, from, to) ==
  /\ pc[t] = from
  /\ pc' = [pc EXCEPT ![t] = to]
  /\ UNCHANGED daemons

-----------------------------------------------------------------------------
(* Code in the interpreter, by any thread that runs some.                    *)

\* PyGILState_Ensure, or the end of a wait in Python code.  Once the interpreter has been
\* finalized the thread waits for ever.
TakeGil(t) ==
  /\ \/ Goes(t, "want", "code")
     \/ Goes(t, "away", "code")
  /\ python = "up" /\ gil = Nobody
  /\ gil' = t
  /\ UNCHANGED <<python, todo, recVars, pool>>

\* The interpreter lets others run, or the code waits for something outside it.  Releasing the
\* GIL between destroy, compile and eval looks the same.
Yield(t) ==
  /\ gil = t
  /\ Goes(t, "code", "away")
  /\ gil' = Nobody
  /\ UNCHANGED <<python, todo, recVars, pool>>

StartThread(t, p) ==
  /\ gil = t /\ pc[t] = "code"
  /\ Goes(p, "unborn", "want")
  /\ UNCHANGED <<python, gil, todo, recVars, pool>>

Push_BugReleasesGil(t) ==
  /\ gil = t
  /\ Goes(t, "code", "scan")
  /\ todo' = [todo EXCEPT ![t] = Listed]
  /\ gil' = Nobody
  /\ UNCHANGED <<python, recVars, pool>>

\* pydev.iointr(param, value), scanIoImmediate: the GIL is kept.
Push(t) ==
  /\ gil = t
  /\ Goes(t, "code", "scan")
  /\ todo' = [todo EXCEPT ![t] = Listed]
  /\ UNCHANGED <<python, gil, recVars, pool>>

PushReturns(t) ==
  /\ todo[t] = {}
  /\ Goes(t, "scan", "code")
  /\ UNCHANGED <<python, gil, todo, recVars, pool>>

-----------------------------------------------------------------------------
(* Records are processed under their lock, by whoever processes them.        *)

Lock(t, r) ==
  /\ lock[r] = Nobody
  /\ lock' = [lock EXCEPT ![r] = t]
  /\ UNCHANGED <<python, gil, todo, pact, requested, dropped, pool>>

LockToPush(t, r) ==
  /\ t \in Coders /\ r \in todo[t]
  /\ Goes(t, "scan", "process")
  /\ Lock(t, r)

LockToScan(r) ==
  /\ pc[Main] # "init"
  /\ Goes(Scan, "idle", "process")
  /\ Lock(Scan, r)

LockToComplete(r) ==
  /\ requested # <<>> /\ r = Head(requested)
  /\ Goes(Callback, "idle", "process")
  /\ Lock(Callback, r)

\* AsyncExec::schedule by the first pass, which returns at once.  Nothing happens to a busy record,
\* and a pool that is closing may refuse.
FirstPass(r) ==
  IF pact[r]
    THEN UNCHANGED <<pact, pool>>
    ELSE /\ pact' = [pact EXCEPT ![r] = TRUE]
         /\ \/ Pool!Submit(r)
            \/ closed /\ UNCHANGED pool

Unlock(r) == lock' = [lock EXCEPT ![r] = Nobody]

ProcessPushed_BugStaysListed(t, r) ==
  /\ t \in Coders /\ lock[r] = t
  /\ Goes(t, "process", "scan")
  /\ FirstPass(r) /\ Unlock(r)
  /\ UNCHANGED <<python, gil, todo, requested, dropped>>

ProcessPushed(t, r) ==
  /\ t \in Coders /\ lock[r] = t
  /\ Goes(t, "process", "scan")
  /\ todo' = [todo EXCEPT ![t] = @ \ {r}]
  /\ FirstPass(r) /\ Unlock(r)
  /\ UNCHANGED <<python, gil, requested, dropped>>

ProcessScanned(r) ==
  /\ lock[r] = Scan
  /\ Goes(Scan, "process", "idle")
  /\ FirstPass(r) /\ Unlock(r)
  /\ UNCHANGED <<python, gil, todo, requested, dropped>>

\* The second pass.
ProcessCompleted(r) ==
  /\ lock[r] = Callback
  /\ Goes(Callback, "process", "idle")
  /\ pact' = [pact EXCEPT ![r] = FALSE]
  /\ requested' = Tail(requested)
  /\ Unlock(r)
  /\ UNCHANGED <<python, gil, todo, dropped, pool>>

-----------------------------------------------------------------------------
(* A worker.                                                                 *)

StartTask(w) ==
  /\ Pool!Start(w)
  /\ Goes(w, "idle", "want")
  /\ UNCHANGED <<python, gil, todo, recVars>>

\* The worker's wait ends and it sees that it is to stop; a last callback may come first.
StopWorker(w) ==
  /\ pc[Main] = "join"
  /\ Goes(w, "idle", "ended")
  /\ UNCHANGED <<python, gil, todo, recVars, pool>>

\* ~PyGIL.
CodeReturns(t, next) ==
  /\ gil = t
  /\ Goes(t, "code", next)
  /\ gil' = Nobody

FinishTask_BugNoCallback(w) ==
  /\ CodeReturns(w, IF pc[Main] = "join" THEN "ended" ELSE "idle")
  /\ Pool!Finish(w)
  /\ UNCHANGED <<python, todo, recVars>>

\* processRecordCb requests the callback of the second pass, and does not look at the answer: the
\* callback queue serves the whole IOC and may be full.  The worker looks at its flag again.
FinishTask(w) ==
  /\ CodeReturns(w, IF pc[Main] = "join" THEN "ended" ELSE "idle")
  /\ \/ requested' = Append(requested, active[w]) /\ UNCHANGED dropped
     \/ dropped' = dropped \cup {active[w]} /\ UNCHANGED requested
  /\ Pool!Finish(w)
  /\ UNCHANGED <<python, todo, lock, pact>>

\* A Python thread ends.
ThreadEnds(p) ==
  /\ CodeReturns(p, "ended")
  /\ UNCHANGED <<python, todo, recVars, pool>>

-----------------------------------------------------------------------------
(* The main thread.                                                          *)

\* PyWrapper::init up to PyEval_SaveThread, AsyncExec::init.
Initialize ==
  /\ Goes(Main, "init", "idle")
  /\ python' = "up"
  /\ UNCHANGED <<gil, todo, recVars, pool>>

\* The pydev command of the shell; "import pydev" of PyWrapper::init is one, too.
ShellCommand ==
  /\ Goes(Main, "idle", "want")
  /\ UNCHANGED <<python, gil, todo, recVars, pool>>

CommandReturns ==
  /\ CodeReturns(Main, "idle")
  /\ UNCHANGED <<python, todo, recVars, pool>>

Exit_BugRestoresFirst ==
  /\ gil = Nobody /\ gil' = Main
  /\ Goes(Main, "idle", "join")
  /\ UNCHANGED <<python, todo, recVars, pool>>

\* pydevUnregister: AsyncExec::shutdown, without the GIL.
Exit ==
  /\ Goes(Main, "idle", "join")
  /\ UNCHANGED <<python, gil, todo, recVars, pool>>

JoinWorkers_BugNoWait ==
  /\ Goes(Main, "join", "restore")
  /\ closed' = TRUE
  /\ UNCHANGED <<python, gil, todo, recVars, pending, active>>

JoinWorkers ==
  /\ \A w \in Workers : pc[w] = "ended"
  /\ Goes(Main, "join", "restore")
  /\ Pool!Close
  /\ UNCHANGED <<python, gil, todo, recVars>>

\* PyWrapper::shutdown: PyEval_RestoreThread, then Py_Finalize, which first waits for the threads
\* that are no daemons and leaves the GIL to them meanwhile.
RestoreThread ==
  /\ gil = Nobody
  /\ Goes(Main, "restore", "finalize")
  /\ UNCHANGED <<python, gil, todo, recVars, pool>>

Alive(p) == pc[p] \notin {"unborn", "ended"}

Finalize ==
  /\ \A p \in PyThreads \ daemons : ~Alive(p)
  /\ gil = Nobody
  /\ Goes(Main, "finalize", "down")
  /\ gil' = Main
  /\ python' = "finalized"
  /\ UNCHANGED <<todo, recVars, pool>>

-----------------------------------------------------------------------------
Processing(r) ==
  \/ \E t \in Coders : LockToPush(t, r) \/ ProcessPushed(t, r)
  \/ LockToScan(r) \/ ProcessScanned(r)
  \/ LockToComplete(r) \/ ProcessCompleted(r)

Coding(t) ==
  \/ TakeGil(t) \/ Yield(t) \/ Push(t) \/ PushReturns(t)
  \/ \E p \in PyThreads : StartThread(t, p)

MainStep ==
  \/ Initialize
  \/ ShellCommand
  \/ CommandReturns
  \/ Exit
  \/ JoinWorkers
  \/ RestoreThread
  \/ Finalize

Next ==
  \/ MainStep
  \/ \E t \in Coders : Coding(t)
  \/ \E w \in Workers : StartTask(w) \/ FinishTask(w) \/ StopWorker(w)
  \/ \E p \in PyThreads : ThreadEnds(p)
  \/ \E r \in Records : Processing(r)

Spec == Init /\ [][Next]_vars

(* Fairness.  Locks and the GIL are handed to everyone who waits for them in *)
(* the end (SF; CPython makes a thread give the GIL up when others want it). *)
(* The code of records and of the shell returns in the end, whatever it      *)
(* pushed meanwhile; that of Python threads need not, but yields.            *)
Fairness ==
  /\ \A t \in Workers \cup PyThreads : SF_vars(TakeGil(t))
  /\ SF_vars(TakeGil(Main) \/ RestoreThread \/ Finalize)
  /\ SF_vars(\E t \in Coders, r \in Records : LockToPush(t, r))
  /\ SF_vars(\E r \in Records : LockToComplete(r))
  /\ SF_vars(CommandReturns) /\ \A w \in Workers : SF_vars(FinishTask(w))
  /\ \A p \in PyThreads : SF_vars(Yield(p) \/ ThreadEnds(p))
  /\ WF_vars(\E t \in Coders : PushReturns(t) \/ \E r \in Records : ProcessPushed(t, r))
  /\ WF_vars(\E r \in Records : ProcessScanned(r))
  /\ WF_vars(\E r \in Records : ProcessCompleted(r))
  /\ \A w \in Workers : WF_vars(StartTask(w) \/ StopWorker(w))
  /\ WF_vars(Initialize \/ JoinWorkers)

FairSpec == Spec /\ Fairness

-----------------------------------------------------------------------------
(* Properties.                                                               *)

\* Whoever holds a record's lock can go on at once: it never waits for the GIL or for another
\* record, although pushes lock records under the GIL and evaluations take the GIL
\* (pywrapper.cpp:23, 114).
LocksAreShort ==
  \A r \in Records : lock[r] # Nobody =>
    /\ pc[lock[r]] = "process"
    /\ lock[r] \in Coders => gil = lock[r]

\* When the interpreter is finalized no worker is in it or will be, no Python thread is inside
\* pydev.iointr, and no thread that will never wake up again holds a record's lock
\* (epicsdevice.cpp:37-38).
FinalizedAlone ==
  python = "finalized" =>
    /\ \A w \in Workers : pc[w] = "ended" /\ active[w] = NoTask
    /\ \A t \in Coders : pc[t] \notin {"code", "scan", "process"}
    /\ \A r \in Records : lock[r] \notin Coders

\* A push returns, whatever the other threads do.
PushesReturn == \A t \in Coders : pc[t] = "scan" ~> pc[t] = "code"

Exiting == pc[Main] \in {"join", "restore", "finalize", "down"}

\* A busy record completes unless the IOC exits or EPICS has refused its callback, which nobody
\* asks for again (pydev_longin.cpp:118): pushes and commands do not keep the workers from the GIL
\* for ever, nor the callbacks from the records' locks.
RecordsComplete == \A r \in Records : pact[r] ~> ~pact[r] \/ Exiting \/ r \in dropped

\* The exit handler ends, unless Python code has started a thread that is no daemon and does not
\* end: Py_Finalize waits for it.
ExitReturns ==
  pc[Main] = "join" ~>
    \/ pc[Main] = "down"
    \/ /\ pc[Main] = "finalize"
       /\ \E p \in PyThreads \ daemons : Alive(p)
=============================================================================

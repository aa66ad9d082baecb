------------------------------- MODULE PyEval -------------------------------
(***************************************************************************)
(* PyWrapper::eval: the arguments of a record's code are entries of the    *)
(* one globDict, under the names pydevVAL, pydevNAME and so on, which all  *)
(* records share.  eval() holds the GIL from the first argument to the     *)
(* conversion of the result, but the interpreter gives it up while the     *)
(* code runs: in a blocking call, or when its switch interval is over.     *)
(* Each global is named by the record whose argument it holds.             *)
(*                                                                         *)
(* Not every name that a code reads gets an argument: a string waveform    *)
(* without elements sets no pydevVAL, and bi and bo set pydevEGU and       *)
(* pydevHOPR for a code that reads pydevZNAM and pydevONAM.                *)
(***************************************************************************)

CONSTANTS Workers, Records,
          Names,    \* the global names of field macros
          Uses,     \* the names that occur in the code of each record
          Argument, \* the name under which a record sets the argument for a name in its code
          Arrays,   \* the names for which a record sets no argument while the array is empty
          NoRecord, Nobody

ASSUME PyEvalAssumption ==
  /\ Uses \in [Records -> SUBSET Names]
  /\ Argument \in [Records -> [Names -> Names]]
  /\ Arrays \in [Records -> SUBSET Names]
  /\ NoRecord \notin Records
  /\ Nobody \notin Workers

VARIABLES
  gil,      \* the holder of the GIL
  glob,     \* globDict
  job,      \* the record a worker evaluates
  stage,       \* where PyWrapper::eval stands in each worker
  args,     \* the arguments that it has still to set
  unset,    \* the names its code reads and for which it sets no argument
  seen,     \* history: the names the running code has read, each with the record it came from
  yielded   \* history: the interpreter has given the GIL up since the code began

vars == <<gil, glob, job, stage, args, unset, seen, yielded>>

\* The names that an evaluation of r sets when none of its arrays is empty.
Bindings(r) == {Argument[r][n] : n \in Uses[r]}

TypeOK ==
  /\ gil \in Workers \cup {Nobody}
  /\ glob \in [Names -> Records \cup {NoRecord}]
  /\ job \in [Workers -> Records \cup {NoRecord}]
  /\ stage \in [Workers -> {"idle", "enter", "args", "code", "away"}]
  /\ \A w \in Workers : stage[w] = "idle" <=> job[w] = NoRecord
  /\ args \in [Workers -> SUBSET Names]
  /\ unset \in [Workers -> SUBSET Names]
  /\ seen \in [Workers -> SUBSET (Names \X (Records \cup {NoRecord}))]
  /\ yielded \in [Workers -> BOOLEAN]

Init ==
  /\ gil = Nobody
  /\ glob = [n \in Names |-> NoRecord]
  /\ job = [w \in Workers |-> NoRecord]
  /\ stage = [w \in Workers |-> "idle"]
  /\ args = [w \in Workers |-> {}]
  /\ unset = [w \in Workers |-> {}]
  /\ seen = [w \in Workers |-> {}]
  /\ yielded = [w \in Workers |-> FALSE]

Goes(w, to) == stage' = [stage EXCEPT ![w] = to]

Takes(w, r) ==
  /\ stage[w] = "idle"
  /\ \A v \in Workers : job[v] # r
  /\ Goes(w, "enter")
  /\ job' = [job EXCEPT ![w] = r]
  /\ seen' = [seen EXCEPT ![w] = {}]
  /\ yielded' = [yielded EXCEPT ![w] = FALSE]
  /\ UNCHANGED <<gil, glob>>

Enter_BugAllFields(w, r) ==
  /\ Takes(w, r)
  /\ args' = [args EXCEPT ![w] = Names]
  /\ unset' = [unset EXCEPT ![w] = {}]

\* A worker takes a record (the evaluations of one record never overlap, see AsyncRecord) and
\* collects the arguments for the names in its code, but for the arrays that are empty.
Enter(w, r) ==
  /\ Takes(w, r)
  /\ \E empty \in SUBSET (Arrays[r] \cap Uses[r]) :
       LET given == {Argument[r][n] : n \in Uses[r] \ empty}
       IN  /\ args' = [args EXCEPT ![w] = given]
           /\ unset' = [unset EXCEPT ![w] = Uses[r] \ given]

TakeGil(w, from, to) ==
  /\ stage[w] = from
  /\ gil = Nobody
  /\ gil' = w
  /\ Goes(w, to)
  /\ UNCHANGED <<glob, job, args, unset, seen, yielded>>

\* PyGIL gil
Acquire(w) == TakeGil(w, "enter", "args")

\* PyDict_SetItemString(globDict, ...) for one argument.
SetArg(w, n) ==
  /\ stage[w] = "args"
  /\ n \in args[w]
  /\ glob' = [glob EXCEPT ![n] = job[w]]
  /\ args' = [args EXCEPT ![w] = @ \ {n}]
  /\ UNCHANGED <<gil, job, stage, unset, seen, yielded>>

RunCode_BugTakesGilAgain(w) ==
  /\ stage[w] = "args"
  /\ args[w] = {}
  /\ Goes(w, "away")
  /\ gil' = Nobody
  /\ UNCHANGED <<glob, job, args, unset, seen, yielded>>

\* PyEval_EvalCode
RunCode(w) ==
  /\ stage[w] = "args"
  /\ args[w] = {}
  /\ Goes(w, "code")
  /\ UNCHANGED <<gil, glob, job, args, unset, seen, yielded>>

\* The code evaluates one of its names.
ReadName(w, n) ==
  /\ stage[w] = "code"
  /\ n \in Uses[job[w]]
  /\ seen' = [seen EXCEPT ![w] = @ \cup {<<n, glob[n]>>}]
  /\ UNCHANGED <<gil, glob, job, stage, args, unset, yielded>>

Yield(w) ==
  /\ stage[w] = "code"
  /\ gil' = Nobody
  /\ Goes(w, "away")
  /\ yielded' = [yielded EXCEPT ![w] = TRUE]
  /\ UNCHANGED <<glob, job, args, unset, seen>>

Resume(w) == TakeGil(w, "away", "code")

\* ~PyGIL on every path: the result, what the code raises, or an argument that Python refuses.
Leave(w) ==
  /\ stage[w] \in {"args", "code"}
  /\ gil' = Nobody
  /\ Goes(w, "idle")
  /\ job' = [job EXCEPT ![w] = NoRecord]
  /\ UNCHANGED <<glob, args, unset, seen, yielded>>

\* PyWrapper::compile throws: the arguments are thrown away and eval() is never called.
Abandon(w) ==
  /\ stage[w] = "enter"
  /\ Goes(w, "idle")
  /\ job' = [job EXCEPT ![w] = NoRecord]
  /\ UNCHANGED <<gil, glob, args, unset, seen, yielded>>

WorkerStep(w) ==
  \/ \E r \in Records : Enter(w, r)
  \/ Acquire(w)
  \/ \E n \in Names : SetArg(w, n) \/ ReadName(w, n)
  \/ RunCode(w)
  \/ Yield(w)
  \/ Resume(w)
  \/ Leave(w)
  \/ Abandon(w)

Next == \E w \in Workers : WorkerStep(w)

Spec == Init /\ [][Next]_vars

-----------------------------------------------------------------------------
(* Properties.                                                               *)

Running(w) == stage[w] \in {"code", "away"}

\* Until the interpreter first gives up the GIL, every name that the running code reads and for
\* which this evaluation sets an argument holds that argument: they are set together under the
\* GIL (pywrapper.cpp:373-447).  The names in unset are not covered.
OwnArgsUntilYield ==
  \A w \in Workers : Running(w) /\ ~yielded[w] =>
    \A n \in Uses[job[w]] \ unset[w] : glob[n] = job[w]

\* What a code finds under a name, if it is not its own record's argument, was set by a record
\* that binds this very name, and it finds it only where its own evaluation set nothing or where
\* a second worker exists; a name it finds undefined is one its own evaluation did not set.
OnlySharedNamesClash ==
  \A w \in Workers : Running(w) =>
    \A n \in Names : \A r \in (Records \cup {NoRecord}) \ {job[w]} : <<n, r>> \in seen[w] =>
      /\ n \in unset[w] \/ \E v \in Workers : v # w
      /\ IF r = NoRecord THEN n \in unset[w] ELSE n \in Bindings(r)

\* README.md:124: PyDevice will "replace them with actual field value right before the Python
\* code is executed": the code of a record sees the fields of that record.  It holds with one
\* worker only (SoleWorkerReadsOwn of EvaluationProofs), and not for the names in unset.
OwnArgs ==
  \A w \in Workers : Running(w) =>
    \A n \in Names \ unset[w], r \in Records \cup {NoRecord} :
      <<n, r>> \in seen[w] => r = job[w]
=============================================================================

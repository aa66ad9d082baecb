----------------------------- MODULE Evaluation -----------------------------
(***************************************************************************)
(* processRecordCb as a whole: the code cache of one record (CodeCache)    *)
(* and the evaluations of all records in the one interpreter (PyEval).     *)
(* The worker that takes the record Cached reads CALC, brings the cache up *)
(* to date before it waits for the GIL, and ends the evaluation with the   *)
(* outcome that eval() or compile() gave it.  While it does, the other     *)
(* workers evaluate the other records, and clients put to CALC.            *)
(***************************************************************************)
EXTENDS CodeCache, PyEval

CONSTANT Cached   \* the record whose code cache is followed

ASSUME EvaluationAssumption == Cached \in Records

evaluationVars == <<evalVars, vars>>

EvaluationInit == CacheInit /\ Init

\* The steps of an evaluation of another record.
OtherRecord(w) ==
  /\ WorkerStep(w)
  /\ job[w] # Cached
  /\ job'[w] # Cached
  /\ UNCHANGED evalVars

Begin(w) == Enter(w, Cached) /\ ReadCalc

\* The cache is brought up to date before eval() is called.
UpdateCache(w) ==
  /\ job[w] = Cached
  /\ stage[w] = "enter"
  /\ Compare \/ (Compile /\ pc' # "idle") \/ Remember
  /\ UNCHANGED vars

\* compile() throws a SyntaxError.
Reject(w) == job[w] = Cached /\ Abandon(w) /\ Compile /\ pc' = "idle"

\* Inside eval(): the code is run if there is any.
InEval(w) ==
  /\ job[w] = Cached
  /\ pc = "eval"
  /\ \/ Acquire(w)
     \/ \E n \in Names : SetArg(w, n) \/ ReadName(w, n)
     \/ bytecode # Null /\ RunCode(w)
     \/ Yield(w)
     \/ Resume(w)
  /\ UNCHANGED evalVars

\* eval() returns or throws; "missing" is found out when all arguments are set.
End(w) ==
  /\ job[w] = Cached
  /\ Leave(w)
  /\ Eval
  /\ outcome' \in {"ok", "raised"} <=> stage[w] = "code"
  /\ outcome' = "missing" => args[w] = {}

EvaluationNext ==
  \/ \E c \in Codes : PutCalc(c) /\ UNCHANGED vars
  \/ \E w \in Workers :
       OtherRecord(w) \/ Begin(w) \/ UpdateCache(w) \/ Reject(w) \/ InEval(w) \/ End(w)

EvaluationSpec == EvaluationInit /\ [][EvaluationNext]_evaluationVars

-----------------------------------------------------------------------------
(* Properties.                                                               *)

\* Code that runs for the record has been compiled from the text of CALC that this pass read:
\* while it is in the interpreter nobody replaces or frees its code object, although destroy()
\* and compile() take and release the GIL on their own (pycalcRecord.cpp:201-207).
RunningCodeIsLive ==
  \A w \in Workers : Running(w) /\ job[w] = Cached => bytecode = want /\ live[want] = 1
=============================================================================

----------------------------- MODULE CodeCache -----------------------------
(***************************************************************************)
(* The compiled code a record keeps between passes: ctx->code and          *)
(* ctx->bytecode in processRecordCb of pycalcRecord.cpp, and in that of    *)
(* every pydev_*.cpp, with PyWrapper::ByteCode, compile, eval and destroy. *)
(* The evaluations of one record never overlap (OneToken of AsyncRecord),  *)
(* so one evaluation at a time is modelled, step by step; a client may     *)
(* change CALC between any two steps.  A Python code object is named by    *)
(* the source it was compiled from.                                        *)
(***************************************************************************)
EXTENDS Integers

CONSTANTS Codes,      \* the sources a client writes to CALC
          Bad,        \* those that Python cannot compile
          Null,       \* a ByteCode without a code object
          Empty       \* the empty string

ASSUME CodeCacheAssumption ==
  /\ Bad \subseteq Codes
  /\ Null \notin Codes
  /\ Empty \notin Bad \cup {Null}

VARIABLES
  calc,     \* CALC
  pc,       \* where processRecordCb stands
  want,     \* its local variable: the code to run in this pass
  code,     \* ctx->code
  bytecode, \* ctx->bytecode
  live,     \* the code objects that still hold a reference, per source
  outcome,  \* how the last evaluation ended
  ran       \* the source of the code object it executed

cacheVars == <<code, bytecode, live>>
evalVars == <<calc, pc, want, cacheVars, outcome, ran>>

CacheTypeOK ==
  /\ calc \in Codes
  /\ pc \in {"idle", "compare", "compile", "remember", "eval"}
  /\ want \in Codes
  /\ code \in Codes \cup {Empty}
  /\ bytecode \in Codes \cup {Null}
  /\ live \in [Codes -> {0, 1}]
  /\ outcome \in {"none", "ok", "raised", "syntax", "refused", "missing"}
  /\ ran \in Codes \cup {Null}

CacheInit ==
  /\ calc \in Codes
  /\ pc = "idle"
  /\ want = calc
  /\ code = Empty
  /\ bytecode = Null
  /\ live = [c \in Codes |-> 0]
  /\ outcome = "none"
  /\ ran = Null

PutCalc(c) ==
  /\ calc' = c
  /\ UNCHANGED <<pc, want, cacheVars, outcome, ran>>

\* std::string code = rec->calc, and the replacement of the macros.
ReadCalc ==
  /\ pc = "idle"
  /\ want' = calc
  /\ pc' = "compare"
  /\ UNCHANGED <<calc, cacheVars, outcome, ran>>

Release(c) == live' = IF c = Null THEN live ELSE [live EXCEPT ![c] = @ - 1]

Compare_BugNoDestroy ==
  /\ pc = "compare"
  /\ pc' = IF code = want THEN "eval" ELSE "compile"
  /\ UNCHANGED <<calc, want, cacheVars, outcome, ran>>

\* ctx->code != code: PyWrapper::destroy drops the reference and leaves a null ByteCode.
Compare ==
  /\ pc = "compare"
  /\ IF code = want
       THEN pc' = "eval" /\ UNCHANGED <<bytecode, live>>
       ELSE pc' = "compile" /\ bytecode' = Null /\ Release(bytecode)
  /\ UNCHANGED <<calc, want, code, outcome, ran>>

Fail(how) == pc' = "idle" /\ outcome' = how /\ UNCHANGED ran

\* PyWrapper::compile and the move into ctx->bytecode, or its SyntaxError.
Compile ==
  /\ pc = "compile"
  /\ IF want \in Bad
       THEN Fail("syntax") /\ UNCHANGED <<bytecode, live>>
       ELSE /\ pc' = "remember"
            /\ bytecode' = want
            /\ live' = [live EXCEPT ![want] = @ + 1]
            /\ UNCHANGED <<outcome, ran>>
  /\ UNCHANGED <<calc, want, code>>

Remember_BugReadsFieldAgain ==
  /\ pc = "remember"
  /\ pc' = "eval"
  /\ code' = calc
  /\ UNCHANGED <<calc, want, bytecode, live, outcome, ran>>

\* ctx->code = code
Remember ==
  /\ pc = "remember"
  /\ pc' = "eval"
  /\ code' = want
  /\ UNCHANGED <<calc, want, bytecode, live, outcome, ran>>

\* PyWrapper::eval: Python may refuse an argument; then a null code object is an EvalError, and
\* any other is executed and may raise.
Eval ==
  /\ pc = "eval"
  /\ \/ Fail("refused")
     \/ bytecode = Null /\ Fail("missing")
     \/ bytecode # Null /\ pc' = "idle" /\ outcome' \in {"ok", "raised"} /\ ran' = bytecode
  /\ UNCHANGED <<calc, want, cacheVars>>

CacheNext ==
  \/ \E c \in Codes : PutCalc(c)
  \/ ReadCalc
  \/ Compare
  \/ Compile
  \/ Remember
  \/ Eval

CacheSpec == CacheInit /\ [][CacheNext]_evalVars

-----------------------------------------------------------------------------
(* Properties.                                                               *)

\* An evaluation never executes an older version of the code than the one it read from CALC,
\* although CALC changes under it (pycalcRecord.cpp:201-207).
RunsWhatItRead == pc = "idle" /\ outcome \in {"ok", "raised"} => ran = want

\* The record owns exactly the code object in ctx->bytecode and none besides: each compile is
\* matched by one destroy, although ByteCode has no reference count of its own
\* (pywrapper.cpp:31-57, 483-488).
NoLeak == \A c \in Codes : live[c] = IF bytecode = c THEN 1 ELSE 0

\* A code object is only ever executed under the source it was compiled from: what the cache
\* remembers and what it holds agree whenever it holds something.
CacheCoherent == bytecode # Null /\ pc # "remember" => bytecode = code

\* pycalcRecord.md:60-61: the code "is evaluated every time the record processes, and so it can
\* be changed at runtime": code that Python can compile is executed whenever it is in CALC.
ValidCodeRuns == outcome = "missing" /\ pc = "idle" => want \in Bad
=============================================================================

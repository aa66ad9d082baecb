---------------------------- MODULE PyCalcRecord ----------------------------
(***************************************************************************)
(* The arrays of a pycalc record: what fetchValues brings in over the      *)
(* input links, what the code gets of it, what processRecordCb makes of    *)
(* the result in VAL and NEVL, and what the second pass sends to OUT.      *)
(* The first and the second pass hold the record's lock, the worker does   *)
(* not; clients put to A, B, ... and to VAL whenever the lock is free.     *)
(* Such a put writes one element or, where NEA or NEVL was larger when the *)
(* client connected, several, and leaves NEA or NEVL as it is, for the     *)
(* record has no put_array_info.  AsyncRecord has the scheduling and the   *)
(* alarms, CodeCache the compilation.                                      *)
(*                                                                         *)
(* FTVL is a type of numbers that holds every value of the instance; an    *)
(* epicsInt32, through which integers go, has Width bits.  Bad is a string *)
(* that does not convert to a number.                                      *)
(***************************************************************************)
EXTENDS Integers, Sequences

CONSTANTS N,         \* the number of input links
          Mea,       \* MEA, MEB, ...
          Mevl,      \* MEVL
          Constant,  \* the value of a constant link
          Offers,    \* the arrays that the other end of a link may hold
          Puts,      \* the elements that clients put
          Results,   \* what the code may return, as converted to a Variant
          Bad,
          Width,
          MaxPass    \* bounds the number of passes

Inputs == 1 .. N

\* A power of two is positive; of powers the provers know no more than that they are numbers.
ASSUME PyCalcRecordAssumption ==
  /\ N \in Nat \ {0} /\ Mea \in [Inputs -> Nat \ {0}] /\ Mevl \in Nat \ {0}
  /\ Constant \in Int /\ Puts \subseteq Seq(Int) /\ Offers \subseteq Seq(Int)
  /\ Bad \notin Int
  /\ Results \subseteq [kind : {"NONE", "LONG", "DOUBLE", "STRING"}, vals : Seq(Int \cup {Bad})]
  /\ \A v \in Results : v.kind = "NONE" => v.vals = <<>>
  /\ Width \in Nat \ {0} /\ 2 ^ Width > 0 /\ MaxPass \in Nat

VARIABLES
  link,      \* whether each input is a "constant" or a "link"
  a, ne,     \* the fields A, B, ... and NEA, NEB, ...
  val, nevl, \* VAL and NEVL
  pc,        \* "idle", "fetch", "queued", "code", "assign" or "done"
  next,      \* the next input to fetch, or element to assign
  arg,       \* the arguments of the code
  result,    \* what the code has returned
  status,    \* processCbStatus
  out,       \* what the last dbPutLink has sent
  fetched,   \* history: what came of each input in this pass
  latest,    \* history: what the other end of each link held when it was fetched
  prior,     \* history: the inputs as the pass found them
  before,    \* history: VAL and NEVL as the evaluation found them
  putArg,    \* history: the inputs that a client has put to between fetch and evaluation
  putVal,    \* history: whether one has put to VAL since the evaluation, or at rest
  passes     \* counts the passes

argVars == <<link, a, ne, arg, fetched, latest, prior, putArg>>
valVars == <<val, nevl, result, status, out, before, putVal>>
vars == <<argVars, valVars, pc, next, passes>>

AtMost(n, m) == IF n <= m THEN n ELSE m

\* getArrayInfo: what a client, or the code, sees of an array with n elements in use.
InUse(array, n) == SubSeq(array, 1, n)

\* What a put, or dbGetLink, leaves of an array.
Overwrite(array, source) ==
  [k \in DOMAIN array |-> IF k <= Len(source) THEN source[k] ELSE array[k]]

TypeOK ==
  /\ link \in [Inputs -> {"constant", "link"}]
  /\ \A i \in Inputs : a[i] \in Seq(Int) /\ Len(a[i]) = Mea[i] /\ ne[i] \in 0 .. Mea[i]
  /\ val \in Seq(Int) /\ Len(val) = Mevl /\ nevl \in 0 .. Mevl
  /\ pc \in {"idle", "fetch", "queued", "code", "assign", "done"}
  /\ next \in Nat
  /\ \A i \in Inputs : arg[i] \in Seq(Int) /\ Len(arg[i]) <= Mea[i]
  /\ status \in {"unset", "ok", "fail"}
  /\ out \in Seq(Int) /\ Len(out) <= Mevl
  /\ fetched \in [Inputs -> {"not", "ok", "failed"}]
  /\ putArg \subseteq Inputs /\ putVal \in {"no", "pass", "rest"}
  /\ passes \in 0 .. MaxPass

Nothing == [kind |-> "NONE", vals |-> <<>>]
NoArrays == [i \in Inputs |-> <<>>]

\* initRecord: cleared buffers, and the value of a constant in the first element.
Init ==
  /\ link \in [Inputs -> {"constant", "link"}]
  /\ a = [i \in Inputs |->
            [k \in 1 .. Mea[i] |-> IF k = 1 /\ link[i] = "constant" THEN Constant ELSE 0]]
  /\ ne = [i \in Inputs |-> IF Mea[i] = 1 THEN 1 ELSE 0]
  /\ val = [k \in 1 .. Mevl |-> 0]
  /\ nevl = 1
  /\ pc = "idle"
  /\ next = 1
  /\ arg = NoArrays
  /\ result = Nothing
  /\ status = "unset"
  /\ out = <<>>
  /\ fetched = [i \in Inputs |-> "not"]
  /\ latest = NoArrays
  /\ prior = NoArrays
  /\ before = <<>>
  /\ putArg = {}
  /\ putVal = "no"
  /\ passes = 0

-----------------------------------------------------------------------------
(* The first pass: processRecord with PACT = 0, and fetchValues.             *)

FirstPass ==
  /\ pc = "idle"
  /\ passes < MaxPass
  /\ passes' = passes + 1
  /\ pc' = "fetch"
  /\ next' = 1
  /\ fetched' = [i \in Inputs |-> "not"]
  /\ prior' = [i \in Inputs |-> <<a[i], ne[i]>>]
  /\ putArg' = {}
  /\ result' = Nothing
  /\ before' = <<>>
  /\ UNCHANGED <<link, a, ne, val, nevl, arg, latest, status, out, putVal>>

NextInput ==
  /\ pc = "fetch"
  /\ next' = next + 1
  /\ pc' = IF next = N THEN "queued" ELSE "fetch"
  /\ UNCHANGED <<link, arg, prior, putArg, valVars, passes>>

\* A constant, a link that is not connected, or one that delivers no elements.
Skip == NextInput /\ UNCHANGED <<a, ne, fetched, latest>>

Fetch_BugCount(source) ==
  /\ NextInput
  /\ link[next] = "link" /\ source # <<>>
  /\ a' = [a EXCEPT ![next] = Overwrite(@, source)]
  /\ fetched' = [fetched EXCEPT ![next] = "ok"]
  /\ latest' = [latest EXCEPT ![next] = source]
  /\ UNCHANGED ne

\* dbGetNelements, dbGetLink: the result of the latter is not looked at, the count is set.
Fetch(source) ==
  /\ NextInput
  /\ link[next] = "link" /\ source # <<>>
  /\ ne' = [ne EXCEPT ![next] = AtMost(Len(source), Mea[next])]
  /\ latest' = [latest EXCEPT ![next] = source]
  /\ \/ /\ a' = [a EXCEPT ![next] = Overwrite(@, source)]
        /\ fetched' = [fetched EXCEPT ![next] = "ok"]
     \/ /\ fetched' = [fetched EXCEPT ![next] = "failed"]
        /\ UNCHANGED a

-----------------------------------------------------------------------------
(* processRecordCb, in a worker.                                             *)

\* With MEA = 1 the argument is the value, otherwise a list of NEA elements.
ReadArguments ==
  /\ pc = "queued"
  /\ pc' = "code"
  /\ arg' = [i \in Inputs |-> IF Mea[i] = 1 THEN a[i] ELSE InUse(a[i], ne[i])]
  /\ UNCHANGED <<link, a, ne, fetched, latest, prior, putArg, valVars, next, passes>>

Evaluated(v) ==
  /\ pc = "code"
  /\ result' = v
  /\ before' = <<val, nevl>>
  /\ putVal' = "no"
  /\ next' = 1
  /\ arg' = NoArrays /\ latest' = NoArrays /\ prior' = NoArrays
  /\ fetched' = [i \in Inputs |-> "not"]
  /\ UNCHANGED <<link, a, ne, putArg, val, out, passes>>

\* PyWrapper::eval throws.
Raise ==
  /\ Evaluated(Nothing)
  /\ pc' = "done"
  /\ status' = "fail"
  /\ UNCHANGED nevl

Return_BugKeepsCount(v) ==
  /\ Evaluated(v)
  /\ pc' = "assign"
  /\ UNCHANGED <<nevl, status>>

\* It returns: the array is emptied.  A scalar is treated like a list of one, None like an empty one.
Return(v) ==
  /\ Evaluated(v)
  /\ pc' = "assign"
  /\ nevl' = 0
  /\ UNCHANGED status

ToInt32(n) == ((n + 2 ^ (Width - 1)) % (2 ^ Width)) - 2 ^ (Width - 1)

\* What the convert routine makes of an element: booleans and integers are cut to an epicsInt32.
ToField(v, k) == IF v.kind = "LONG" THEN ToInt32(v.vals[k]) ELSE v.vals[k]

ToAssign == next <= Len(result.vals) /\ next <= Mevl

AssignElement_BugCountsFirst ==
  /\ pc = "assign" /\ ToAssign
  /\ nevl' = nevl + 1
  /\ IF result.vals[next] = Bad
       THEN pc' = "done" /\ status' = "fail" /\ UNCHANGED <<val, next>>
       ELSE /\ val' = [val EXCEPT ![next] = ToField(result, next)]
            /\ next' = next + 1
            /\ UNCHANGED <<pc, status>>
  /\ UNCHANGED <<argVars, result, out, before, putVal, passes>>

\* One element, or the exception that ends the assignment where it stands.
AssignElement ==
  /\ pc = "assign" /\ ToAssign
  /\ IF result.vals[next] = Bad
       THEN pc' = "done" /\ status' = "fail" /\ UNCHANGED <<val, nevl, next>>
       ELSE /\ val' = [val EXCEPT ![next] = ToField(result, next)]
            /\ nevl' = nevl + 1
            /\ next' = next + 1
            /\ UNCHANGED <<pc, status>>
  /\ UNCHANGED <<argVars, result, out, before, putVal, passes>>

Assigned ==
  /\ pc = "assign" /\ ~ToAssign
  /\ pc' = "done"
  /\ status' = "ok"
  /\ UNCHANGED <<argVars, val, nevl, result, out, before, putVal, next, passes>>

-----------------------------------------------------------------------------
(* The second pass, and what clients do.                                     *)

Complete_BugOnlyOnSuccess ==
  /\ pc = "done"
  /\ pc' = "idle"
  /\ out' = IF status = "ok" THEN InUse(val, nevl) ELSE out
  /\ putVal' = IF putVal = "rest" THEN "pass" ELSE putVal
  /\ UNCHANGED <<argVars, val, nevl, result, status, before, next, passes>>

\* processRecord with PACT = 1: dbPutLink sends VAL to OUT, after a failure too.
Complete ==
  /\ pc = "done"
  /\ pc' = "idle"
  /\ out' = InUse(val, nevl)
  /\ putVal' = IF putVal = "rest" THEN "pass" ELSE putVal
  /\ UNCHANGED <<argVars, val, nevl, result, status, before, next, passes>>

PutArgument(i, s) ==
  /\ pc # "fetch"
  /\ a' = [a EXCEPT ![i] = Overwrite(@, s)]
  /\ a' # a
  /\ putArg' = IF pc \in {"queued", "code"} THEN putArg \cup {i} ELSE {}
  /\ UNCHANGED <<link, ne, arg, fetched, latest, prior, valVars, pc, next, passes>>

PutVal(s) ==
  /\ pc # "fetch"
  /\ val' = Overwrite(val, s)
  /\ val' # val
  /\ putVal' = IF pc = "idle" THEN "rest" ELSE "pass"
  /\ UNCHANGED <<argVars, nevl, result, status, out, before, pc, next, passes>>

Ended == passes = MaxPass /\ pc = "idle" /\ UNCHANGED vars

Next ==
  \/ FirstPass
  \/ Skip
  \/ \E source \in Offers : Fetch(source)
  \/ ReadArguments
  \/ Raise
  \/ \E v \in Results : Return(v)
  \/ AssignElement
  \/ Assigned
  \/ Complete
  \/ \E s \in Puts : PutVal(s) \/ \E i \in Inputs : PutArgument(i, s)
  \/ Ended

Spec == Init /\ [][Next]_vars

-----------------------------------------------------------------------------
(* Properties.                                                               *)

\* Two inputs for which nothing is promised: one whose transfer failed, and an array that no link
\* has delivered yet, so that NEA is 0.
Unfetched(i) ==
  \/ fetched[i] = "failed"
  \/ fetched[i] = "not" /\ Mea[i] > 1 /\ prior[i][2] = 0

\* What the code gets for an input that no client has put to during the pass is what the link
\* delivered in this very pass, as far as it fits, and where nothing was delivered what the field
\* held when the pass began (pycalcRecord.cpp:345-366, 147-192).  Unfetched inputs are excepted.
ArgumentsShown ==
  pc = "code" => \A i \in Inputs \ putArg :
    LET n == AtMost(Len(latest[i]), Mea[i])
        old == prior[i][1]
    IN \/ Unfetched(i)
       \/ arg[i] = IF fetched[i] = "ok" THEN InUse(latest[i], n)
                     ELSE IF Mea[i] = 1 THEN old ELSE InUse(old, prior[i][2])

\* pycalcRecord.md:25-27: constants "will be initialized with the value they are configured with
\* and can be changed vid dbPuts": that value is what the code gets, in a list if MEA > 1 (34-39).
ConstantsReachCode ==
  pc = "code" => \A i \in Inputs \ putArg :
    link[i] = "constant" => arg[i] # <<>> /\ arg[i][1] = prior[i][1][1]

\* pycalcRecord.md:63: "When record processes, it first obtains latest values for the the INPx
\* fields": where a link had something to deliver, that is what the code gets.
LinksReachCode ==
  pc = "code" => \A i \in Inputs \ putArg :
    fetched[i] # "not" => arg[i] = InUse(latest[i], AtMost(Len(latest[i]), Mea[i]))


\* An integer that an epicsInt32 cannot hold: FTVL may, but the code cuts it all the same.
Cut(n) == result.kind = "LONG" /\ ToInt32(n) # n

\* After a pass that succeeded, VAL holds the returned elements, as many as fit, and NEVL counts
\* them; elements that are Cut are excepted.  None assigns no element; what NEVL is then is not
\* promised (pycalcRecord.cpp:206-292).
ResultShown ==
  pc = "idle" /\ status = "ok" /\ putVal = "no" =>
    IF result.kind = "NONE"
      THEN val = before[1]
      ELSE /\ nevl = AtMost(Len(result.vals), Mevl)
           /\ \A k \in 1 .. nevl : Cut(result.vals[k]) \/ val[k] = result.vals[k]
           /\ \A k \in nevl + 1 .. Mevl : val[k] = before[1][k]

\* A pass that fails leaves the array as it was, or cuts it in front of the first element that does
\* not convert: what is in use is never a mixture of two results (pycalcRecord.cpp:206, 250-254).
FailureCutsArray ==
  pc = "idle" /\ status = "fail" /\ putVal = "no" =>
    \/ <<val, nevl>> = before /\ result = Nothing
    \/ \E n \in DOMAIN result.vals :
         /\ nevl = n - 1 /\ result.vals[n] = Bad
         /\ \A k \in 1 .. Mevl : val[k] = IF k < n THEN ToField(result, k) ELSE before[1][k]

\* The other end of OUT has been sent what VAL holds at rest, after a failure too, unless a client
\* has put to VAL since (pycalcRecord.cpp:329).
OutFollowsVal ==
  pc = "idle" /\ status # "unset" /\ putVal # "rest" => out = InUse(val, nevl)
=============================================================================

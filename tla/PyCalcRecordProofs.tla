------------------------- MODULE PyCalcRecordProofs -------------------------
(***************************************************************************)
(* Theorems about PyCalcRecord for any number of inputs, sizes of arrays,  *)
(* links, puts and results: what the code gets, what VAL and NEVL hold     *)
(* after a pass that succeeds or fails, and what OUT has been sent.  The   *)
(* inductive invariant follows the two loops: up to next the inputs have   *)
(* been fetched, or the elements assigned, and from there on they are as   *)
(* the pass, or the evaluation, found them.                                *)
(***************************************************************************)
EXTENDS PyCalcRecord, SequenceTheorems, TLAPS

-----------------------------------------------------------------------------
(* The inductive invariant.                                                  *)

Array(n) == [1 .. n -> Int]

\* The types of the fields, arrays as functions, and of what their histories hold.
FieldTypes ==
  /\ link \in [Inputs -> {"constant", "link"}]
  /\ DOMAIN a = Inputs /\ \A i \in Inputs : a[i] \in Array(Mea[i])
  /\ DOMAIN ne = Inputs /\ \A i \in Inputs : ne[i] \in 0 .. Mea[i]
  /\ val \in Array(Mevl) /\ nevl \in 0 .. Mevl
  /\ \A i \in Inputs : arg[i] \in Seq(Int) /\ Len(arg[i]) <= Mea[i]
  /\ out \in Seq(Int) /\ Len(out) <= Mevl

ControlTypes ==
  /\ pc \in {"idle", "fetch", "queued", "code", "assign", "done"}
  /\ next \in Nat
  /\ status \in {"unset", "ok", "fail"}
  /\ result \in [kind : {"NONE", "LONG", "DOUBLE", "STRING"}, vals : Seq(Int \cup {Bad})]
  /\ result.kind = "NONE" => result.vals = <<>>
  /\ fetched \in [Inputs -> {"not", "ok", "failed"}]
  /\ DOMAIN latest = Inputs /\ \A i \in Inputs : latest[i] \in Seq(Int)
  /\ putArg \subseteq Inputs /\ putVal \in {"no", "pass", "rest"}
  /\ passes \in 0 .. MaxPass

\* What has become of an input that no client has put to.
Traced(i) ==
  LET n == AtMost(Len(latest[i]), Mea[i])
      old == prior[i][1]
  IN /\ old \in Array(Mea[i])
     /\ fetched[i] = "not" => a[i] = old /\ ne[i] = prior[i][2]
     /\ fetched[i] # "not" => latest[i] # <<>> /\ ne[i] = n
     /\ fetched[i] = "failed" => a[i] = old
     /\ fetched[i] = "ok" => a[i] = Overwrite(old, latest[i])

\* fetchValues: the inputs from next on are still as the pass found them.
FetchInv ==
  /\ pc = "fetch" => next \in Inputs /\ \A i \in next .. N : fetched[i] = "not"
  /\ pc \in {"fetch", "queued"} => \A i \in Inputs \ putArg : Traced(i)

\* The first elements hold the result, the others what the evaluation found.
Split(n) == \A k \in 1 .. Mevl : val[k] = IF k < n THEN ToField(result, k) ELSE before[1][k]

\* The assignment: NEVL counts the elements that have been assigned, and they were numbers.
AssignInv ==
  pc = "assign" =>
    /\ next \in 1 .. Len(result.vals) + 1 /\ nevl = next - 1 /\ before[1] \in Array(Mevl)
    /\ \A k \in 1 .. next - 1 : result.vals[k] # Bad
    /\ putVal = "no" => Split(next)

\* What the assignment leaves behind, until a client puts to VAL.
SettledInv ==
  pc \in {"done", "idle"} /\ putVal = "no" =>
    /\ status = "ok" => /\ nevl = AtMost(Len(result.vals), Mevl) /\ Split(nevl + 1)
                        /\ before[1] \in Array(Mevl)
    /\ status = "fail" =>
         \/ <<val, nevl>> = before /\ result = Nothing
         \/ \E n \in DOMAIN result.vals : nevl = n - 1 /\ result.vals[n] = Bad /\ Split(n)

Types == FieldTypes /\ ControlTypes

IInv == Types /\ FetchInv /\ AssignInv /\ SettledInv /\ ArgumentsShown /\ OutFollowsVal

-----------------------------------------------------------------------------
(* Arrays and conversions.                                                   *)

\* What is in use of an array: its type, and its elements.
LEMMA InUseType ==
  ASSUME NEW m \in Nat, NEW s \in Array(m), NEW n \in 0 .. m
  PROVE  InUse(s, n) \in Seq(Int) /\ Len(InUse(s, n)) = n
<1>1. \A k \in 1 .. n : s[k] \in Int
  BY DEF Array
<1> QED
  BY <1>1, SubSeqProperties DEF InUse

LEMMA InUseElements ==
  ASSUME NEW m \in Nat, NEW s \in Array(m), NEW n \in 0 .. m
  PROVE  InUse(s, n) = [k \in 1 .. n |-> s[k]]
<1>1. \A k \in 1 .. n : s[k] \in Int
  BY DEF Array
<1>2. \A k \in 1 .. n : InUse(s, n)[k] = s[k]
  BY <1>1, SubSeqProperties DEF InUse
<1>3. InUse(s, n) = [k \in 1 .. n |-> InUse(s, n)[k]]
  BY InUseType
<1> QED
  BY <1>2, <1>3

\* Arrays that agree in their first elements show the same; an array in full use shows itself.
LEMMA InUseSame ==
  ASSUME NEW l \in Nat, NEW m \in Nat, NEW s \in Array(l), NEW t \in Array(m),
         NEW n \in 0 .. l, n <= m, \A k \in 1 .. n : s[k] = t[k]
  PROVE  InUse(s, n) = InUse(t, n)
<1>1. InUse(s, n) = [k \in 1 .. n |-> s[k]]
  BY InUseElements
<1>2. n \in 0 .. m
  OBVIOUS
<1>3. InUse(t, n) = [k \in 1 .. n |-> t[k]]
  BY <1>2, InUseElements
<1> QED
  BY <1>1, <1>3

LEMMA InUseAll ==
  ASSUME NEW m \in Nat, NEW s \in Array(m)
  PROVE  InUse(s, m) = s
<1>1. InUse(s, m) = [k \in 1 .. m |-> s[k]]
  BY InUseElements
<1> QED
  BY <1>1 DEF Array

LEMMA ArrayIsSeq ==
  ASSUME NEW m \in Nat, NEW s \in Array(m)
  PROVE  s \in Seq(Int) /\ Len(s) = m
BY DEF Array

LEMMA ArrayExtension ==
  ASSUME NEW m \in Nat, NEW s \in Array(m), NEW t \in Array(m), \A k \in 1 .. m : s[k] = t[k]
  PROVE  s = t
BY DEF Array

LEMMA AtMostNat == \A m, n \in Nat : AtMost(m, n) \in Nat /\ AtMost(m, n) <= m /\ AtMost(m, n) <= n
BY DEF AtMost

\* An element that is a number is converted to one.
LEMMA ToFieldInt ==
  ASSUME NEW v \in [kind : {"NONE", "LONG", "DOUBLE", "STRING"}, vals : Seq(Int \cup {Bad})],
         NEW k \in 1 .. Len(v.vals), v.vals[k] # Bad
  PROVE  ToField(v, k) \in Int
<1>1. v.vals[k] \in Int
  OBVIOUS
<1>2. 2 ^ (Width - 1) \in Int /\ 2 ^ Width \in Int /\ 2 ^ Width > 0
  BY PyCalcRecordAssumption
<1>3. ASSUME NEW p \in Int, NEW q \in Int, q > 0, NEW n \in Int
      PROVE  ((n + p) % q) - p \in Int
  BY <1>3
<1> QED
  BY <1>1, <1>2, <1>3 DEF ToField, ToInt32

-----------------------------------------------------------------------------
(* The initial states.                                                       *)

LEMMA InitInv == Init => IInv
<1> SUFFICES ASSUME Init PROVE IInv
  OBVIOUS
<1> USE PyCalcRecordAssumption DEF Init, NoArrays, Nothing
<1>1. FieldTypes
  <2>1. DOMAIN a = Inputs /\ \A i \in Inputs : a[i] \in Array(Mea[i])
    BY DEF Array
  <2>2. DOMAIN ne = Inputs /\ \A i \in Inputs : ne[i] \in 0 .. Mea[i]
    OBVIOUS
  <2>3. val \in Array(Mevl) /\ nevl \in 0 .. Mevl
    BY DEF Array
  <2>4. \A i \in Inputs : arg[i] \in Seq(Int) /\ Len(arg[i]) <= Mea[i]
    OBVIOUS
  <2> QED
    BY <2>1, <2>2, <2>3, <2>4 DEF FieldTypes
<1>2. ControlTypes
  BY DEF ControlTypes
<1> QED
  BY <1>1, <1>2 DEF IInv, Types, FetchInv, AssignInv, SettledInv, ArgumentsShown, OutFollowsVal

-----------------------------------------------------------------------------
(* Types.                                                                    *)

\* A put leaves an array an array, and so does an assignment to one element.
LEMMA OverwriteKeepsArray ==
  ASSUME NEW m \in Nat, NEW s \in Array(m), NEW t \in Seq(Int)
  PROVE  Overwrite(s, t) \in Array(m)
BY DEF Array, Overwrite

LEMMA PutKeepsArray ==
  ASSUME NEW m \in Nat, NEW s \in Array(m), NEW n \in Int, NEW j
  PROVE  [s EXCEPT ![j] = n] \in Array(m)
BY DEF Array

LEMMA FieldTypesStep == Types /\ FetchInv /\ AssignInv /\ [Next]_vars => FieldTypes'
<1> SUFFICES ASSUME Types, FetchInv, AssignInv, [Next]_vars PROVE FieldTypes'
  OBVIOUS
<1> USE PyCalcRecordAssumption DEF Types
<1>1. CASE FirstPass
  BY <1>1 DEF FirstPass, FieldTypes
<1>2. CASE Skip
  BY <1>2 DEF Skip, NextInput, valVars, FieldTypes
<1>3. ASSUME NEW source \in Offers, Fetch(source)
      PROVE  FieldTypes'
  <2> DEFINE n == AtMost(Len(source), Mea[next])
  <2>1. next \in Inputs /\ Len(source) \in Nat /\ n \in 0 .. Mea[next]
    <3>1. next \in Inputs /\ source \in Seq(Int)
      BY <1>3 DEF Fetch, NextInput, FetchInv
    <3>2. Len(source) \in Nat /\ Mea[next] \in Nat
      BY <3>1
    <3> QED
      BY <3>1, <3>2 DEF AtMost
  <2>2. DOMAIN ne' = Inputs /\ \A i \in Inputs : ne'[i] \in 0 .. Mea[i]
    BY <1>3, <2>1 DEF Fetch, FieldTypes
  <2>3. Overwrite(a[next], source) \in Array(Mea[next])
    BY <2>1, OverwriteKeepsArray DEF FieldTypes
  <2>4. DOMAIN a' = Inputs /\ \A i \in Inputs : a'[i] \in Array(Mea[i])
    <3>1. \/ a' = a
          \/ a' = [a EXCEPT ![next] = Overwrite(a[next], source)]
      BY <1>3 DEF Fetch
    <3> QED
      BY <2>1, <2>3, <3>1 DEF FieldTypes
  <2> QED
    BY <1>3, <2>2, <2>4 DEF Fetch, NextInput, valVars, FieldTypes
<1>4. CASE ReadArguments
  <2>1. ASSUME NEW i \in Inputs
        PROVE  arg'[i] \in Seq(Int) /\ Len(arg'[i]) <= Mea[i]
    <3>1. arg'[i] = a[i] \/ arg'[i] = InUse(a[i], ne[i])
      BY <1>4 DEF ReadArguments
    <3>2. Mea[i] \in Nat /\ a[i] \in Array(Mea[i]) /\ ne[i] \in 0 .. Mea[i]
      BY DEF FieldTypes
    <3>3. a[i] \in Seq(Int) /\ Len(a[i]) = Mea[i]
      BY <3>2, ArrayIsSeq
    <3>4. InUse(a[i], ne[i]) \in Seq(Int) /\ Len(InUse(a[i], ne[i])) = ne[i]
      BY <3>2, InUseType
    <3> QED
      BY <3>1, <3>2, <3>3, <3>4
  <2> QED
    BY <1>4, <2>1 DEF ReadArguments, valVars, FieldTypes
<1>5. CASE Raise
  BY <1>5 DEF Raise, Evaluated, NoArrays, FieldTypes
<1>6. ASSUME NEW v \in Results, Return(v)
      PROVE  FieldTypes'
  BY <1>6 DEF Return, Evaluated, NoArrays, FieldTypes
<1>7. CASE AssignElement
  <2>1. CASE result.vals[next] = Bad
    BY <1>7, <2>1 DEF AssignElement, argVars, FieldTypes
  <2>2. CASE result.vals[next] # Bad
    <3>1. next \in 1 .. Len(result.vals) /\ next <= Mevl /\ nevl = next - 1
      BY <1>7 DEF AssignElement, ToAssign, AssignInv, ControlTypes
    <3>2. ToField(result, next) \in Int
      BY <2>2, <3>1, ToFieldInt DEF ControlTypes
    <3>3. val' = [val EXCEPT ![next] = ToField(result, next)] /\ nevl' = nevl + 1
      BY <1>7, <2>2 DEF AssignElement
    <3>4. val' \in Array(Mevl)
      BY <3>2, <3>3, PutKeepsArray DEF FieldTypes
    <3>5. nevl' \in 0 .. Mevl
      BY <3>1, <3>3 DEF FieldTypes
    <3> QED
      BY <1>7, <3>4, <3>5 DEF AssignElement, argVars, FieldTypes
  <2> QED
    BY <2>1, <2>2
<1>8. CASE Assigned
  BY <1>8 DEF Assigned, argVars, FieldTypes
<1>9. CASE Complete
  <2>1. out' \in Seq(Int) /\ Len(out') <= Mevl
    <3>1. val \in Array(Mevl) /\ nevl \in 0 .. Mevl /\ out' = InUse(val, nevl)
      BY <1>9 DEF Complete, FieldTypes
    <3>2. InUse(val, nevl) \in Seq(Int) /\ Len(InUse(val, nevl)) = nevl
      BY <3>1, InUseType
    <3> QED
      BY <3>1, <3>2
  <2> QED
    BY <1>9, <2>1 DEF Complete, argVars, FieldTypes
<1>10. ASSUME NEW n \in Puts, PutVal(n)
       PROVE  FieldTypes'
  <2>1. val' \in Array(Mevl)
    BY <1>10, OverwriteKeepsArray DEF PutVal, FieldTypes
  <2> QED
    BY <1>10, <2>1 DEF PutVal, argVars, FieldTypes
<1>11. ASSUME NEW n \in Puts, NEW i \in Inputs, PutArgument(i, n)
       PROVE  FieldTypes'
  <2>1. Overwrite(a[i], n) \in Array(Mea[i])
    BY OverwriteKeepsArray DEF FieldTypes
  <2>2. DOMAIN a' = Inputs /\ \A j \in Inputs : a'[j] \in Array(Mea[j])
    BY <1>11, <2>1 DEF PutArgument, FieldTypes
  <2> QED
    BY <1>11, <2>2 DEF PutArgument, valVars, FieldTypes
<1>12. CASE UNCHANGED vars
  BY <1>12 DEF vars, argVars, valVars, FieldTypes
<1> QED
  BY <1>1, <1>2, <1>3, <1>4, <1>5, <1>6, <1>7, <1>8, <1>9, <1>10, <1>11, <1>12 DEF Next, Ended

LEMMA ControlTypesStep == Types /\ FetchInv /\ [Next]_vars => ControlTypes'
<1> SUFFICES ASSUME Types, FetchInv, [Next]_vars PROVE ControlTypes'
  OBVIOUS
<1> USE PyCalcRecordAssumption DEF Types
<1>1. CASE FirstPass
  BY <1>1 DEF FirstPass, Nothing, ControlTypes
<1>2. CASE Skip
  BY <1>2 DEF Skip, NextInput, valVars, ControlTypes
<1>3. ASSUME NEW source \in Offers, Fetch(source)
      PROVE  ControlTypes'
  <2>1. fetched' \in [Inputs -> {"not", "ok", "failed"}]
    BY <1>3 DEF Fetch, ControlTypes
  <2>2. DOMAIN latest' = Inputs /\ \A i \in Inputs : latest'[i] \in Seq(Int)
    BY <1>3 DEF Fetch, ControlTypes
  <2> QED
    BY <1>3, <2>1, <2>2 DEF Fetch, NextInput, valVars, ControlTypes
<1>4. CASE ReadArguments
  BY <1>4 DEF ReadArguments, valVars, ControlTypes
<1>5. CASE Raise
  BY <1>5 DEF Raise, Evaluated, NoArrays, Nothing, ControlTypes
<1>6. ASSUME NEW v \in Results, Return(v)
      PROVE  ControlTypes'
  BY <1>6 DEF Return, Evaluated, NoArrays, ControlTypes
<1>7. CASE AssignElement
  BY <1>7 DEF AssignElement, argVars, ControlTypes
<1>8. CASE Assigned
  BY <1>8 DEF Assigned, argVars, ControlTypes
<1>9. CASE Complete
  BY <1>9 DEF Complete, argVars, ControlTypes
<1>10. ASSUME NEW n \in Puts, PutVal(n)
       PROVE  ControlTypes'
  BY <1>10 DEF PutVal, argVars, ControlTypes
<1>11. ASSUME NEW n \in Puts, NEW i \in Inputs, PutArgument(i, n)
       PROVE  ControlTypes'
  BY <1>11 DEF PutArgument, valVars, ControlTypes
<1>12. CASE UNCHANGED vars
  BY <1>12 DEF vars, argVars, valVars, ControlTypes
<1> QED
  BY <1>1, <1>2, <1>3, <1>4, <1>5, <1>6, <1>7, <1>8, <1>9, <1>10, <1>11, <1>12 DEF Next, Ended

-----------------------------------------------------------------------------
(* The inputs, up to the arguments of the code.                              *)

\* An input is traced by its own fields and histories alone.
LEMMA TracedKept ==
  ASSUME NEW i \in Inputs, Traced(i), a'[i] = a[i], ne'[i] = ne[i],
         fetched'[i] = fetched[i], latest'[i] = latest[i], prior'[i] = prior[i]
  PROVE  Traced(i)'
BY DEF Traced

LEMMA FetchStep == Types /\ FetchInv /\ [Next]_vars => FetchInv'
<1> SUFFICES ASSUME Types, FetchInv, [Next]_vars PROVE FetchInv'
  OBVIOUS
<1> USE PyCalcRecordAssumption DEF Types
<1>1. CASE FirstPass
  <2>1. ASSUME NEW i \in Inputs
        PROVE  Traced(i)'
    <3>1. prior'[i][1] = a[i] /\ prior'[i][2] = ne[i] /\ fetched'[i] = "not" /\ a' = a /\ ne' = ne
      BY <1>1 DEF FirstPass
    <3> QED
      BY <3>1 DEF Traced, FieldTypes
  <2>2. next' \in Inputs /\ \A i \in next' .. N : fetched'[i] = "not"
    BY <1>1 DEF FirstPass, Inputs
  <2> QED
    BY <1>1, <2>1, <2>2 DEF FirstPass, FetchInv
<1>2. CASE Skip
  <2>1. ASSUME NEW i \in Inputs \ putArg
        PROVE  Traced(i)'
    BY <1>2, TracedKept DEF Skip, NextInput, FetchInv
  <2>2. pc' = "fetch" => next' \in Inputs /\ \A i \in next' .. N : fetched'[i] = "not"
    BY <1>2 DEF Skip, NextInput, FetchInv, Inputs
  <2> QED
    BY <1>2, <2>1, <2>2 DEF Skip, NextInput, FetchInv
<1>3. ASSUME NEW source \in Offers, Fetch(source)
      PROVE  FetchInv'
  <2>1. next \in Inputs /\ pc = "fetch" /\ fetched[next] = "not"
    BY <1>3 DEF Fetch, NextInput, FetchInv, Inputs
  <2>2. ASSUME NEW i \in Inputs \ putArg, i # next
        PROVE  Traced(i)'
    <3>1. /\ a'[i] = a[i] /\ ne'[i] = ne[i] /\ fetched'[i] = fetched[i]
          /\ latest'[i] = latest[i] /\ prior'[i] = prior[i]
      BY <1>3, <2>2 DEF Fetch, NextInput, FieldTypes, ControlTypes
    <3> QED
      BY <2>1, <2>2, <3>1, TracedKept DEF FetchInv
  <2>3. ASSUME NEW i \in Inputs \ putArg, i = next
        PROVE  Traced(i)'
    <3>1. prior[i][1] \in Array(Mea[i]) /\ a[i] = prior[i][1]
      BY <2>1, <2>3 DEF FetchInv, Traced
    <3>2. latest'[i] = source /\ source # <<>> /\ ne'[i] = AtMost(Len(source), Mea[i]) /\ prior' = prior
      BY <1>3, <2>3 DEF Fetch, NextInput, FieldTypes, ControlTypes
    <3>3. \/ /\ fetched'[i] = "failed" /\ a'[i] = a[i]
          \/ /\ fetched'[i] = "ok"
             /\ a'[i] = Overwrite(a[i], source)
      <4>1. CASE a' = a /\ fetched' = [fetched EXCEPT ![next] = "failed"]
        BY <2>3, <4>1 DEF ControlTypes
      <4>2. CASE /\ fetched' = [fetched EXCEPT ![next] = "ok"]
                 /\ a' = [a EXCEPT ![next] = Overwrite(a[next], source)]
        BY <2>3, <4>2 DEF FieldTypes, ControlTypes
      <4> QED
        BY <1>3, <4>1, <4>2 DEF Fetch
    <3>5. CASE fetched'[i] = "failed"
      BY <3>1, <3>2, <3>3, <3>5 DEF Traced
    <3>6. CASE fetched'[i] = "ok"
      BY <3>1, <3>2, <3>3, <3>6 DEF Traced
    <3> QED
      BY <3>3, <3>5, <3>6
  <2>4. pc' = "fetch" => next' \in Inputs /\ \A i \in next' .. N : fetched'[i] = "not"
    <3>1. next \in 1 .. N /\ next' = next + 1 /\ (pc' = "fetch" => next # N) /\ N \in Nat
      BY <1>3, <2>1 DEF Fetch, NextInput, Inputs
    <3>2. \A i \in Inputs : i # next => fetched'[i] = fetched[i]
      BY <1>3, <2>1 DEF Fetch, ControlTypes
    <3>3. \A i \in next .. N : fetched[i] = "not"
      BY <2>1 DEF FetchInv
    <3> QED
      BY <3>1, <3>2, <3>3 DEF Inputs
  <2> QED
    BY <1>3, <2>2, <2>3, <2>4 DEF Fetch, NextInput, FetchInv
<1>4. CASE ReadArguments
  BY <1>4 DEF ReadArguments, FetchInv
<1>5. CASE Raise
  BY <1>5 DEF Raise, Evaluated, FetchInv
<1>6. ASSUME NEW v \in Results, Return(v)
      PROVE  FetchInv'
  BY <1>6 DEF Return, Evaluated, FetchInv
<1>7. CASE AssignElement
  BY <1>7 DEF AssignElement, FetchInv
<1>8. CASE Assigned
  BY <1>8 DEF Assigned, FetchInv
<1>9. CASE Complete
  BY <1>9 DEF Complete, FetchInv
<1>10. ASSUME NEW n \in Puts, PutVal(n)
       PROVE  FetchInv'
  <2>1. ASSUME NEW i \in Inputs \ putArg, pc = "queued"
        PROVE  Traced(i)'
    BY <1>10, <2>1, TracedKept DEF PutVal, argVars, FetchInv
  <2> QED
    BY <1>10, <2>1 DEF PutVal, argVars, FetchInv
<1>11. ASSUME NEW n \in Puts, NEW i \in Inputs, PutArgument(i, n)
       PROVE  FetchInv'
  <2>1. ASSUME NEW j \in Inputs \ putArg, j # i, pc = "queued"
        PROVE  Traced(j)'
    BY <1>11, <2>1, TracedKept DEF PutArgument, FetchInv, FieldTypes
  <2> QED
    BY <1>11, <2>1 DEF PutArgument, FetchInv
<1>12. CASE UNCHANGED vars
  <2>1. ASSUME NEW i \in Inputs \ putArg, Traced(i)
        PROVE  Traced(i)'
    BY <1>12, <2>1, TracedKept DEF vars, argVars
  <2> QED
    BY <1>12, <2>1 DEF vars, argVars, FetchInv
<1> QED
  BY <1>1, <1>2, <1>3, <1>4, <1>5, <1>6, <1>7, <1>8, <1>9, <1>10, <1>11, <1>12 DEF Next, Ended

\* The argument made of an input that has been traced to its link.
LEMMA ArgumentOfTraced ==
  ASSUME FieldTypes, NEW i \in Inputs, Traced(i), latest[i] \in Seq(Int),
         fetched[i] \in {"not", "ok"}
  PROVE  LET n == AtMost(Len(latest[i]), Mea[i])
             old == prior[i][1]
         IN (IF Mea[i] = 1 THEN a[i] ELSE InUse(a[i], ne[i]))
              = IF fetched[i] = "ok" THEN InUse(latest[i], n)
                  ELSE IF Mea[i] = 1 THEN old ELSE InUse(old, prior[i][2])
<1> DEFINE n == AtMost(Len(latest[i]), Mea[i])
           old == prior[i][1]
<1> HIDE DEF n, old
<1> USE PyCalcRecordAssumption
<1>1. Mea[i] \in Nat /\ Mea[i] # 0 /\ a[i] \in Array(Mea[i]) /\ old \in Array(Mea[i])
  BY DEF FieldTypes, Traced, old
<1>2. CASE fetched[i] = "not"
  BY <1>2 DEF Traced, n, old
<1>3. ASSUME latest[i] # <<>>
      PROVE  n \in 1 .. Mea[i] /\ n <= Len(latest[i])
  <2>1. Len(latest[i]) \in Nat /\ Len(latest[i]) # 0
    BY <1>3
  <2> QED
    BY <1>1, <2>1 DEF AtMost, n
<1>4. CASE fetched[i] = "ok"
  <2>1. ne[i] = n /\ n \in 1 .. Mea[i] /\ n <= Len(latest[i])
    BY <1>3, <1>4 DEF Traced, n
  <2>2. a[i] = Overwrite(old, latest[i])
    BY <1>4 DEF Traced, old
  <2>3. \A k \in 1 .. n : a[i][k] = latest[i][k]
    BY <1>1, <2>1, <2>2 DEF Overwrite, Array
  <2>4. Len(latest[i]) \in Nat /\ latest[i] \in Array(Len(latest[i])) /\ n \in 0 .. Mea[i]
    BY <1>1, <2>1 DEF Array
  <2>5. InUse(a[i], n) = InUse(latest[i], n)
    BY ONLY <1>1, <2>1, <2>3, <2>4, InUseSame
  <2>6. Mea[i] = 1 => InUse(a[i], n) = a[i]
    BY <1>1, <2>1, InUseAll
  <2> QED
    BY <1>4, <2>1, <2>5, <2>6 DEF n
<1> QED
  BY ONLY <1>2, <1>4, fetched[i] \in {"not", "ok"}

LEMMA ArgumentsStep == Types /\ FetchInv /\ ArgumentsShown /\ [Next]_vars => ArgumentsShown'
<1> SUFFICES ASSUME Types, FetchInv, ArgumentsShown, [Next]_vars PROVE ArgumentsShown'
  OBVIOUS
<1>1. CASE ReadArguments
  <2> SUFFICES ASSUME NEW i \in Inputs \ putArg, ~Unfetched(i)
               PROVE  arg'[i] = LET n == AtMost(Len(latest[i]), Mea[i])
                                    old == prior[i][1]
                                IN IF fetched[i] = "ok" THEN InUse(latest[i], n)
                                     ELSE IF Mea[i] = 1 THEN old ELSE InUse(old, prior[i][2])
    BY <1>1 DEF ReadArguments, ArgumentsShown, Unfetched
  <2>1. arg'[i] = IF Mea[i] = 1 THEN a[i] ELSE InUse(a[i], ne[i])
    BY <1>1 DEF ReadArguments
  <2>2. Traced(i) /\ latest[i] \in Seq(Int) /\ fetched[i] \in {"not", "ok"}
    BY <1>1 DEF ReadArguments, FetchInv, Types, ControlTypes, Unfetched
  <2> QED
    BY <2>1, <2>2, ArgumentOfTraced DEF Types
<1>2. CASE pc = "code" /\ UNCHANGED <<pc, arg, fetched, latest, prior>> /\ putArg \subseteq putArg'
  BY <1>2 DEF ArgumentsShown, Unfetched
<1>3. CASE pc' # "code"
  BY <1>3 DEF ArgumentsShown
<1> QED
  <2>1. ASSUME NEW n \in Puts, NEW i \in Inputs, PutArgument(i, n), pc = "code"
        PROVE  UNCHANGED <<pc, arg, fetched, latest, prior>> /\ putArg \subseteq putArg'
    BY <2>1 DEF PutArgument
  <2>2. ASSUME NEW n \in Puts, PutVal(n), pc = "code"
        PROVE  UNCHANGED <<pc, arg, fetched, latest, prior, putArg>>
    BY <2>2 DEF PutVal, argVars
  <2>3. ASSUME NEW n \in Puts, PutVal(n) \/ \E i \in Inputs : PutArgument(i, n), pc # "code"
        PROVE  pc' # "code"
    BY <2>3 DEF PutVal, PutArgument
  <2>4. UNCHANGED vars /\ pc = "code" => UNCHANGED <<pc, arg, fetched, latest, prior, putArg>>
    BY DEF vars, argVars
  <2>5. ASSUME FirstPass \/ Skip \/ (\E source \in Offers : Fetch(source)) \/ Raise
                 \/ (\E v \in Results : Return(v)) \/ AssignElement \/ Assigned \/ Complete
        PROVE  pc' # "code"
    BY <2>5 DEF FirstPass, Skip, Fetch, NextInput, Raise, Return, AssignElement, Assigned, Complete
  <2>6. UNCHANGED vars /\ pc # "code" => pc' # "code"
    BY DEF vars
  <2> QED
    BY <1>1, <1>2, <1>3, <2>1, <2>2, <2>3, <2>4, <2>5, <2>6 DEF Next, Ended

-----------------------------------------------------------------------------
(* The assignment, and what it leaves behind.                                *)

LEMMA SplitKept ==
  ASSUME NEW n, Split(n), UNCHANGED <<val, result, before>>
  PROVE  Split(n)'
BY DEF Split, ToField

\* One more element is assigned: only that one changes.
LEMMA SplitGrows ==
  ASSUME NEW n \in 1 .. Mevl, val \in Array(Mevl), Split(n),
         val' = [val EXCEPT ![n] = ToField(result, n)], UNCHANGED <<result, before>>
  PROVE  Split(n + 1)'
<1> SUFFICES ASSUME NEW k \in 1 .. Mevl
             PROVE  val'[k] = IF k < n + 1 THEN ToField(result, k) ELSE before[1][k]
  BY DEF Split, ToField
<1>1. CASE k = n
  BY <1>1 DEF Array
<1>2. CASE k # n
  <2>1. val'[k] = val[k] /\ (k < n + 1 <=> k < n)
    BY <1>2 DEF Array
  <2> QED
    BY <2>1 DEF Split
<1> QED
  BY <1>1, <1>2

LEMMA AssignStep == Types /\ AssignInv /\ [Next]_vars => AssignInv'
<1> SUFFICES ASSUME Types, AssignInv, [Next]_vars, pc' = "assign" PROVE AssignInv'
  BY DEF AssignInv
<1> USE PyCalcRecordAssumption DEF Types
<1>1. ASSUME NEW v \in Results, Return(v)
      PROVE  AssignInv'
  <2>1. next' = 1 /\ nevl' = 0 /\ val' = val /\ before' = <<val, nevl>> /\ result' = v
    BY <1>1 DEF Return, Evaluated
  <2>2. next' \in 1 .. Len(result'.vals) + 1
    BY <2>1
  <2>3. Split(1)'
    BY <2>1 DEF Split
  <2>4. before'[1] \in Array(Mevl)
    BY <2>1 DEF FieldTypes
  <2> QED
    BY <2>1, <2>2, <2>3, <2>4 DEF AssignInv, Split
<1>2. CASE AssignElement
  <2>1. /\ result.vals[next] # Bad /\ next' = next + 1 /\ nevl' = nevl + 1 /\ putVal' = putVal
        /\ val' = [val EXCEPT ![next] = ToField(result, next)] /\ UNCHANGED <<result, before>>
    BY <1>2 DEF AssignElement
  <2>2. next \in 1 .. Mevl /\ next <= Len(result.vals) /\ nevl = next - 1
    BY <1>2 DEF AssignElement, ToAssign, AssignInv, ControlTypes
  <2>3. next' \in 1 .. Len(result'.vals) + 1 /\ nevl' = next' - 1
    BY <2>1, <2>2 DEF ControlTypes
  <2>4. \A k \in 1 .. next' - 1 : result'.vals[k] # Bad
    BY <1>2, <2>1, <2>2 DEF AssignElement, AssignInv
  <2>5. ASSUME putVal' = "no"
        PROVE  Split(next)'
    <3>1. ASSUME NEW n \in 1 .. Mevl, n = next
          PROVE  Split(n + 1)'
      BY <1>2, <2>1, <2>5, <3>1, SplitGrows DEF AssignElement, AssignInv, FieldTypes
    <3> QED
      BY <2>1, <2>2, <3>1 DEF Split
  <2>6. before'[1] \in Array(Mevl)
    BY <1>2, <2>1 DEF AssignElement, AssignInv
  <2> QED
    BY <2>3, <2>4, <2>5, <2>6 DEF AssignInv
<1>3. ASSUME NEW n \in Puts, PutVal(n)
      PROVE  AssignInv'
  BY <1>3 DEF PutVal, AssignInv
<1>4. CASE pc = "assign" /\ UNCHANGED <<val, nevl, result, before, putVal, next>>
  BY <1>4 DEF AssignInv, Split, ToField
<1> QED
  <2>1. ASSUME NEW n \in Puts, NEW i \in Inputs, PutArgument(i, n)
        PROVE  pc = "assign" /\ UNCHANGED <<val, nevl, result, before, putVal, next>>
    BY <2>1 DEF PutArgument, valVars
  <2>2. UNCHANGED vars => pc = "assign" /\ UNCHANGED <<val, nevl, result, before, putVal, next>>
    BY DEF vars, valVars
  <2>3. ASSUME FirstPass \/ Skip \/ (\E source \in Offers : Fetch(source)) \/ ReadArguments \/ Raise
                 \/ Assigned \/ Complete
        PROVE  FALSE
    BY <2>3 DEF FirstPass, Skip, Fetch, NextInput, ReadArguments, Raise, Assigned, Complete
  <2> QED
    BY <1>1, <1>2, <1>3, <1>4, <2>1, <2>2, <2>3 DEF Next, Ended

LEMMA SettledStep == Types /\ AssignInv /\ SettledInv /\ [Next]_vars => SettledInv'
<1> SUFFICES ASSUME Types, AssignInv, SettledInv, [Next]_vars, pc' \in {"done", "idle"}, putVal' = "no"
             PROVE  SettledInv'
  BY DEF SettledInv
<1> USE PyCalcRecordAssumption DEF Types
<1>1. CASE Raise
  BY <1>1 DEF Raise, Evaluated, SettledInv
<1>2. CASE AssignElement
  <2>1. /\ result.vals[next] = Bad /\ status' = "fail" /\ putVal = "no"
        /\ UNCHANGED <<val, nevl, next, result, before>>
    BY <1>2 DEF AssignElement
  <2>2. next \in DOMAIN result.vals /\ nevl = next - 1 /\ Split(next)
    BY <1>2, <2>1 DEF AssignElement, ToAssign, AssignInv, ControlTypes
  <2>3. ASSUME NEW n, n = next
        PROVE  Split(n)'
    BY <2>1, <2>2, <2>3, SplitKept
  <2> QED
    BY <2>1, <2>2, <2>3 DEF SettledInv
<1>3. CASE Assigned
  <2>1. /\ pc = "assign" /\ status' = "ok" /\ putVal = "no" /\ ~ToAssign
        /\ UNCHANGED <<val, nevl, result, before>>
    BY <1>3 DEF Assigned
  <2>2. nevl = next - 1 /\ nevl \in 0 .. Mevl /\ next \in 1 .. Len(result.vals) + 1
    BY <2>1 DEF AssignInv, FieldTypes
  <2>3. nevl = AtMost(Len(result.vals), Mevl)
    BY <2>1, <2>2 DEF AtMost, ToAssign, ControlTypes
  <2>4. Split(nevl + 1)
    BY <2>1, <2>2 DEF AssignInv, ControlTypes
  <2>5. ASSUME NEW n, n = nevl + 1
        PROVE  Split(n)'
    BY <2>1, <2>4, <2>5, SplitKept
  <2>6. Split(nevl + 1)'
    BY <2>1, <2>5 DEF Split
  <2>7. before'[1] \in Array(Mevl)
    BY <2>1 DEF AssignInv
  <2> QED
    BY <2>1, <2>3, <2>6, <2>7 DEF SettledInv
<1>4. CASE pc \in {"done", "idle"} /\ putVal = "no" /\ UNCHANGED <<val, nevl, result, status, before>>
  BY <1>4 DEF SettledInv, Split, ToField
<1> QED
  <2>1. Complete => pc = "done" /\ putVal = "no" /\ UNCHANGED <<val, nevl, result, status, before>>
    BY DEF Complete
  <2>2. ASSUME NEW n \in Puts, NEW i \in Inputs, PutArgument(i, n)
        PROVE  pc \in {"done", "idle"} /\ putVal = "no" /\ UNCHANGED <<val, nevl, result, status, before>>
    BY <2>2 DEF PutArgument, valVars
  <2>3. UNCHANGED vars => pc \in {"done", "idle"} /\ putVal = "no" /\ UNCHANGED <<val, nevl, result, status, before>>
    BY DEF vars, valVars
  <2>4. ASSUME \/ FirstPass \/ Skip \/ (\E source \in Offers : Fetch(source)) \/ ReadArguments
               \/ (\E v \in Results : Return(v)) \/ (\E n \in Puts : PutVal(n))
        PROVE  FALSE
    BY <2>4 DEF FirstPass, Skip, Fetch, NextInput, ReadArguments, Return, PutVal
  <2> QED
    BY <1>1, <1>2, <1>3, <1>4, <2>1, <2>2, <2>3, <2>4 DEF Next, Ended

LEMMA OutStep == OutFollowsVal /\ [Next]_vars => OutFollowsVal'
<1> SUFFICES ASSUME OutFollowsVal, [Next]_vars, pc' = "idle", putVal' # "rest" PROVE OutFollowsVal'
  BY DEF OutFollowsVal
<1>1. CASE Complete
  BY <1>1 DEF Complete, OutFollowsVal, InUse
<1>2. CASE pc = "idle" /\ UNCHANGED <<val, nevl, status, out, putVal>>
  BY <1>2 DEF OutFollowsVal, InUse
<1> QED
  <2>1. ASSUME NEW n \in Puts, NEW i \in Inputs, PutArgument(i, n)
        PROVE  pc = "idle" /\ UNCHANGED <<val, nevl, status, out, putVal>>
    BY <2>1 DEF PutArgument, valVars
  <2>2. UNCHANGED vars => pc = "idle" /\ UNCHANGED <<val, nevl, status, out, putVal>>
    BY DEF vars, valVars
  <2>3. ASSUME \/ FirstPass \/ Skip \/ (\E source \in Offers : Fetch(source)) \/ ReadArguments \/ Raise
               \/ (\E v \in Results : Return(v)) \/ AssignElement \/ Assigned \/ (\E n \in Puts : PutVal(n))
        PROVE  FALSE
    BY <2>3 DEF FirstPass, Skip, Fetch, NextInput, ReadArguments, Raise, Return, AssignElement, Assigned, PutVal
  <2> QED
    BY <1>1, <1>2, <2>1, <2>2, <2>3 DEF Next, Ended

-----------------------------------------------------------------------------
(* The theorems.                                                             *)

LEMMA NextInv == IInv /\ [Next]_vars => IInv'
BY FieldTypesStep, ControlTypesStep, FetchStep, ArgumentsStep, AssignStep, SettledStep, OutStep
   DEF IInv, Types

\* The invariant holds of every behaviour.
THEOREM Invariance == Spec => []IInv
<1> QED
  BY InitInv, NextInv, PTL DEF Spec

\* Every field and history keeps its type: the arrays their sizes, NEA, NEB, ... and NEVL within
\* them (pycalcRecord.cpp:130-160, 345-366), whatever the other ends and the code deliver.
THEOREM TypeCorrect == Spec => []TypeOK
<1>1. IInv => TypeOK
  <2> SUFFICES ASSUME IInv PROVE TypeOK
    OBVIOUS
  <2>1. \A i \in Inputs : a[i] \in Seq(Int) /\ Len(a[i]) = Mea[i] /\ ne[i] \in 0 .. Mea[i]
    <3> SUFFICES ASSUME NEW i \in Inputs
                 PROVE  a[i] \in Seq(Int) /\ Len(a[i]) = Mea[i] /\ ne[i] \in 0 .. Mea[i]
      OBVIOUS
    <3>1. Mea[i] \in Nat /\ a[i] \in Array(Mea[i]) /\ ne[i] \in 0 .. Mea[i]
      BY PyCalcRecordAssumption DEF IInv, Types, FieldTypes
    <3> QED
      BY <3>1, ArrayIsSeq
  <2>2. val \in Seq(Int) /\ Len(val) = Mevl
    BY PyCalcRecordAssumption, ArrayIsSeq DEF IInv, Types, FieldTypes
  <2> QED
    BY <2>1, <2>2 DEF IInv, Types, FieldTypes, ControlTypes, TypeOK
<1> QED
  BY Invariance, <1>1, PTL

\* For any inputs and sizes the code gets of every input that no client has put to in this pass
\* what its link delivered in this pass, and otherwise what the field held when the pass began
\* (pycalcRecord.cpp:345-366, 147-192).  Nothing is said of a transfer that failed, nor of an array
\* whose NEA is still 0.
THEOREM ArgumentsAlwaysShown == Spec => []ArgumentsShown
<1>1. IInv => ArgumentsShown
  BY DEF IInv
<1> QED
  BY Invariance, <1>1, PTL

\* After a pass that succeeded VAL holds the result as far as it fits, but for integers cut to 32
\* bits, whatever clients put before the code returned, and its other elements are untouched; all
\* are if the code returned None (pycalcRecord.cpp:206-292).
THEOREM ResultAlwaysShown == Spec => []ResultShown
<1>1. IInv => ResultShown
  <2> SUFFICES ASSUME IInv, pc = "idle", status = "ok", putVal = "no"
               PROVE  IF result.kind = "NONE" THEN val = before[1]
                      ELSE /\ nevl = AtMost(Len(result.vals), Mevl)
                           /\ \A k \in 1 .. nevl :
                                Cut(result.vals[k]) \/ val[k] = result.vals[k]
                           /\ \A k \in nevl + 1 .. Mevl : val[k] = before[1][k]
    BY DEF ResultShown
  <2>1. nevl = AtMost(Len(result.vals), Mevl) /\ Split(nevl + 1)
    BY DEF IInv, SettledInv
  <2>2. nevl \in 0 .. Mevl /\ Mevl \in Nat
    BY PyCalcRecordAssumption DEF IInv, Types, FieldTypes
  <2>3. \A k \in 1 .. nevl : val[k] = ToField(result, k)
    BY <2>1, <2>2 DEF Split
  <2>4. \A k \in nevl + 1 .. Mevl : val[k] = before[1][k]
    BY <2>1, <2>2 DEF Split
  <2>5. CASE result.kind = "NONE"
    <3>1. result.vals = <<>> /\ val \in Array(Mevl) /\ before[1] \in Array(Mevl)
      BY <2>5 DEF IInv, Types, ControlTypes, FieldTypes, SettledInv
    <3>2. nevl = 0
      BY <2>1, <2>2, <3>1 DEF AtMost
    <3>3. \A k \in 1 .. Mevl : val[k] = before[1][k]
      BY <2>2, <2>4, <3>2
    <3>4. val = before[1]
      BY <2>2, <3>1, <3>3, ArrayExtension
    <3> QED
      BY <2>5, <3>4
  <2>6. CASE result.kind # "NONE"
    BY <2>1, <2>3, <2>4, <2>6 DEF ToField, Cut
  <2> QED
    BY <2>5, <2>6
<1> QED
  BY Invariance, <1>1, PTL

\* A pass that failed has left VAL and NEVL alone, or cut them at the element that does not
\* convert: never a mixture of two results in use (pycalcRecord.cpp:206, 250-254).
THEOREM FailureAlwaysCuts == Spec => []FailureCutsArray
<1>1. IInv => FailureCutsArray
  BY DEF IInv, SettledInv, Split, FailureCutsArray
<1> QED
  BY Invariance, <1>1, PTL

\* OUT has been sent what VAL holds at rest, after a failure too, until a client puts to VAL (pycalcRecord.cpp:329).
THEOREM OutAlwaysFollows == Spec => []OutFollowsVal
<1>1. IInv => OutFollowsVal
  BY DEF IInv
<1> QED
  BY Invariance, <1>1, PTL
=============================================================================

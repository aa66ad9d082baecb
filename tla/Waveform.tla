------------------------------ MODULE Waveform ------------------------------
(***************************************************************************)
(* What pydev_waveform.cpp does to the array of a waveform record: the     *)
(* argument is built from the buffer, the code returns a list, and the     *)
(* converted list is copied into the buffer, element by element and        *)
(* without the record's lock, while clients put arrays to the record.      *)
(* AsyncRecord has the scheduling and the alarms of the record.            *)
(*                                                                         *)
(* A number of type DOUBLE is counted in units of 1 / Unit; an integer     *)
(* FTVL has Width bits.  A string is a sequence of characters, and an      *)
(* element of a string array a cell of Size characters (MAX_STRING_SIZE).  *)
(***************************************************************************)
EXTENDS Integers, Sequences, FiniteSets, SequencesExt

CONSTANTS Kinds,      \* the FTVL of this instance: "LONG" stands for every integer type
          NELM, Size, Width, Unit,
          Char, NUL,  \* the characters, and the one that ends a string
          Results,    \* the Python lists that the code may return
          Puts(_),    \* the arrays that clients put to a record of this FTVL
          Foreign,    \* the arrays that other records leave in the global pydevVAL
          MaxPass     \* bounds the number of passes

\* What an element of a list may be; see VectorType.
ElementTypes == {"BOOL", "LONG", "DOUBLE", "STRING", "TEXT", "OTHER"}

\* What an element of the array stands for.
Items(t) ==
  CASE t = "STRING" -> Seq(Char)
    [] t = "LONG" -> -(2 ^ (Width - 1)) .. 2 ^ (Width - 1) - 1
    [] OTHER -> Int

\* No string holds a NUL: they are C strings.  dbPut cuts what is put to NELM elements.  Of powers
\* the provers know no more than that they are numbers.
ASSUME WaveformAssumption ==
  /\ Kinds \subseteq {"LONG", "DOUBLE", "STRING"}
  /\ NELM \in Nat \ {0} /\ Size \in Nat \ {0} /\ Width \in Nat \ {0} /\ Unit \in Nat \ {0}
  /\ 2 ^ (Width - 1) > 0 /\ 2 ^ Width = 2 * 2 ^ (Width - 1)
  /\ NUL \notin Char
  /\ Results \subseteq Seq([type : ElementTypes, n : Int, s : Seq(Char)])
  /\ \A t \in Kinds : \A values \in Puts(t) : values \in Seq(Items(t)) /\ Len(values) <= NELM
  /\ Foreign \subseteq Seq(Seq(Char))
  /\ MaxPass \in Nat

VARIABLES
  ftvl,    \* FTVL
  buf,     \* the buffer at BPTR
  nord,    \* NORD, the number of elements in use
  pc,      \* where processRecordCb stands
  copy,    \* the vector that is read from the buffer, or written to it
  at,      \* the elements copied so far
  limit,   \* the elements that the copy of numbers goes to
  arg,     \* the global pydevVAL; empty if it does not exist
  status,  \* processCbStatus
  before,  \* history: the array as the pass began
  found,   \* history: the buffer as the result found it
  echoed,  \* history: the code returned its argument as it was
  touched, \* history: when a client last put to the array
  passes   \* counts the passes

vars == <<ftvl, buf, nord, pc, copy, at, limit, arg, status, before, found, echoed, touched, passes>>

Lesser(m, n) == IF m < n THEN m ELSE n

\* The string that a cell shows: what comes before the first NUL.
Text(cell) == SubSeq(cell, 1, Cardinality({i \in 1 .. Size : \A j \in 1 .. i : cell[j] # NUL}))

\* What a client puts into a cell, always with the NUL.
Cell(s) == [i \in 1 .. Size |-> IF i <= Len(s) /\ i < Size THEN s[i] ELSE NUL]

Shown(value) == IF ftvl = "STRING" THEN Text(value) ELSE value
Array == [i \in 1 .. nord |-> Shown(buf[i])]

Elements == IF ftvl = "STRING" THEN {c \in Seq(Char \cup {NUL}) : Len(c) = Size} ELSE Items(ftvl)

TypeOK ==
  /\ ftvl \in Kinds
  /\ DOMAIN buf = 1 .. NELM /\ \A i \in 1 .. NELM : buf[i] \in Elements
  /\ nord \in 0 .. NELM
  /\ pc \in {"idle", "queued", "read", "code", "count", "limit", "write", "done", "undefined"}
  /\ at \in 0 .. NELM /\ limit \in 0 .. NELM
  /\ status \in {"unset", "ok", "fail"}
  /\ echoed \in BOOLEAN /\ touched \in {"no", "early", "late"}
  /\ passes \in 0 .. MaxPass

Init ==
  /\ ftvl \in Kinds
  /\ buf = [i \in 1 .. NELM |-> IF ftvl = "STRING" THEN Cell(<<>>) ELSE 0]
  /\ nord = 0
  /\ pc = "idle"
  /\ copy = <<>>
  /\ at = 0
  /\ limit = 0
  /\ arg = <<>>
  /\ status = "unset"
  /\ before = <<>>
  /\ found = buf
  /\ echoed = FALSE
  /\ touched = "no"
  /\ passes = 0

-----------------------------------------------------------------------------
(* From a Python list to the vector for the buffer.  An element of a list    *)
(* has a type, a value n (of a string: the number it begins with) and, as    *)
(* what to_string or the code makes of it, a string s.  "TEXT" is a string   *)
(* that does not begin with a number, "OTHER" what convert() does not know,  *)
(* bytes among it.  DOUBLE and STRING count units.                           *)

VectorType(e) ==
  CASE e.type \in {"BOOL", "LONG"} -> "VECTOR_LONG"
    [] e.type = "DOUBLE" -> "VECTOR_DOUBLE"
    [] e.type \in {"STRING", "TEXT"} -> "VECTOR_STRING"
    [] OTHER -> "NONE"

\* PyWrapper::convert: the first element it knows decides the type of the vector; elements of
\* another are skipped.  A bool is an int too and is pushed twice.
Pushed(v, e) ==
  IF VectorType(e) = "NONE" \/ (v # <<>> /\ VectorType(e) # VectorType(v[1])) THEN v
  ELSE IF e.type = "BOOL" THEN v \o <<e, e>> ELSE Append(v, e)

Convert(list) ==
  LET vector[i \in 0 .. Len(list)] == IF i = 0 THEN <<>> ELSE Pushed(vector[i - 1], list[i])
  IN vector[Len(list)]

ToInt(n) == ((n + 2 ^ (Width - 1)) % (2 ^ Width)) - 2 ^ (Width - 1)
Truncated(n) == IF n >= 0 THEN n \div Unit ELSE -((-n) \div Unit)

\* stoll and stod throw on a string that is no number.
Convertible(vector) == ftvl = "STRING" \/ \A i \in DOMAIN vector : vector[i].type # "TEXT"

\* get_string_array, get_double_array, get_long_array, and the width of the element.
Value(e) ==
  CASE ftvl = "STRING" -> e.s
    [] ftvl = "DOUBLE" -> IF e.type \in {"DOUBLE", "STRING"} THEN e.n ELSE e.n * Unit
    [] OTHER -> ToInt(IF e.type \in {"DOUBLE", "STRING"} THEN Truncated(e.n) ELSE e.n)

\* The argument as a Python list.
Echo ==
  [i \in DOMAIN arg |->
     IF ftvl = "STRING" THEN [type |-> "TEXT", n |-> 0, s |-> arg[i]]
                        ELSE [type |-> ftvl, n |-> arg[i], s |-> <<>>]]

-----------------------------------------------------------------------------
(* A pass.                                                                   *)

\* A client puts an array: the record's lock does not keep the worker out.
Put(values) ==
  /\ nord' = Len(values)
  /\ buf' = [i \in 1 .. NELM |->
               IF i > Len(values) THEN buf[i]
               ELSE IF ftvl = "STRING" THEN Cell(values[i]) ELSE values[i]]
  /\ touched' = IF pc \in {"queued", "read", "code", "count"} THEN "early" ELSE "late"
  /\ UNCHANGED <<ftvl, pc, copy, at, limit, arg, status, before, found, echoed, passes>>

FirstPass ==
  /\ pc = "idle"
  /\ passes < MaxPass
  /\ passes' = passes + 1
  /\ pc' = "queued"
  /\ before' = Array
  /\ touched' = "no"
  /\ UNCHANGED <<ftvl, buf, nord, copy, at, limit, arg, status, found, echoed>>

\* The vector of strings gets its size before the loop, the others grow.
StartRead ==
  /\ pc = "queued"
  /\ pc' = "read"
  /\ copy' = IF ftvl = "STRING" THEN [i \in 1 .. nord |-> <<>>] ELSE <<>>
  /\ at' = 0
  /\ UNCHANGED <<ftvl, buf, nord, limit, arg, status, before, found, echoed, touched, passes>>

ReadLimit_BugNelm == NELM

\* The loop over strings looks at NORD each time; numbers are read up to NELM.
ReadLimit == IF ftvl = "STRING" THEN nord ELSE NELM

\* A string beyond the size of the vector is undefined behaviour.
ReadElement ==
  /\ pc = "read"
  /\ at < ReadLimit
  /\ at' = at + 1
  /\ CASE ftvl # "STRING" -> copy' = Append(copy, buf[at + 1]) /\ UNCHANGED pc
       [] ftvl = "STRING" /\ at < Len(copy) -> copy' = [copy EXCEPT ![at + 1] = Text(buf[at + 1])] /\ UNCHANGED pc
       [] OTHER -> pc' = "undefined" /\ UNCHANGED copy
  /\ UNCHANGED <<ftvl, buf, nord, limit, arg, status, before, found, echoed, touched, passes>>

SetArgument_BugOnlyOnce ==
  /\ pc = "read"
  /\ at >= ReadLimit
  /\ pc' = "code"
  /\ arg' = IF arg = <<>> THEN copy ELSE arg
  /\ UNCHANGED <<ftvl, buf, nord, copy, at, limit, status, before, found, echoed, touched, passes>>

\* Without an argument the global stays as an earlier evaluation, or another record's, left it.
SetArgument ==
  /\ pc = "read"
  /\ at >= ReadLimit
  /\ pc' = "code"
  /\ IF copy # <<>> THEN arg' = copy ELSE arg' \in {arg} \cup Foreign
  /\ UNCHANGED <<ftvl, buf, nord, copy, at, limit, status, before, found, echoed, touched, passes>>

\* catch (std::exception&)
Fail ==
  /\ pc' = "done"
  /\ status' = "fail"
  /\ UNCHANGED <<nord, copy, echoed>>

\* The code throws, or returns what is not a list: the getters of arrays throw.
Raise ==
  /\ pc = "code"
  /\ Fail
  /\ UNCHANGED <<ftvl, buf, at, limit, arg, before, found, touched, passes>>

Return_BugNordBeforeConversion(list) ==
  LET vector == Convert(list) IN
  /\ pc = "code"
  /\ nord' = Lesser(Len(vector), NELM)
  /\ IF Convertible(vector)
       THEN /\ copy' = [i \in DOMAIN vector |-> Value(vector[i])]
            /\ echoed' = (arg # <<>> /\ list = Echo)
            /\ pc' = "count"
            /\ UNCHANGED status
       ELSE pc' = "done" /\ status' = "fail" /\ UNCHANGED <<copy, echoed>>
  /\ UNCHANGED <<ftvl, buf, at, limit, arg, before, found, touched, passes>>

\* The list is converted as a whole, or refused, before the record is written.
Return(list) ==
  LET vector == Convert(list) IN
  /\ pc = "code"
  /\ IF Convertible(vector)
       THEN /\ copy' = [i \in DOMAIN vector |-> Value(vector[i])]
            /\ echoed' = (arg # <<>> /\ list = Echo)
            /\ pc' = "count"
            /\ UNCHANGED <<nord, status>>
       ELSE Fail
  /\ UNCHANGED <<ftvl, buf, at, limit, arg, before, found, touched, passes>>

\* NORD first, then the elements.
SetNord ==
  /\ pc = "count"
  /\ pc' = IF ftvl = "STRING" THEN "write" ELSE "limit"
  /\ nord' = Lesser(Len(copy), NELM)
  /\ found' = buf
  /\ at' = 0
  /\ UNCHANGED <<ftvl, buf, copy, limit, arg, status, before, echoed, touched, passes>>

\* The copy of numbers reads NORD again, once, for its length.
SetLimit ==
  /\ pc = "limit"
  /\ pc' = "write"
  /\ limit' = nord
  /\ UNCHANGED <<ftvl, buf, nord, copy, at, arg, status, before, found, echoed, touched, passes>>

\* The loop over strings looks at NORD each time.
WriteLimit == IF ftvl = "STRING" THEN nord ELSE limit

Written_BugSentinelEarly(cell, s) ==
  [i \in 1 .. Size |-> IF i >= Size - 1 THEN NUL ELSE IF i <= Len(s) THEN s[i] ELSE cell[i]]

\* The characters of s and a NUL at the end of the cell; none after s.
Written(cell, s) ==
  [i \in 1 .. Size |-> IF i = Size THEN NUL ELSE IF i <= Len(s) THEN s[i] ELSE cell[i]]

\* An element beyond the vector is undefined behaviour.
WriteElement ==
  /\ pc = "write"
  /\ at < WriteLimit
  /\ at' = at + 1
  /\ IF at < Len(copy)
       THEN /\ buf' = [buf EXCEPT ![at + 1] =
                         IF ftvl = "STRING" THEN Written(@, copy[at + 1]) ELSE copy[at + 1]]
            /\ UNCHANGED pc
       ELSE pc' = "undefined" /\ UNCHANGED buf
  /\ UNCHANGED <<ftvl, nord, copy, limit, arg, status, before, found, echoed, touched, passes>>

Succeed ==
  /\ pc = "write"
  /\ at >= WriteLimit
  /\ pc' = "done"
  /\ status' = "ok"
  /\ UNCHANGED <<ftvl, buf, nord, copy, at, limit, arg, before, found, echoed, touched, passes>>

Complete ==
  /\ pc = "done"
  /\ pc' = "idle"
  /\ UNCHANGED <<ftvl, buf, nord, copy, at, limit, arg, status, before, found, echoed, touched, passes>>

Stopped ==
  /\ pc = "idle" => passes = MaxPass
  /\ pc \in {"idle", "undefined"}
  /\ UNCHANGED vars

Next ==
  \/ \E values \in Puts(ftvl) : pc # "undefined" /\ Put(values)
  \/ FirstPass
  \/ StartRead
  \/ ReadElement
  \/ SetArgument
  \/ Raise
  \/ \E list \in Results \cup (IF arg = <<>> THEN {} ELSE {Echo}) : Return(list)
  \/ SetNord
  \/ SetLimit
  \/ WriteElement
  \/ Succeed
  \/ Complete
  \/ Stopped

Spec == Init /\ [][Next]_vars

-----------------------------------------------------------------------------
(* Properties.                                                               *)

AtRest(how) == pc = "idle" /\ status = how

\* After a pass that succeeded the record shows the converted list up to NELM, whatever was put
\* before the copy.  A string is cut to its cell, and shown as returned unless the element held
\* a longer one, whose tail then follows it (pydev_waveform.cpp:82-103).  After a pass that
\* failed the record shows the array it had: every conversion that can throw is done before
\* NORD is written (pydev_waveform.cpp:216-225).
ArrayAtRest ==
  /\ AtRest("ok") /\ touched # "late" =>
       /\ nord = Lesser(Len(copy), NELM)
       /\ \A i \in 1 .. nord :
            IF ftvl # "STRING" THEN buf[i] = copy[i]
            ELSE LET cut == SubSeq(copy[i], 1, Lesser(Len(copy[i]), Size - 1))
                     old == Text(found[i])
                 IN \/ Text(buf[i]) = cut
                    \/ Len(old) > Len(cut) /\ Text(buf[i]) = cut \o SubSeq(old, Len(cut) + 1, Len(old))
  /\ AtRest("fail") /\ touched = "no" => Array = before

\* The code sees the record's own array, and after it what the buffer holds up to NELM; a
\* string array without elements is the exception (pydev_waveform.cpp:181-202).
ArgumentShown ==
  pc = "code" /\ touched = "no" /\ (ftvl = "STRING" => nord > 0) => IsPrefix(Array, arg)

\* Code that only returns its VAL loses no element and no character (pydev_waveform.cpp:181-200, 216-225).
EchoKeepsArray ==
  AtRest("ok") /\ echoed /\ touched = "no" /\ (ftvl = "STRING" => before # <<>>)
    => IsPrefix(before, Array)

\* Vectors are read and written within their size unless a client's put changes NORD after it
\* has sized one, in the middle of a loop or before the copy reads it again
\* (pydev_waveform.cpp:38-39, 85, 192).
UndefinedNeedsPut == pc = "undefined" => touched # "no"
=============================================================================

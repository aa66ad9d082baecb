--------------------------- MODULE DeviceSupport ---------------------------
(***************************************************************************)
(* What a pass does to the fields of a scalar record: the reading of VAL   *)
(* into the argument of the code, the getters of Variant, the assignment   *)
(* of the result in processRecordCb of each pydev_*.cpp, and the           *)
(* conversions with RVAL and OVAL that the record supports of EPICS make   *)
(* before and after.  One record of any of the Types is modelled; clients  *)
(* put to VAL at any moment, between two accesses of the worker as well:   *)
(* it does not lock the record.  AsyncRecord has the scheduling and the    *)
(* alarms.                                                                 *)
(*                                                                         *)
(* A double is counted in units of 1 / Unit, so that the divisions by the  *)
(* slope and by the smoothing are exact.  An epicsInt32 has Width bits, an *)
(* epicsEnum16 EnumWidth.  A text is a sequence of characters.             *)
(* An assignment like val -= aoff is one step: a put between its load and  *)
(* its store is overwritten, as if nobody had put.                         *)
(***************************************************************************)
EXTENDS Integers, Sequences

CONSTANTS Types,            \* the record types of this instance
          Unit,
          Width, EnumWidth,
          Char,             \* the characters of texts
          Slopes, Offsets,  \* the values of ASLO and AOFF of ai and ao
          Smoothings,       \* whether SMOO of ai is one half, or else zero
          States,           \* ZRVL .. FFVL of mbbi and mbbo, or <<>> if no state is defined
          Shifts,           \* their 2 ^ SHFT
          Sizv,             \* SIZV of lsi and lso: the size of their buffer
          StringSize,       \* the size of VAL of stringin and stringout
          PutValues,        \* the numbers that clients put to VAL
          PutTexts,         \* the texts that they put
          Results,          \* what the code may return, as converted to a Variant
          MaxPass           \* bounds the number of passes

\* The Python value that the code returns, as convert() hands it on.
Variants ==
  [type : {"NONE", "BOOL", "LONG", "UNSIGNED", "DOUBLE", "STRING", "TEXT", "VECTOR"}, n : Int, text : Seq(Char)]

\* An epicsEnum16 is narrower than the epicsUInt32 of RVAL.  Of powers the provers know no more
\* than that they are numbers.
ASSUME DeviceSupportAssumption ==
  /\ Types \subseteq {"ai", "ao", "bi", "bo", "longin", "longout", "mbbi", "mbbo",
                     "lsi", "lso", "stringin", "stringout"}
  /\ Unit \in Nat \ {0} /\ Slopes \subseteq Nat /\ Offsets \subseteq Int
  /\ Smoothings \subseteq BOOLEAN
  /\ States \subseteq Seq(Nat) /\ (\A s \in States : Len(s) <= 2 ^ EnumWidth) /\ Shifts \subseteq Nat \ {0}
  /\ Width \in Nat \ {0} /\ EnumWidth \in Nat \ {0} /\ MaxPass \in Nat
  /\ Sizv \in Nat \ {0} /\ StringSize \in Nat \ {0}
  /\ PutValues \subseteq Int
  /\ 2 ^ (Width - 1) > 0 /\ 2 ^ Width = 2 * 2 ^ (Width - 1)
  /\ 2 ^ EnumWidth > 0 /\ 2 ^ EnumWidth <= 2 ^ Width
  /\ {"T", "r", "u", "e", "F", "a", "l", "s"} \subseteq Char
  /\ PutTexts \subseteq Seq(Char) /\ Results \subseteq Variants

VARIABLES
  type,     \* the type of the record
  rec,      \* VAL, RVAL, OVAL, LEN, UDF and how it scales: ASLO, AOFF, SMOO, its states, 2 ^ SHFT
  pc,       \* "idle", "queued", before the "slope" is taken off, VAL is "read", the "code" returns,
            \* the result "times" the slope, "plus" the offset, or "done" and not completed
  arg,      \* pydevVAL
  result,   \* what the code has returned
  status,   \* processCbStatus
  own,      \* history: the last VAL that a client or a result has set
  before,   \* history: VAL, or OVAL of an ao, as processRecordCb found it
  echoed,   \* history: the code returned its argument as it was, and nobody had put to a smoothed VAL
  disturbed,\* history: a client has put to VAL between two accesses of the worker before the evaluation
  touched,  \* history: a client has put to VAL since the result
  passes    \* counts the passes

vars == <<type, rec, pc, arg, result, status, own, before, echoed, disturbed, touched, passes>>

Analog == {"ai", "ao"}
Bistate == {"bi", "bo"}
Multistate == {"mbbi", "mbbo"}
LongString == {"lsi", "lso"}
Text == LongString \cup {"stringin", "stringout"}

ToInt32(n) == ((n + 2 ^ (Width - 1)) % (2 ^ Width)) - 2 ^ (Width - 1)
ToEnum16(n) == n % (2 ^ EnumWidth)

BufferSize(t) == IF t \in LongString THEN Sizv ELSE StringSize

ValuesOf(t) ==
  CASE t \in Text -> {s \in Seq(Char) : Len(s) < BufferSize(t)}
    [] t \in Analog -> Int
    [] t \in Bistate -> {0, 1}
    [] t \in Multistate -> 0 .. 2 ^ EnumWidth - 1
    [] OTHER -> -(2 ^ (Width - 1)) .. 2 ^ (Width - 1) - 1

\* What a client can put: dbPut converts numbers and texts to the type of the field.
Puts(t) ==
  CASE t \in Text -> PutTexts \cap ValuesOf(t)
    [] t \in Analog -> {n * Unit : n \in PutValues}
    [] OTHER -> PutValues \cap ValuesOf(t)

Zero(t) == IF t \in Text THEN <<>> ELSE 0

TypeOK ==
  /\ type \in Types
  /\ rec.val \in ValuesOf(type)
  /\ rec.rval \in Int /\ rec.oval \in Int /\ rec.len \in Nat /\ rec.udf \in BOOLEAN
  /\ rec.aslo \in Nat /\ rec.aoff \in Int /\ rec.smoo \in BOOLEAN
  /\ rec.states \in Seq(Nat) /\ rec.shft \in Nat \ {0}
  /\ pc \in {"idle", "queued", "slope", "read", "code", "times", "plus", "done"}
  /\ arg \in ValuesOf(type)
  /\ status \in {"unset", "ok", "fail"}
  /\ own \in ValuesOf(type) /\ before \in ValuesOf(type)
  /\ echoed \in BOOLEAN /\ disturbed \in BOOLEAN /\ touched \in BOOLEAN
  /\ passes \in 0 .. MaxPass

None == [type |-> "NONE", n |-> 0, text |-> <<>>]

Scales(t) ==
  [aslo   : IF t \in Analog THEN Slopes ELSE {1},
   aoff   : IF t \in Analog THEN Offsets ELSE {0},
   smoo   : IF t = "ai" THEN Smoothings ELSE {FALSE},
   states : IF t \in Multistate THEN States ELSE {<<>>},
   shft   : IF t \in Multistate THEN Shifts ELSE {1}]

Init ==
  /\ type \in Types
  /\ \E s \in Scales(type) :
       rec = [val |-> Zero(type), rval |-> 0, oval |-> 0, len |-> 0, udf |-> TRUE,
              aslo |-> s.aslo, aoff |-> s.aoff, smoo |-> s.smoo, states |-> s.states, shft |-> s.shft]
  /\ pc = "idle"
  /\ arg = Zero(type)
  /\ result = None
  /\ status = "unset"
  /\ own = Zero(type)
  /\ before = Zero(type)
  /\ echoed = FALSE
  /\ disturbed = FALSE
  /\ touched = FALSE
  /\ passes = 0

-----------------------------------------------------------------------------
(* Variant.  A getter throws ConvertError, or an exception of std::stod and  *)
(* its like, unless the type is among those it takes.  "TEXT" is a string    *)
(* that does not begin with a number; DOUBLE and STRING count units.  The    *)
(* field text is the string itself, or what std::to_string makes of n.       *)

GetsBool == {"BOOL", "LONG", "UNSIGNED", "DOUBLE"}
GetsNumber == GetsBool \cup {"STRING"}
GetsString == GetsNumber \cup {"TEXT"}

Takes(t) == CASE t \in Text -> GetsString [] t \in Bistate -> GetsBool [] OTHER -> GetsNumber

Truncated(n) == IF n >= 0 THEN n \div Unit ELSE -((-n) \div Unit)

get_bool(v) == IF v.n # 0 THEN 1 ELSE 0
get_long(v) == IF v.type \in {"DOUBLE", "STRING"} THEN Truncated(v.n) ELSE v.n
get_double(v) == IF v.type \in {"DOUBLE", "STRING"} THEN v.n ELSE v.n * Unit

get_string(v) ==
  IF v.type # "BOOL" THEN v.text
  ELSE IF v.n # 0 THEN <<"T", "r", "u", "e">> ELSE <<"F", "a", "l", "s", "e">>

\* What convert makes of the argument when the code returns it.
Echo ==
  CASE type \in Text -> [type |-> "TEXT", n |-> 0, text |-> arg]
    [] type \in Analog -> [type |-> "DOUBLE", n |-> arg, text |-> <<>>]
    [] OTHER -> [type |-> "LONG", n |-> arg, text |-> <<>>]

-----------------------------------------------------------------------------
(* The device supports: the fields after the result v.                       *)

Factor == IF rec.aslo # 0 THEN rec.aslo ELSE 1

\* Unlike the division before the evaluation, the multiplication after it takes ASLO = 0 as it is.
AiResult(v) ==
  LET new == get_double(v) * rec.aslo + rec.aoff
  IN [rec EXCEPT !.val = IF rec.smoo /\ ~rec.udf THEN (@ + new) \div 2 ELSE new, !.udf = FALSE]

\* The scale is still to come.
AoResult(v) == [rec EXCEPT !.val = get_double(v)]

BiResult(v) == [rec EXCEPT !.rval = get_bool(v), !.udf = FALSE]

BoResult(v) == [rec EXCEPT !.rval = get_bool(v), !.udf = FALSE]

LonginResult(v) == [rec EXCEPT !.val = ToInt32(get_long(v)), !.udf = FALSE]

LongoutResult(v) == [rec EXCEPT !.val = ToInt32(get_long(v)), !.udf = FALSE]

MbbiResult(v) == [rec EXCEPT !.rval = get_long(v) % (2 ^ Width), !.udf = FALSE]

MbboResult(v) == [rec EXCEPT !.val = ToEnum16(get_long(v)), !.udf = FALSE]

\* strncpy to a buffer of the given size, and the zero at its end.
Cut(s, size) == IF Len(s) < size THEN s ELSE SubSeq(s, 1, size - 1)

LsiResult_BugLength(v) ==
  LET s == Cut(get_string(v), Sizv)
  IN [rec EXCEPT !.val = s, !.len = Len(get_string(v)) + 1, !.udf = FALSE]

\* LEN counts the zero.
LsiResult(v) ==
  LET s == Cut(get_string(v), Sizv)
  IN [rec EXCEPT !.val = s, !.len = Len(s) + 1, !.udf = FALSE]

LsoResult(v) == LsiResult(v)

StringinResult(v) == [rec EXCEPT !.val = Cut(get_string(v), StringSize), !.udf = FALSE]

StringoutResult(v) == StringinResult(v)

Assigned(v) ==
  CASE type = "ai" -> AiResult(v)
    [] type = "ao" -> AoResult(v)
    [] type = "bi" -> BiResult(v)
    [] type = "bo" -> BoResult(v)
    [] type = "longin" -> LonginResult(v)
    [] type = "longout" -> LongoutResult(v)
    [] type = "mbbi" -> MbbiResult(v)
    [] type = "mbbo" -> MbboResult(v)
    [] type = "lsi" -> LsiResult(v)
    [] type = "lso" -> LsoResult(v)
    [] type = "stringin" -> StringinResult(v)
    [] OTHER -> StringoutResult(v)

-----------------------------------------------------------------------------
(* A pass.                                                                   *)

\* dbPut; the record supports of lsi and lso count LEN.
Put(n) ==
  /\ rec.val # n
  /\ rec' = [rec EXCEPT !.val = n, !.udf = FALSE, !.len = IF type \in LongString THEN Len(n) + 1 ELSE @]
  /\ own' = n
  /\ disturbed' = (disturbed \/ pc \in {"slope", "read"})
  /\ touched' = TRUE
  /\ UNCHANGED <<type, pc, arg, result, status, before, echoed, passes>>

\* RVAL of an mbbo: the value of the state that VAL counts.
StateValue ==
  IF rec.states = <<>> THEN rec.val * rec.shft
  ELSE IF rec.val + 1 \in DOMAIN rec.states THEN rec.states[rec.val + 1] * rec.shft
  ELSE rec.rval

\* The record support before it calls the device support: an output is converted.
FirstPass ==
  /\ pc = "idle"
  /\ passes < MaxPass
  /\ passes' = passes + 1
  /\ pc' = "queued"
  /\ rec' = CASE type = "ao" -> [rec EXCEPT !.oval = rec.val]
              [] type = "bo" -> [rec EXCEPT !.rval = rec.val]
              [] type = "mbbo" -> [rec EXCEPT !.rval = StateValue]
              [] OTHER -> rec
  /\ UNCHANGED <<type, arg, result, status, own, before, echoed, disturbed, touched>>

\* The worker takes the scale off the value of an analog record, in VAL itself: first the offset,
TakeOffset ==
  /\ pc = "queued" /\ type \in Analog
  /\ pc' = "slope"
  /\ before' = IF type = "ao" THEN rec.oval ELSE rec.val
  /\ rec' = [rec EXCEPT !.val = before' - rec.aoff]
  /\ disturbed' = FALSE
  /\ UNCHANGED <<type, arg, result, status, own, echoed, touched, passes>>

\* then the slope.
TakeSlope ==
  /\ pc = "slope"
  /\ pc' = "read"
  /\ rec' = [rec EXCEPT !.val = @ \div Factor]
  /\ UNCHANGED <<type, arg, result, status, own, before, echoed, disturbed, touched, passes>>

\* It reads VAL for the arguments.
ReadArguments ==
  /\ pc = "read" \/ (pc = "queued" /\ type \notin Analog)
  /\ pc' = "code"
  /\ arg' = rec.val
  /\ before' = IF type \in Analog THEN before ELSE rec.val
  /\ UNCHANGED <<type, rec, result, status, own, echoed, disturbed, touched, passes>>

Fail_BugClearsValue ==
  /\ status' = "fail"
  /\ rec' = [rec EXCEPT !.val = Zero(type)]
  /\ UNCHANGED <<own, echoed, touched>>

\* catch (std::exception&)
Fail ==
  /\ status' = "fail"
  /\ UNCHANGED <<rec, own, echoed, touched>>

\* PyWrapper::eval returns v, or throws.
Raise ==
  /\ pc = "code"
  /\ pc' = "done"
  /\ Fail
  /\ UNCHANGED <<type, arg, result, before, disturbed, passes>>

Return(v) ==
  /\ pc = "code"
  /\ pc' = IF type = "ao" /\ v.type \in Takes(type) THEN "times" ELSE "done"
  /\ result' = v
  /\ IF v.type \in Takes(type)
       THEN /\ rec' = Assigned(v)
            /\ status' = IF type = "ao" THEN status ELSE "ok"
            /\ own' = rec'.val
            /\ echoed' = (v = Echo /\ (rec.smoo => rec.val = arg))
            /\ touched' = FALSE
       ELSE Fail
  /\ UNCHANGED <<type, arg, before, disturbed, passes>>

\* The result of an ao takes its scale in VAL itself: first the slope,
GiveSlope ==
  /\ pc = "times"
  /\ pc' = "plus"
  /\ rec' = [rec EXCEPT !.val = @ * Factor]
  /\ own' = rec'.val
  /\ UNCHANGED <<type, arg, result, status, before, echoed, disturbed, touched, passes>>

GiveOffset_BugForgets ==
  /\ pc = "plus"
  /\ pc' = "done"
  /\ rec' = [rec EXCEPT !.udf = FALSE]
  /\ own' = rec'.val
  /\ status' = "ok"
  /\ UNCHANGED <<type, arg, result, before, echoed, disturbed, touched, passes>>

\* then the offset.
GiveOffset ==
  /\ pc = "plus"
  /\ pc' = "done"
  /\ rec' = [rec EXCEPT !.val = @ + rec.aoff, !.udf = FALSE]
  /\ own' = rec'.val
  /\ status' = "ok"
  /\ UNCHANGED <<type, arg, result, before, echoed, disturbed, touched, passes>>

\* VAL of an mbbi whose RVAL equals no state.
Unknown == 2 ^ EnumWidth - 1

\* The places of the states of the given value.
Matching(raw) == {k \in DOMAIN rec.states : rec.states[k] = raw}

\* VAL of an mbbi: the first of the states that RVAL equals, or RVAL itself if none is defined.
StateOf(raw) ==
  IF rec.states = <<>> THEN ToEnum16(raw)
  ELSE IF Matching(raw) = {} THEN Unknown
  ELSE (CHOOSE k \in Matching(raw) : \A j \in Matching(raw) : k <= j) - 1

RawValue == IF type = "bi" THEN rec.rval ELSE StateOf(rec.rval \div rec.shft)

\* The record support after the device support: the raw value of an input is converted.
Complete ==
  /\ pc = "done"
  /\ pc' = "idle"
  /\ IF status = "ok" /\ type \in {"bi", "mbbi"}
       THEN /\ rec' = [rec EXCEPT !.val = RawValue]
            /\ own' = rec'.val
            /\ touched' = FALSE
       ELSE UNCHANGED <<rec, own, touched>>
  /\ UNCHANGED <<type, arg, result, status, before, echoed, disturbed, passes>>

Ended == passes = MaxPass /\ pc = "idle" /\ UNCHANGED vars

Next ==
  \/ \E n \in Puts(type) : Put(n)
  \/ FirstPass
  \/ TakeOffset
  \/ TakeSlope
  \/ ReadArguments
  \/ Raise
  \/ \E v \in Results \cup {Echo} : Return(v)
  \/ GiveSlope
  \/ GiveOffset
  \/ Complete
  \/ Ended

Spec == Init /\ [][Next]_vars

-----------------------------------------------------------------------------
(* Properties.                                                               *)

AtRest(how) == pc = "idle" /\ status = how

\* What the result of the last pass stands for in VAL, in the terms of a user.  ASLO = 0 means that
\* there is no slope, as it does in ao and, before the evaluation, in ai.
Promised ==
  CASE type \in Text -> Cut(get_string(result), BufferSize(type))
    [] type \in Analog -> get_double(result) * Factor + rec.aoff
    [] type \in Bistate -> get_bool(result)
    [] type = "mbbi" -> get_long(result) \div rec.shft
    [] OTHER -> get_long(result)

\* RVAL of an mbbi can hold the number.
FitsRaw(n) == n \in 0 .. 2 ^ Width - 1

\* VAL can hold it, and RVAL on the way.
Fits == Promised \in ValuesOf(type) /\ (type = "mbbi" => FitsRaw(get_long(result)))

HasStates == type = "mbbi" /\ rec.states # <<>>

\* VAL counts the first state that has the number, or is Unknown.
ShowsState(n) ==
  IF \E k \in DOMAIN rec.states : rec.states[k] = n
    THEN rec.val + 1 \in Matching(n) /\ \A k \in 1 .. rec.val : rec.states[k] # n
    ELSE rec.val = Unknown

\* An ai adds the value before the evaluation, from which the scale has been taken, to the new
\* one, which has it: the two are alike only where there is no scale.
MixedSmoothing == type = "ai" /\ rec.smoo /\ ~(rec.aslo = 1 /\ rec.aoff = 0)

\* The multiplication of ai takes ASLO = 0 as it is: VAL becomes AOFF, whatever the code returns.
ForgottenSlope == type = "ai" /\ rec.aslo = 0

\* VAL counts states, or a part of RVAL.
Enumerated == type = "mbbi" /\ (rec.states # <<>> \/ rec.shft # 1)

\* After a pass that succeeded, an input or output record shows the returned number if its VAL
\* can hold it, an mbbi the state that has it, and a text as much of it as fits, whatever clients
\* put to VAL before the code returned; LEN counts what VAL holds.  Three kinds of record do not:
\* a bo keeps its VAL, an ai that smooths lies between, and an ai without a slope loses the result
\* (pydev_longin.cpp:107, pydev_mbbi.cpp:133, 147-167, pydev_ao.cpp:109-111, pydev_ai.cpp:111,
\* pydev_lsi.cpp:102-105, pydev_stringin.cpp:100-102).
ResultShown ==
  AtRest("ok") /\ ~touched /\ type # "bo" =>
    /\ ~rec.smoo /\ ~ForgottenSlope /\ ~HasStates /\ Fits => rec.val = Promised
    /\ HasStates /\ FitsRaw(get_long(result)) => ShowsState(Promised)
    /\ type \in LongString => rec.len = Len(rec.val) + 1

\* A pass that fails leaves VAL as a client or an earlier result has set it; VAL of ai and ao may
\* be left as the code saw it, and then a put between the accesses before the evaluation may be
\* lost (pydev_longin.cpp:111-117, pydev_ai.cpp:86-87).
FailureKeepsValue ==
  AtRest("fail") => rec.val = own \/ (type \in Analog /\ rec.val = arg)

\* Code that only returns its VAL leaves the record's value as it was: what ai and ao do to the
\* value before the evaluation is undone after it, unless a client puts to VAL in the midst of
\* either, and except where ai forgets the slope or smooths a scaled value, and where VAL of an mbbi
\* counts states, which the returned VAL is looked up among (pydev_ai.cpp:86-87, 111-115,
\* pydev_ao.cpp:86-111).
EchoKeepsValue ==
  AtRest("ok") /\ echoed /\ ~disturbed /\ ~touched /\ type # "bo"
    /\ ~MixedSmoothing /\ ~ForgottenSlope /\ ~Enumerated => rec.val = before
=============================================================================

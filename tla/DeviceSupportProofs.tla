------------------------- MODULE DeviceSupportProofs -------------------------
(***************************************************************************)
(* Theorems about DeviceSupport for any widths, scales, buffers, results   *)
(* and puts, in each of the twelve scalar record types.  The inductive     *)
(* invariant follows a result from its assignment to the end of the pass:  *)
(* for bi and mbbi it waits in RVAL until the second pass converts it, and *)
(* that of ao takes its scale in VAL, where a client may put meanwhile.    *)
(***************************************************************************)
EXTENDS DeviceSupport, SequenceTheorems, FiniteSetTheorems, WellFoundedInduction, TLAPS

-----------------------------------------------------------------------------
(* The inductive invariant.                                                  *)

StateLists == {s \in Seq(Nat) : Len(s) <= 2 ^ EnumWidth}

FieldsOf(t) ==
  [val : ValuesOf(t), rval : Int, oval : Int, len : Nat, udf : BOOLEAN,
   aslo : Nat, aoff : Int, smoo : BOOLEAN, states : StateLists, shft : Nat \ {0}]

FieldTypes ==
  /\ type \in Types /\ rec \in FieldsOf(type)
  /\ pc \in {"idle", "queued", "slope", "read", "code", "times", "plus", "done"}
  /\ pc \in {"slope", "read"} => type \in Analog
  /\ pc \in {"times", "plus"} => type = "ao"
  /\ arg \in ValuesOf(type) /\ own \in ValuesOf(type) /\ before \in ValuesOf(type)
  /\ result \in Variants
  /\ status \in {"unset", "ok", "fail"}
  /\ echoed \in BOOLEAN /\ disturbed \in BOOLEAN /\ touched \in BOOLEAN
  /\ passes \in 0 .. MaxPass

\* The input records whose result takes the way through RVAL.
Raw == {"bi", "mbbi"}

\* VAL is what a client or a result has set, or what is left of it without its scale.
OwnInv == rec.val = own \/ (type \in Analog /\ (rec.val = arg \/ pc \in {"slope", "read"}))

\* ResultShown, from the assignment on.
ShowsResult ==
  /\ ~rec.smoo /\ ~ForgottenSlope /\ ~HasStates /\ Fits => rec.val = Promised
  /\ HasStates /\ FitsRaw(get_long(result)) => ShowsState(Promised)
  /\ type \in LongString => rec.len = Len(rec.val) + 1

\* The result of an ao on its way, which a client has not overwritten.
Scaling ==
  ~touched => /\ pc = "times" => rec.val = get_double(result)
              /\ pc = "plus" => rec.val = get_double(result) * Factor

Shown ==
  pc \in {"done", "idle"} /\ status = "ok" =>
    /\ pc = "done" /\ type = "bi" => rec.rval = get_bool(result)
    /\ pc = "done" /\ type = "mbbi" => rec.rval = get_long(result) % (2 ^ Width)
    /\ ~touched /\ type # "bo" /\ (pc = "done" => type \notin Raw) => ShowsResult

ResultInv == Scaling /\ Shown

\* The value without its offset, and without its slope.
Bare == (before - rec.aoff) \div Factor

\* The division by the slope leaves no remainder.
Exact == type \in Analog => Bare * Factor = before - rec.aoff

Plain == type # "bo" /\ ~MixedSmoothing /\ ~ForgottenSlope /\ ~Enumerated

\* The argument of an analog record, unless a client puts to VAL on the way.
BareInv ==
  type \in Analog /\ ~disturbed =>
    /\ pc = "slope" => rec.val = before - rec.aoff
    /\ pc = "read" => rec.val = Bare
    /\ pc \in {"code", "times", "plus", "done"} => arg = Bare

\* EchoKeepsValue, from the assignment on.
EchoInv ==
  /\ type \notin Analog => arg = before
  /\ echoed /\ ~touched => /\ pc = "times" => rec.val = arg
                           /\ pc = "plus" => rec.val = arg * Factor
  /\ pc \in {"done", "idle"} /\ status = "ok" /\ echoed /\ ~disturbed /\ Plain /\ Exact =>
       /\ pc = "done" /\ type \in Raw => RawValue = before
       /\ ~touched /\ (pc = "done" => type \notin Raw) => rec.val = before

IInv == FieldTypes /\ OwnInv /\ ResultInv /\ BareInv /\ EchoInv

-----------------------------------------------------------------------------
(* Numbers and texts.                                                        *)

LEMMA AllTypes ==
  type \in Types =>
    type \in {"ai", "ao", "bi", "bo", "longin", "longout", "mbbi", "mbbo", "lsi", "lso", "stringin", "stringout"}
BY DeviceSupportAssumption

Longs == -(2 ^ (Width - 1)) .. 2 ^ (Width - 1) - 1

LEMMA ToInt32Range ==
  /\ \A n \in Int : ToInt32(n) \in Longs
  /\ \A n \in Longs : n \in Int /\ ToInt32(n) = n
<1> DEFINE p == 2 ^ (Width - 1)
<1>1. p \in Int /\ p > 0 /\ 2 ^ Width = 2 * p
  BY DeviceSupportAssumption
<1> HIDE DEF p
<1>2. \A n \in Int : ToInt32(n) = ((n + p) % (2 * p)) - p
  BY <1>1 DEF ToInt32, p
<1>3. Longs = -p .. p - 1
  BY DEF Longs, p
<1>4. ASSUME NEW n \in Int
      PROVE  ((n + p) % (2 * p)) - p \in -p .. p - 1
  <2>1. (n + p) % (2 * p) \in 0 .. 2 * p - 1
    BY <1>1
  <2> QED
    BY <1>1, <2>1
<1>5. ASSUME NEW n \in -p .. p - 1
      PROVE  ((n + p) % (2 * p)) - p = n
  <2>1. n + p \in 0 .. 2 * p - 1
    BY <1>1
  <2>2. (n + p) % (2 * p) = n + p
    BY <1>1, <2>1
  <2> QED
    BY <1>1, <2>2
<1>6. \A n \in Int : ToInt32(n) \in Longs
  BY <1>2, <1>3, <1>4
<1>7. \A n \in Longs : n \in Int
  BY <1>1, <1>3
<1>8. \A n \in Longs : ToInt32(n) = n
  BY <1>2, <1>3, <1>5, <1>7
<1> QED
  BY <1>6, <1>7, <1>8

Enums == 0 .. 2 ^ EnumWidth - 1

\* A value of an enum survives the way through RVAL.
LEMMA ToEnum16Range ==
  /\ \A n \in Int : ToEnum16(n) \in Enums /\ n % (2 ^ Width) \in Int
  /\ \A n \in Enums : n \in Int /\ ToEnum16(n) = n /\ ToEnum16(n % (2 ^ Width)) = n
<1> DEFINE p == 2 ^ EnumWidth
           q == 2 ^ Width
<1>1. p \in Int /\ p > 0 /\ q \in Int /\ p <= q
  BY DeviceSupportAssumption
<1>2. \A n : ToEnum16(n) = n % p
  BY DEF ToEnum16
<1>3. Enums = 0 .. p - 1
  BY DEF Enums
<1> HIDE DEF p
<1>4. \A n \in Int : n % p \in 0 .. p - 1
  BY <1>1
<1> HIDE DEF q
<1>5. \A n \in Int : n % q \in Int
  BY <1>1
<1>6. ASSUME NEW n \in 0 .. p - 1
      PROVE  n % p = n /\ n % q = n
  <2>1. n \in Int /\ 0 <= n /\ n < p /\ n < q
    BY <1>1
  <2> QED
    BY <1>1, <2>1
<1>7. \A n \in Int : n % q = n % (2 ^ Width)
  BY DEF q
<1>8. \A n \in 0 .. p - 1 : n \in Int
  BY <1>1
<1>9. \A n \in Int : ToEnum16(n) \in Enums /\ n % (2 ^ Width) \in Int
  BY <1>2, <1>3, <1>4, <1>5, <1>7
<1>10. ASSUME NEW n \in Enums
       PROVE  n \in Int /\ ToEnum16(n) = n /\ ToEnum16(n % (2 ^ Width)) = n
  BY <1>2, <1>3, <1>6, <1>7, <1>8
<1> QED
  BY <1>9, <1>10

\* A set of numbers has a smallest one: the finite parts of it that end in one of its numbers are
\* well ordered by inclusion.
LEMMA Smallest ==
  ASSUME NEW S \in SUBSET Nat, S # {}
  PROVE  \E k \in S : \A j \in S : k <= j
<1> DEFINE Upto(k) == {j \in S : j <= k}
           Parts == {Upto(k) : k \in S}
<1>0. \A j \in S : j \in Nat
  OBVIOUS
<1>1. \A k \in S : Upto(k) \in FiniteSubsetsOf(Nat)
  <2> SUFFICES ASSUME NEW k \in S PROVE Upto(k) \in FiniteSubsetsOf(Nat)
    OBVIOUS
  <2>1. Upto(k) \in SUBSET Nat /\ \A j \in Upto(k) : j <= k
    OBVIOUS
  <2>2. IsFiniteSet(Upto(k))
    BY <1>0, <2>1, FS_BoundedSetOfNaturals
  <2> QED
    BY <2>1, <2>2 DEF FiniteSubsetsOf
<1>2. Parts \subseteq FiniteSubsetsOf(Nat) /\ Parts # {}
  BY <1>1
<1>3. PICK p \in Parts : \A q \in Parts : ~(<<q, p>> \in StrictSubsetOrdering(Nat))
  BY <1>2, FS_StrictSubsetOrderingWellFounded, WFMin, Zenon
<1>4. PICK k \in S : p = Upto(k)
  BY <1>3
<1>5. ASSUME NEW j \in S, j < k
      PROVE  FALSE
  <2>1. (\A i \in S : i <= j => i <= k) /\ k <= k /\ ~(k <= j)
    BY <1>0, <1>5
  <2>3. Upto(j) \subseteq Upto(k) /\ k \in Upto(k) /\ k \notin Upto(j)
    BY <2>1, Zenon
  <2>2. Upto(j) \in Parts /\ Upto(j) \in SUBSET Nat /\ Upto(k) \in SUBSET Nat
    OBVIOUS
  <2> QED
    BY <1>1, <1>3, <1>4, <2>2, <2>3 DEF StrictSubsetOrdering
<1> QED
  BY <1>0, <1>5

LEMMA CutText ==
  ASSUME NEW s \in Seq(Char), NEW n \in Nat \ {0}
  PROVE  /\ Cut(s, n) \in Seq(Char) /\ Len(Cut(s, n)) < n
         /\ Len(s) < n => Cut(s, n) = s
<1>1. CASE Len(s) < n
  BY <1>1 DEF Cut
<1>2. CASE ~(Len(s) < n)
  <2>1. \A k \in 1 .. n - 1 : s[k] \in Char
    BY <1>2
  <2>2. SubSeq(s, 1, n - 1) \in Seq(Char) /\ Len(SubSeq(s, 1, n - 1)) = n - 1
    BY <2>1, SubSeqProperties
  <2> QED
    BY <1>2, <2>2 DEF Cut
<1> QED
  BY <1>1, <1>2

LEMMA GetterTypes ==
  ASSUME NEW v \in Variants
  PROVE  /\ get_bool(v) \in {0, 1} /\ get_long(v) \in Int /\ get_double(v) \in Int
         /\ get_string(v) \in Seq(Char)
<1>1. v.n \in Int /\ v.text \in Seq(Char) /\ Unit \in Int /\ Unit > 0
  BY DeviceSupportAssumption DEF Variants
<1>2. Truncated(v.n) \in Int
  BY <1>1 DEF Truncated
<1>3. v.n * Unit \in Int
  BY <1>1
<1>4. <<"T", "r", "u", "e">> \in Seq(Char) /\ <<"F", "a", "l", "s", "e">> \in Seq(Char)
  BY DeviceSupportAssumption
<1>5. get_string(v) \in Seq(Char)
  BY <1>1, <1>4 DEF get_string
<1> QED
  BY <1>1, <1>2, <1>3, <1>5 DEF get_bool, get_long, get_double

LEMMA EnumFits ==
  \A n \in Enums : n % (2 ^ Width) = n
<1> DEFINE p == 2 ^ EnumWidth
           q == 2 ^ Width
<1>1. p \in Int /\ q \in Int /\ p > 0 /\ p <= q
  BY DeviceSupportAssumption
<1>2. Enums = 0 .. p - 1
  BY DEF Enums
<1> HIDE DEF p, q
<1>3. \A n \in 0 .. p - 1 : n % q = n
  BY <1>1
<1> QED
  BY <1>2, <1>3 DEF q

LEMMA Values ==
  /\ ValuesOf("ai") = Int /\ ValuesOf("ao") = Int
  /\ ValuesOf("bi") = {0, 1} /\ ValuesOf("bo") = {0, 1}
  /\ ValuesOf("mbbi") = Enums /\ ValuesOf("mbbo") = Enums
  /\ ValuesOf("longin") = Longs /\ ValuesOf("longout") = Longs
  /\ \A t \in Text : ValuesOf(t) = {s \in Seq(Char) : Len(s) < BufferSize(t)} /\ BufferSize(t) \in Nat \ {0}
<1>1. \A t \in Text : BufferSize(t) \in Nat \ {0}
  BY DeviceSupportAssumption DEF BufferSize
<1> QED
  BY <1>1 DEF ValuesOf, Text, LongString, Analog, Bistate, Multistate, Enums, Longs

\* No number is in between: what is put, and what a record begins with, is a value of VAL.
LEMMA ZeroType ==
  \A t \in Types : Zero(t) \in ValuesOf(t)
<1> SUFFICES ASSUME NEW t \in Types PROVE Zero(t) \in ValuesOf(t)
  OBVIOUS
<1>1. CASE t \in Text
  <2>1. <<>> \in Seq(Char) /\ Len(<<>>) = 0
    OBVIOUS
  <2>2. BufferSize(t) > 0
    BY <1>1, Values
  <2> QED
    BY <1>1, <2>1, <2>2, Values DEF Zero
<1>2. CASE t \notin Text
  <2>1. 0 \in Longs
    <3>1. 2 ^ (Width - 1) \in Int /\ 2 ^ (Width - 1) > 0
      BY DeviceSupportAssumption
    <3> QED
      BY <3>1 DEF Longs
  <2>2. 0 \in Enums
    <3>1. 2 ^ EnumWidth \in Int /\ 2 ^ EnumWidth > 0
      BY DeviceSupportAssumption
    <3> QED
      BY <3>1 DEF Enums
  <2>3. t \in {"ai", "ao", "bi", "bo", "longin", "longout", "mbbi", "mbbo"}
    BY <1>2, DeviceSupportAssumption DEF Text, LongString
  <2>4. 0 \in ValuesOf(t)
    BY <2>1, <2>2, <2>3, Values
  <2> QED
    BY <1>2, <2>4 DEF Zero
<1> QED
  BY <1>1, <1>2

LEMMA PutType ==
  ASSUME NEW t \in Types, NEW n \in Puts(t)
  PROVE  n \in ValuesOf(t)
<1>1. CASE t \in Analog
  <2>1. Unit \in Int /\ \A k \in PutValues : k \in Int
    BY DeviceSupportAssumption
  <2>2. \A k \in PutValues : k * Unit \in Int
    BY <2>1
  <2>3. ValuesOf(t) = Int /\ t \notin Text
    BY <1>1, Values DEF Analog, Text, LongString
  <2> QED
    BY <1>1, <2>2, <2>3 DEF Puts
<1>2. CASE t \notin Analog
  BY <1>2 DEF Puts
<1> QED
  BY <1>1, <1>2

\* The state that a raw value shows is the first that has it.
LEMMA FirstState ==
  ASSUME FieldTypes, NEW raw \in Int
  PROVE  /\ StateOf(raw) \in Enums
         /\ rec.states = <<>> => StateOf(raw) = ToEnum16(raw)
         /\ rec.states # <<>> =>
              IF \E k \in DOMAIN rec.states : rec.states[k] = raw
                THEN StateOf(raw) + 1 \in Matching(raw) /\ \A k \in 1 .. StateOf(raw) : rec.states[k] # raw
                ELSE StateOf(raw) = Unknown
<1> DEFINE p == 2 ^ EnumWidth
           first == CHOOSE k \in Matching(raw) : \A j \in Matching(raw) : k <= j
<1>1. rec.states \in Seq(Nat) /\ Len(rec.states) <= p /\ p \in Int /\ p > 0
  BY DeviceSupportAssumption DEF FieldTypes, FieldsOf, StateLists
<1>2. Enums = 0 .. p - 1 /\ Unknown = p - 1
  BY DEF Enums, Unknown
<1> HIDE DEF p
<1>3. CASE rec.states = <<>>
  BY <1>3, ToEnum16Range DEF StateOf
<1>4. CASE rec.states # <<>> /\ Matching(raw) = {}
  <2>1. StateOf(raw) = Unknown
    BY <1>4 DEF StateOf
  <2>2. ~\E k \in DOMAIN rec.states : rec.states[k] = raw
    BY <1>4 DEF Matching
  <2>3. Unknown \in Enums
    BY <1>1, <1>2
  <2> QED
    BY <1>4, <2>1, <2>2, <2>3
<1>5. CASE rec.states # <<>> /\ Matching(raw) # {}
  <2>1. Matching(raw) \in SUBSET Nat /\ \A k \in Matching(raw) : k \in 1 .. Len(rec.states) /\ rec.states[k] = raw
    BY <1>1 DEF Matching
  <2>2. first \in Matching(raw) /\ \A j \in Matching(raw) : first <= j
    BY <1>5, <2>1, Smallest
  <2>3. StateOf(raw) = first - 1
    BY <1>5 DEF StateOf
  <2> HIDE DEF first
  <2>4. first \in 1 .. Len(rec.states) /\ rec.states[first] = raw /\ first \in Int /\ Len(rec.states) \in Nat
    BY <1>1, <2>1, <2>2
  <2>5. first - 1 \in Enums /\ first - 1 + 1 = first
    BY <1>1, <1>2, <2>4
  <2>6. ASSUME NEW k \in 1 .. first - 1, rec.states[k] = raw
        PROVE  FALSE
    <3>1. k \in 1 .. Len(rec.states) /\ ~(first <= k)
      BY <2>4
    <3>2. k \in Matching(raw)
      BY <1>1, <2>6, <3>1 DEF Matching
    <3> QED
      BY <2>2, <3>1, <3>2
  <2>7. \E k \in DOMAIN rec.states : rec.states[k] = raw
    BY <1>1, <2>4
  <2> QED
    BY <1>5, <2>2, <2>3, <2>5, <2>6, <2>7
<1> QED
  BY <1>3, <1>4, <1>5

\* What the second pass makes of RVAL.
LEMMA RawValueType ==
  ASSUME FieldTypes, type \in Raw, type = "bi" => rec.rval \in {0, 1}
  PROVE  RawValue \in ValuesOf(type)
<1>1. CASE type = "bi"
  BY <1>1, Values DEF RawValue
<1>2. CASE type = "mbbi"
  <2>1. rec.rval \in Int /\ rec.shft \in Int /\ rec.shft > 0
    BY DEF FieldTypes, FieldsOf
  <2>2. rec.rval \div rec.shft \in Int
    BY <2>1
  <2>3. StateOf(rec.rval \div rec.shft) \in Enums
    BY <2>2, FirstState
  <2>4. type # "bi"
    BY <1>2
  <2> QED
    BY <1>2, <2>3, <2>4, Values DEF RawValue
<1> QED
  BY <1>1, <1>2 DEF Raw

\* RVAL keeps a number that it can hold.
LEMMA RawFits ==
  ASSUME NEW n \in Int, FitsRaw(n)
  PROVE  n % (2 ^ Width) = n
<1> DEFINE q == 2 ^ Width
<1>1. q \in Int /\ q > 0
  BY DeviceSupportAssumption
<1>2. n \in 0 .. q - 1
  BY DEF FitsRaw
<1> HIDE DEF q
<1>3. n % q = n
  BY <1>1, <1>2
<1> QED
  BY <1>3 DEF q

-----------------------------------------------------------------------------
(* The assignments.                                                          *)

\* What every assignment leaves alone.
LEMMA AssignedScale ==
  ASSUME FieldTypes, NEW v \in Variants
  PROVE  LET r == Assigned(v) IN
         /\ r.aslo = rec.aslo /\ r.aoff = rec.aoff /\ r.smoo = rec.smoo
         /\ r.states = rec.states /\ r.shft = rec.shft
         /\ type \in Raw \cup {"bo"} => r.val = rec.val
<1>1. type \in {"ai", "ao", "bi", "bo", "longin", "longout", "mbbi", "mbbo", "lsi", "lso", "stringin", "stringout"}
  BY AllTypes DEF FieldTypes
<1>2. rec \in FieldsOf(type)
  BY DEF FieldTypes
<1> QED
  BY <1>1, <1>2
     DEF Assigned, AiResult, AoResult, BiResult, BoResult, LonginResult, LongoutResult, MbbiResult, MbboResult,
         LsiResult, LsoResult, StringinResult, StringoutResult, FieldsOf, Raw

LEMMA FactorType ==
  ASSUME FieldTypes
  PROVE  /\ rec.aslo \in Nat /\ rec.aoff \in Int
         /\ Factor \in Nat /\ Factor > 0 /\ (rec.aslo # 0 => Factor = rec.aslo)
BY DEF FieldTypes, FieldsOf, Factor

\* A result of the analog records.
LEMMA AnalogResult ==
  ASSUME FieldTypes, type \in Analog, NEW v \in Variants
  PROVE  LET r == Assigned(v)
             new == get_double(v) * rec.aslo + rec.aoff
         IN /\ new \in Int
            /\ r \in FieldsOf(type)
            /\ type = "ai" => r.val = IF rec.smoo /\ ~rec.udf THEN (rec.val + new) \div 2 ELSE new
            /\ type = "ao" => r.val = get_double(v)
<1>1. /\ type \in {"ai", "ao"} /\ rec \in FieldsOf(type) /\ ValuesOf(type) = Int
      /\ rec.val \in Int /\ rec.aslo \in Nat /\ rec.aoff \in Int
  BY Values DEF FieldTypes, FieldsOf, Analog
<1>2. get_double(v) \in Int
  BY GetterTypes
<1>3. \A x \in Int, y \in Nat, z \in Int : x * y + z \in Int
  OBVIOUS
<1>5. get_double(v) * rec.aslo + rec.aoff \in Int
  BY <1>1, <1>2, <1>3
<1>6. \A x, y \in Int : (x + y) \div 2 \in Int
  OBVIOUS
<1>7. CASE type = "ai"
  <2> DEFINE new == get_double(v) * rec.aslo + rec.aoff
             val == IF rec.smoo /\ ~rec.udf THEN (rec.val + new) \div 2 ELSE new
  <2>1. Assigned(v) = [rec EXCEPT !.val = val, !.udf = FALSE]
    BY <1>7 DEF Assigned, AiResult
  <2>2. val \in Int
    BY <1>1, <1>5, <1>6
  <2> HIDE DEF val
  <2>3. Assigned(v) \in FieldsOf(type) /\ Assigned(v).val = val
    BY <1>1, <2>1, <2>2 DEF FieldsOf
  <2> QED
    BY <1>5, <1>7, <2>3 DEF val
<1>8. CASE type = "ao"
  <2>1. Assigned(v) = [rec EXCEPT !.val = get_double(v)]
    BY <1>8 DEF Assigned, AoResult
  <2>2. Assigned(v) \in FieldsOf(type) /\ Assigned(v).val = get_double(v)
    BY <1>1, <1>2, <2>1 DEF FieldsOf
  <2> QED
    BY <1>5, <1>8, <2>2
<1> QED
  BY <1>1, <1>7, <1>8

\* A result of the records of integers, of two states and of several.
LEMMA NumberResult ==
  ASSUME FieldTypes, type \notin Analog, type \notin Text, NEW v \in Variants
  PROVE  LET r == Assigned(v) IN
         /\ r \in FieldsOf(type)
         /\ type \in {"longin", "longout"} => r.val = ToInt32(get_long(v))
         /\ type = "mbbo" => r.val = ToEnum16(get_long(v))
         /\ type = "bi" => r.rval = get_bool(v)
         /\ type = "mbbi" => r.rval = get_long(v) % (2 ^ Width)
<1>1. type \in {"bi", "bo", "longin", "longout", "mbbi", "mbbo"} /\ rec \in FieldsOf(type)
  BY AllTypes DEF FieldTypes, Analog, Text, LongString
<1>2. get_long(v) \in Int /\ get_bool(v) \in Int
  BY GetterTypes
<1>3. CASE type \in {"longin", "longout"}
  <2>1. Assigned(v) = [rec EXCEPT !.val = ToInt32(get_long(v)), !.udf = FALSE]
    BY <1>3 DEF Assigned, LonginResult, LongoutResult
  <2>2. ToInt32(get_long(v)) \in ValuesOf(type)
    BY <1>2, <1>3, Values, ToInt32Range
  <2> QED
    BY <1>1, <1>3, <2>1, <2>2 DEF FieldsOf
<1>4. CASE type = "mbbo"
  <2>1. Assigned(v) = [rec EXCEPT !.val = ToEnum16(get_long(v)), !.udf = FALSE]
    BY <1>4 DEF Assigned, MbboResult
  <2>2. ToEnum16(get_long(v)) \in ValuesOf(type)
    BY <1>2, <1>4, Values, ToEnum16Range
  <2> QED
    BY <1>1, <1>4, <2>1, <2>2 DEF FieldsOf
<1>5. CASE type \in {"bi", "bo"}
  <2>1. Assigned(v) = [rec EXCEPT !.rval = get_bool(v), !.udf = FALSE]
    BY <1>5 DEF Assigned, BiResult, BoResult
  <2> QED
    BY <1>1, <1>2, <1>5, <2>1 DEF FieldsOf
<1>6. CASE type = "mbbi"
  <2>1. Assigned(v) = [rec EXCEPT !.rval = get_long(v) % (2 ^ Width), !.udf = FALSE]
    BY <1>6 DEF Assigned, MbbiResult
  <2>2. get_long(v) % (2 ^ Width) \in Int
    BY <1>2, ToEnum16Range
  <2> QED
    BY <1>1, <1>6, <2>1, <2>2 DEF FieldsOf
<1> QED
  BY <1>1, <1>3, <1>4, <1>5, <1>6

\* A result of the records of texts.
LEMMA TextResult ==
  ASSUME FieldTypes, type \in Text, NEW v \in Variants
  PROVE  LET r == Assigned(v) IN
         /\ r \in FieldsOf(type)
         /\ r.val = Cut(get_string(v), BufferSize(type))
         /\ type \in LongString => r.len = Len(r.val) + 1
<1> DEFINE s == Cut(get_string(v), BufferSize(type))
<1>1. type \in {"lsi", "lso", "stringin", "stringout"} /\ rec \in FieldsOf(type)
  BY DEF FieldTypes, Text, LongString
<1>2. s \in ValuesOf(type) /\ s \in Seq(Char)
  BY GetterTypes, CutText, Values
<1>3. Len(s) + 1 \in Nat
  BY <1>2
<1>4. CASE type \in LongString
  <2>1. BufferSize(type) = Sizv
    BY <1>4 DEF BufferSize
  <2>2. Assigned(v) = [rec EXCEPT !.val = s, !.len = Len(s) + 1, !.udf = FALSE]
    BY <1>4, <2>1 DEF Assigned, LsiResult, LsoResult, LongString
  <2> HIDE DEF s
  <2> QED
    BY <1>1, <1>2, <1>3, <1>4, <2>2 DEF FieldsOf, s
<1>5. CASE type \notin LongString
  <2>1. BufferSize(type) = StringSize
    BY <1>5 DEF BufferSize
  <2>2. Assigned(v) = [rec EXCEPT !.val = s, !.udf = FALSE]
    BY <1>1, <1>5, <2>1 DEF Assigned, StringinResult, StringoutResult, LongString
  <2> HIDE DEF s
  <2> QED
    BY <1>1, <1>2, <1>5, <2>2 DEF FieldsOf, s
<1> QED
  BY <1>4, <1>5

LEMMA AssignedType ==
  ASSUME FieldTypes, NEW v \in Variants
  PROVE  Assigned(v) \in FieldsOf(type)
BY AnalogResult, NumberResult, TextResult

\* Code that returns its argument.
LEMMA EchoType ==
  ASSUME FieldTypes
  PROVE  /\ Echo \in Variants
         /\ type \in Text => get_string(Echo) = arg
         /\ type \in Analog => get_double(Echo) = arg
         /\ type \notin Text \cup Analog => get_long(Echo) = arg /\ get_bool(Echo) = IF arg # 0 THEN 1 ELSE 0
<1>1. type \in {"ai", "ao", "bi", "bo", "longin", "longout", "mbbi", "mbbo", "lsi", "lso", "stringin", "stringout"}
  BY AllTypes DEF FieldTypes
<1>2. arg \in ValuesOf(type) /\ <<>> \in Seq(Char)
  BY DEF FieldTypes
<1>3. CASE type \in Text
  <2>1. type \notin Analog
    BY <1>3 DEF Text, LongString, Analog
  <2>2. Echo = [type |-> "TEXT", n |-> 0, text |-> arg]
    BY <1>3, <2>1 DEF Echo
  <2>3. arg \in Seq(Char)
    BY <1>2, <1>3, Values
  <2> QED
    BY <1>3, <2>1, <2>2, <2>3 DEF Variants, get_string
<1>4. CASE type \in Analog
  <2>1. type \notin Text
    BY <1>4 DEF Text, LongString, Analog
  <2>2. Echo = [type |-> "DOUBLE", n |-> arg, text |-> <<>>]
    BY <1>4, <2>1 DEF Echo
  <2>3. arg \in Int
    BY <1>2, <1>4, Values DEF Analog
  <2> QED
    BY <1>2, <1>4, <2>1, <2>2, <2>3 DEF Variants, get_double
<1>5. CASE type \notin Text /\ type \notin Analog
  <2>1. Echo = [type |-> "LONG", n |-> arg, text |-> <<>>]
    BY <1>5 DEF Echo
  <2>2. arg \in Int
    <3>1. type \in {"bi", "bo", "longin", "longout", "mbbi", "mbbo"}
      BY <1>1, <1>5 DEF Text, LongString, Analog
    <3>2. (\A n \in Longs : n \in Int) /\ (\A n \in Enums : n \in Int)
      BY ToInt32Range, ToEnum16Range
    <3>3. ValuesOf(type) \in {{0, 1}, Longs, Enums}
      BY <3>1, Values
    <3>4. CASE ValuesOf(type) = {0, 1}
      BY <1>2, <3>4
    <3> QED
      BY <1>2, <3>2, <3>3, <3>4
  <2> QED
    BY <1>2, <1>5, <2>1, <2>2 DEF Variants, get_long, get_bool
<1> QED
  BY <1>3, <1>4, <1>5

-----------------------------------------------------------------------------
(* The invariant.                                                            *)

LEMMA InitInv == Init => IInv
<1> SUFFICES ASSUME Init PROVE IInv
  OBVIOUS
<1>1. Zero(type) \in ValuesOf(type) /\ type \in Types
  BY ZeroType DEF Init
<1>2. rec \in FieldsOf(type) /\ rec.val = Zero(type)
  <2>1. PICK s \in Scales(type) :
          rec = [val |-> Zero(type), rval |-> 0, oval |-> 0, len |-> 0, udf |-> TRUE,
                 aslo |-> s.aslo, aoff |-> s.aoff, smoo |-> s.smoo, states |-> s.states, shft |-> s.shft]
    BY DEF Init
  <2>2. /\ s.aslo \in (IF type \in Analog THEN Slopes ELSE {1})
        /\ s.aoff \in (IF type \in Analog THEN Offsets ELSE {0})
        /\ s.smoo \in (IF type = "ai" THEN Smoothings ELSE {FALSE})
        /\ s.states \in (IF type \in Multistate THEN States ELSE {<<>>})
        /\ s.shft \in (IF type \in Multistate THEN Shifts ELSE {1})
    BY DEF Scales
  <2>5. /\ Slopes \subseteq Nat /\ Offsets \subseteq Int /\ Smoothings \subseteq BOOLEAN
        /\ Shifts \subseteq Nat \ {0} /\ States \subseteq StateLists /\ <<>> \in StateLists
    <3>1. <<>> \in Seq(Nat) /\ Len(<<>>) = 0 /\ 2 ^ EnumWidth > 0 /\ 2 ^ EnumWidth \in Int
      BY DeviceSupportAssumption
    <3>2. 0 <= 2 ^ EnumWidth
      BY <3>1
    <3> QED
      BY <3>1, <3>2, DeviceSupportAssumption DEF StateLists
  <2>3. s.aslo \in Nat /\ s.aoff \in Int /\ s.smoo \in BOOLEAN /\ s.shft \in Nat \ {0}
    <3>1. 1 \in Nat \ {0} /\ 0 \in Int /\ FALSE \in BOOLEAN
      OBVIOUS
    <3> QED
      BY <2>2, <2>5, <3>1
  <2>4. s.states \in StateLists
    BY <2>2, <2>5
  <2> QED
    BY <1>1, <2>1, <2>3, <2>4 DEF FieldsOf
<1>3. None \in Variants
  <2>1. <<>> \in Seq(Char)
    OBVIOUS
  <2> QED
    BY <2>1 DEF None, Variants
<1>4. FieldTypes
  <2>1. /\ arg = Zero(type) /\ own = Zero(type) /\ before = Zero(type) /\ result = None
        /\ pc = "idle" /\ status = "unset" /\ passes = 0
    BY DEF Init
  <2>2. echoed \in BOOLEAN /\ disturbed \in BOOLEAN /\ touched \in BOOLEAN
    BY DEF Init
  <2>3. passes \in 0 .. MaxPass
    BY <2>1, DeviceSupportAssumption
  <2> QED
    BY <1>1, <1>2, <1>3, <2>1, <2>2, <2>3 DEF FieldTypes
<1> QED
  BY <1>2, <1>4 DEF Init, IInv, OwnInv, ResultInv, Scaling, Shown, BareInv, EchoInv

\* Taking the scale off and giving it to the result keep the fields' types.
LEMMA ScaleType ==
  ASSUME FieldTypes, TakeOffset \/ TakeSlope \/ GiveSlope \/ GiveOffset
  PROVE  /\ type \in Analog /\ rec' \in FieldsOf(type) /\ before' \in ValuesOf(type) /\ rec'.val \in ValuesOf(type)
         /\ rec'.aslo = rec.aslo /\ rec'.aoff = rec.aoff /\ rec'.smoo = rec.smoo
         /\ TakeOffset => rec'.val = before' - rec.aoff
         /\ TakeSlope => rec'.val = rec.val \div Factor
         /\ GiveSlope => rec'.val = rec.val * Factor
         /\ GiveOffset => rec'.val = rec.val + rec.aoff
<1>1. type \in Analog
  BY DEF FieldTypes, TakeOffset, TakeSlope, GiveSlope, GiveOffset, Analog
<1>2. rec \in FieldsOf(type) /\ ValuesOf(type) = Int /\ before \in Int
  BY <1>1, Values DEF FieldTypes, Analog
<1>3. rec.val \in Int /\ rec.oval \in Int /\ rec.aoff \in Int /\ Factor \in Nat /\ Factor > 0
  BY <1>2, FactorType DEF FieldsOf
<1>4. \A x \in Int, y \in Int, z \in Nat : x - y \in Int /\ x + y \in Int /\ x * z \in Int /\ (z > 0 => x \div z \in Int)
  OBVIOUS
<1>5. CASE TakeOffset
  <2>1. before' \in Int /\ rec' = [rec EXCEPT !.val = before' - rec.aoff]
    BY <1>3, <1>5 DEF TakeOffset
  <2> QED
    BY <1>1, <1>2, <1>3, <1>4, <1>5, <2>1 DEF FieldsOf, TakeOffset, TakeSlope, GiveSlope, GiveOffset
<1>6. CASE TakeSlope
  <2>1. rec' = [rec EXCEPT !.val = rec.val \div Factor] /\ before' = before
    BY <1>6 DEF TakeSlope
  <2>2. rec.val \div Factor \in Int
    BY <1>3, <1>4
  <2> QED
    BY <1>1, <1>2, <1>6, <2>1, <2>2 DEF FieldsOf, TakeOffset, TakeSlope, GiveSlope, GiveOffset
<1>7. CASE GiveSlope
  <2>1. rec' = [rec EXCEPT !.val = rec.val * Factor] /\ before' = before
    BY <1>7 DEF GiveSlope
  <2>2. rec.val * Factor \in Int
    BY <1>3, <1>4
  <2> QED
    BY <1>1, <1>2, <1>7, <2>1, <2>2 DEF FieldsOf, TakeOffset, TakeSlope, GiveSlope, GiveOffset
<1>8. CASE GiveOffset
  <2>1. rec' = [rec EXCEPT !.val = rec.val + rec.aoff, !.udf = FALSE] /\ before' = before
    BY <1>8 DEF GiveOffset
  <2> QED
    BY <1>1, <1>2, <1>3, <1>4, <1>8, <2>1 DEF FieldsOf, TakeOffset, TakeSlope, GiveSlope, GiveOffset
<1> QED
  BY <1>5, <1>6, <1>7, <1>8

\* What a pass reads.
LEMMA ReadType ==
  ASSUME FieldTypes, ReadArguments
  PROVE  /\ rec' = rec /\ arg' = rec.val /\ arg' \in ValuesOf(type) /\ before' \in ValuesOf(type)
         /\ type \notin Analog => arg' = before'
BY DEF FieldTypes, FieldsOf, ReadArguments

\* What the second pass makes of the fields.
LEMMA CompleteType ==
  ASSUME FieldTypes, ResultInv, Complete
  PROVE  /\ rec' \in FieldsOf(type) /\ own' \in ValuesOf(type)
         /\ status = "ok" /\ type \in Raw =>
              /\ rec'.val = RawValue /\ own' = rec'.val /\ rec'.len = rec.len
              /\ rec'.aslo = rec.aslo /\ rec'.aoff = rec.aoff /\ rec'.smoo = rec.smoo
              /\ rec'.states = rec.states /\ rec'.shft = rec.shft
<1>1. rec \in FieldsOf(type) /\ own \in ValuesOf(type) /\ result \in Variants /\ rec.rval \in Int
  BY DEF FieldTypes, FieldsOf
<1>2. CASE status = "ok" /\ type \in Raw
  <2>1. rec' = [rec EXCEPT !.val = RawValue] /\ own' = rec'.val
    BY <1>2 DEF Complete, Raw
  <2>2. type = "bi" => rec.rval \in {0, 1}
    BY <1>1, <1>2, GetterTypes DEF ResultInv, Shown, Complete
  <2>3. RawValue \in ValuesOf(type)
    BY <1>2, <2>2, RawValueType
  <2>4. rec' \in FieldsOf(type) /\ rec'.val = RawValue
    BY <1>1, <2>1, <2>3 DEF FieldsOf
  <2>5. /\ rec'.len = rec.len /\ rec'.aslo = rec.aslo /\ rec'.aoff = rec.aoff /\ rec'.smoo = rec.smoo
        /\ rec'.states = rec.states /\ rec'.shft = rec.shft
    BY <1>1, <2>1 DEF FieldsOf
  <2> QED
    BY <1>2, <2>1, <2>3, <2>4, <2>5
<1>3. CASE ~(status = "ok" /\ type \in Raw)
  <2>1. rec' = rec /\ own' = own
    BY <1>3 DEF Complete, Raw
  <2> QED
    BY <1>1, <1>3, <2>1
<1> QED
  BY <1>2, <1>3

LEMMA ReturnType ==
  ASSUME FieldTypes, NEW v \in Results \cup {Echo}, Return(v)
  PROVE  /\ v \in Variants
         /\ rec' \in FieldsOf(type) /\ own' \in ValuesOf(type)
         /\ \/ /\ v.type \in Takes(type) /\ rec' = Assigned(v) /\ own' = rec'.val /\ ~touched'
               /\ pc' = IF type = "ao" THEN "times" ELSE "done"
               /\ type # "ao" => status' = "ok"
            \/ rec' = rec /\ own' = own /\ pc' = "done" /\ status' = "fail"
<1>1. v \in Variants
  BY EchoType, DeviceSupportAssumption
<1>2. Assigned(v) \in FieldsOf(type) /\ rec \in FieldsOf(type) /\ own \in ValuesOf(type)
  BY <1>1, AssignedType DEF FieldTypes
<1>3. Assigned(v).val \in ValuesOf(type)
  BY <1>2 DEF FieldsOf
<1>4. CASE v.type \in Takes(type)
  BY <1>1, <1>2, <1>3, <1>4 DEF Return
<1>5. CASE v.type \notin Takes(type)
  BY <1>1, <1>2, <1>5 DEF Return, Fail
<1> QED
  BY <1>4, <1>5

LEMMA FieldTypesStep == FieldTypes /\ ResultInv /\ [Next]_vars => FieldTypes'
<1> SUFFICES ASSUME FieldTypes, ResultInv, [Next]_vars PROVE FieldTypes'
  OBVIOUS
<1>10. rec \in FieldsOf(type)
  BY DEF FieldTypes
<1>1. ASSUME NEW n \in Puts(type), Put(n)
      PROVE  FieldTypes'
  <2>1. n \in ValuesOf(type)
    BY PutType DEF FieldTypes
  <2>2. type \in LongString => Len(n) + 1 \in Nat
    BY <2>1, Values DEF Text
  <2>3. rec' \in FieldsOf(type)
    BY <1>10, <1>1, <2>1, <2>2 DEF Put, FieldsOf
  <2> QED
    BY <1>1, <2>1, <2>3 DEF Put, FieldTypes
<1>2. CASE FirstPass
  <2>1. type = "ao" => rec.val \in Int
    BY <1>10, Values DEF FieldsOf
  <2>2. type = "bo" => rec.val \in Int
    <3>1. rec.val \in ValuesOf(type)
      BY <1>10 DEF FieldsOf
    <3> QED
      BY <3>1, Values
  <2>4. type = "mbbo" => StateValue \in Int
    <3> SUFFICES ASSUME type = "mbbo" PROVE StateValue \in Int
      OBVIOUS
    <3>1. rec.val \in Int /\ rec.rval \in Int /\ rec.shft \in Nat /\ rec.states \in Seq(Nat)
      BY <1>10, Values, ToEnum16Range DEF FieldsOf, StateLists
    <3>2. \A k \in DOMAIN rec.states : rec.states[k] \in Int
      BY <3>1
    <3>3. \A x \in Int, y \in Nat : x * y \in Int
      OBVIOUS
    <3> QED
      BY <3>1, <3>2, <3>3 DEF StateValue
  <2>3. rec' \in FieldsOf(type)
    BY <1>10, <1>2, <2>1, <2>2, <2>4 DEF FirstPass, FieldsOf
  <2> QED
    BY <1>2, <2>3, DeviceSupportAssumption DEF FirstPass, FieldTypes
<1>3. CASE ReadArguments
  BY <1>3, ReadType DEF ReadArguments, FieldTypes
<1>8. CASE TakeOffset \/ TakeSlope \/ GiveSlope \/ GiveOffset
  <2>1. /\ rec' \in FieldsOf(type) /\ before' \in ValuesOf(type) /\ rec'.val \in ValuesOf(type) /\ type \in Analog
    BY <1>8, ScaleType
  <2>2. pc' \in {"plus"} => type = "ao"
    BY <1>8 DEF FieldTypes, TakeOffset, TakeSlope, GiveSlope, GiveOffset
  <2> QED
    BY <1>8, <2>1, <2>2 DEF TakeOffset, TakeSlope, GiveSlope, GiveOffset, FieldTypes
<1>4. CASE Raise
  BY <1>4 DEF Raise, Fail, FieldTypes
<1>5. ASSUME NEW v \in Results \cup {Echo}, Return(v)
      PROVE  FieldTypes'
  <2>1. /\ status' \in {"unset", "ok", "fail"} /\ echoed' \in BOOLEAN /\ touched' \in BOOLEAN
        /\ disturbed' = disturbed /\ pc' \in {"times", "done"} /\ (pc' = "times" => type = "ao")
    BY <1>5 DEF Return, Fail, FieldTypes
  <2> QED
    BY <1>5, <2>1, ReturnType DEF Return, FieldTypes
<1>6. CASE Complete
  <2>1. touched' \in BOOLEAN
    BY <1>6 DEF Complete, FieldTypes
  <2> QED
    BY <1>6, <2>1, CompleteType DEF Complete, FieldTypes
<1>7. CASE UNCHANGED vars
  BY <1>7 DEF vars, FieldTypes
<1> QED
  BY <1>1, <1>2, <1>3, <1>4, <1>5, <1>6, <1>7, <1>8 DEF Next, Ended

LEMMA OwnStep == FieldTypes /\ ResultInv /\ OwnInv /\ [Next]_vars => OwnInv'
<1> SUFFICES ASSUME FieldTypes, ResultInv, OwnInv, [Next]_vars PROVE OwnInv'
  OBVIOUS
<1>1. ASSUME NEW n \in Puts(type), Put(n)
      PROVE  OwnInv'
  BY <1>1 DEF Put, OwnInv, FieldTypes, FieldsOf
<1>2. CASE FirstPass
  <2>1. rec'.val = rec.val /\ pc = "idle" /\ UNCHANGED <<type, own, arg>>
    BY <1>2 DEF FirstPass, FieldTypes, FieldsOf
  <2> QED
    BY <2>1 DEF OwnInv
<1>3. CASE ReadArguments
  <2>1. arg' = rec'.val /\ (type \notin Analog => rec' = rec) /\ own' = own /\ type' = type
    BY <1>3, ReadType DEF ReadArguments
  <2>2. type \notin Analog => pc \notin {"slope", "read"}
    BY DEF FieldTypes
  <2> QED
    BY <2>1, <2>2 DEF OwnInv
<1>8. CASE TakeOffset \/ TakeSlope
  <2>1. type \in Analog
    BY <1>8, ScaleType
  <2> QED
    BY <1>8, <2>1 DEF TakeOffset, TakeSlope, OwnInv
<1>9. CASE GiveSlope \/ GiveOffset
  BY <1>9 DEF GiveSlope, GiveOffset, OwnInv
<1>4. CASE Raise
  BY <1>4 DEF Raise, Fail, OwnInv
<1>5. ASSUME NEW v \in Results \cup {Echo}, Return(v)
      PROVE  OwnInv'
  <2>1. UNCHANGED <<type, arg>> /\ pc = "code"
    BY <1>5 DEF Return
  <2>2. own' = rec'.val \/ (rec' = rec /\ own' = own)
    BY <1>5, ReturnType
  <2> QED
    BY <2>1, <2>2 DEF OwnInv
<1>6. CASE Complete
  BY <1>6 DEF Complete, OwnInv
<1>7. CASE UNCHANGED vars
  BY <1>7 DEF vars, OwnInv
<1> QED
  BY <1>1, <1>2, <1>3, <1>4, <1>5, <1>6, <1>7, <1>8, <1>9 DEF Next, Ended

\* What the assignment shows, by the type of the record.
LEMMA AssignedShows ==
  ASSUME FieldTypes, NEW v \in Variants, type \notin Raw \cup {"ao", "bo"},
         rec' = Assigned(v), result' = v, type' = type
  PROVE  ShowsResult'
<1>1. rec'.aslo = rec.aslo /\ rec'.aoff = rec.aoff /\ rec'.smoo = rec.smoo
  BY AssignedScale
<1>2. Factor' = Factor /\ ForgottenSlope' = ForgottenSlope /\ ~HasStates'
  BY <1>1 DEF Factor, ForgottenSlope, HasStates, Raw
<1>3. CASE type = "ai"
  <2>1. type \in Analog /\ type \notin Text /\ type \notin LongString
    BY <1>3 DEF Analog, Text, LongString
  <2>2. Promised' = get_double(v) * Factor + rec.aoff
    <3>1. get_double(result)' = get_double(v)
      BY DEF get_double
    <3>2. Promised' = get_double(result)' * Factor' + rec'.aoff
      BY <1>3, <2>1 DEF Promised, Bistate
    <3> QED
      BY <1>1, <1>2, <3>1, <3>2
  <2>3. ~rec.smoo => rec'.val = get_double(v) * rec.aslo + rec.aoff
    BY <1>3, <2>1, AnalogResult
  <2>4. ~ForgottenSlope => Factor = rec.aslo
    BY <1>3, FactorType DEF ForgottenSlope
  <2>5. ~rec.smoo /\ ~ForgottenSlope => rec'.val = Promised'
    BY <2>2, <2>3, <2>4
  <2> QED
    BY <1>1, <1>2, <2>1, <2>5 DEF ShowsResult
<1>4. CASE type \in Text
  <2>1. rec'.val = Cut(get_string(v), BufferSize(type)) /\ (type \in LongString => rec'.len = Len(rec'.val) + 1)
    BY <1>4, TextResult
  <2>2. Promised' = Cut(get_string(v), BufferSize(type))
    <3>1. Cut(get_string(result), BufferSize(type))' = Cut(get_string(v), BufferSize(type))
      BY DEF get_string, Cut, BufferSize
    <3>2. Promised' = Cut(get_string(result), BufferSize(type))'
      BY <1>4 DEF Promised, Text, LongString, Analog, Bistate
    <3> QED
      BY <3>1, <3>2
  <2> QED
    BY <1>2, <2>1, <2>2 DEF ShowsResult
<1>5. CASE type \notin Text /\ type # "ai"
  <2>1. type \in {"longin", "longout", "mbbo"} /\ type \notin LongString /\ type \notin Bistate /\ type \notin Analog
    BY <1>5, AllTypes DEF FieldTypes, Text, LongString, Analog, Raw, Bistate
  <2>2. Promised' = get_long(v)
    BY <1>5, <2>1 DEF Promised, get_long, Truncated
  <2>3. get_long(v) \in ValuesOf(type) => rec'.val = get_long(v)
    <3>1. CASE type \in {"longin", "longout"}
      BY <1>5, <2>1, <3>1, NumberResult, Values, ToInt32Range
    <3>2. CASE type = "mbbo"
      BY <1>5, <2>1, <3>2, NumberResult, Values, ToEnum16Range
    <3> QED
      BY <2>1, <3>1, <3>2
  <2>4. (Promised \in ValuesOf(type))' <=> get_long(v) \in ValuesOf(type)
    BY <2>2 DEF ValuesOf, BufferSize
  <2>5. Fits' => (Promised \in ValuesOf(type))'
    BY DEF Fits
  <2> QED
    BY <1>2, <2>1, <2>2, <2>3, <2>4, <2>5 DEF ShowsResult
<1> QED
  BY <1>3, <1>4, <1>5

\* The same of an ao, whose result has got its scale.
LEMMA ScaledShows ==
  ASSUME FieldTypes, type = "ao", rec.val = get_double(result) * Factor, GiveOffset
  PROVE  ShowsResult'
<1>1. rec'.val = rec.val + rec.aoff /\ rec'.aoff = rec.aoff /\ rec'.aslo = rec.aslo
  BY ScaleType
<1>2. UNCHANGED <<type, result>>
  BY DEF GiveOffset
<1>3. Factor' = Factor /\ get_double(result)' = get_double(result)
  BY <1>1, <1>2 DEF Factor, get_double
<1>4. Promised' = get_double(result)' * Factor' + rec'.aoff
  <2>1. type' = type /\ type \notin Text /\ type \in Analog
    BY <1>2 DEF Text, LongString, Analog
  <2> QED
    BY <2>1 DEF Promised, Bistate
<1>5. ~HasStates' /\ type' \notin LongString
  BY <1>2 DEF HasStates, LongString
<1> QED
  BY <1>1, <1>3, <1>4, <1>5 DEF ShowsResult

\* The same of a bi or mbbi, whose RVAL the second pass converts.
LEMMA ConvertedShows ==
  ASSUME FieldTypes, ResultInv, Complete, status = "ok", type \in Raw
  PROVE  ShowsResult'
<1>1. /\ rec'.val = RawValue /\ rec'.states = rec.states /\ rec'.shft = rec.shft
      /\ UNCHANGED <<type, result>> /\ pc = "done"
  BY CompleteType DEF Complete
<1>2. get_long(result)' = get_long(result) /\ get_bool(result)' = get_bool(result)
  BY <1>1 DEF get_long, get_bool, Truncated
<1>3. type \notin LongString /\ type \notin Text /\ type \notin Analog
  BY DEF Raw, LongString, Text, Analog
<1>4. get_long(result) \in Int /\ rec.shft \in Int /\ rec.shft > 0
  BY GetterTypes DEF FieldTypes, FieldsOf
<1>5. CASE type = "bi"
  <2>1. Promised' = get_bool(result) /\ ~HasStates'
    BY <1>1, <1>2, <1>3, <1>5 DEF Promised, Bistate, HasStates
  <2>2. rec'.val = get_bool(result)
    BY <1>1, <1>5 DEF RawValue, ResultInv, Shown
  <2> QED
    BY <1>1, <1>3, <2>1, <2>2 DEF ShowsResult
<1>6. CASE type = "mbbi"
  <2> DEFINE raw == get_long(result) \div rec.shft
  <2>1. Promised' = raw
    BY <1>1, <1>2, <1>3, <1>6 DEF Promised, Bistate
  <2>2. FitsRaw(get_long(result))' <=> FitsRaw(get_long(result))
    BY <1>2 DEF FitsRaw
  <2>3. rec.rval = get_long(result) % (2 ^ Width)
    BY <1>1, <1>6 DEF ResultInv, Shown
  <2>4. FitsRaw(get_long(result)) => rec'.val = StateOf(raw)
    BY <1>1, <1>4, <1>6, <2>3, RawFits DEF RawValue
  <2>5. raw \in Int
    BY <1>4
  <2>6. CASE rec.states = <<>>
    <3>1. ~HasStates'
      BY <1>1, <2>6 DEF HasStates
    <3>2. ASSUME Fits'
          PROVE  rec'.val = Promised'
      <4>1. FitsRaw(get_long(result))
        BY <1>1, <1>6, <2>2, <3>2 DEF Fits
      <4>2. (Promised \in ValuesOf(type))'
        BY <3>2 DEF Fits
      <4>3. raw \in ValuesOf(type)
        BY <1>1, <2>1, <4>2 DEF ValuesOf, BufferSize
      <4>4. raw \in Enums
        BY <1>6, <4>3, Values
      <4> QED
        BY <2>1, <2>4, <2>5, <2>6, <4>1, <4>4, FirstState, ToEnum16Range
    <3> QED
      BY <1>1, <1>3, <3>1, <3>2 DEF ShowsResult
  <2>7. CASE rec.states # <<>>
    <3>1. HasStates'
      BY <1>1, <1>6, <2>7 DEF HasStates
    <3>2. ASSUME FitsRaw(get_long(result))
          PROVE  ShowsState(Promised)'
      <4>1. rec'.val = StateOf(raw)
        BY <2>4, <3>2
      <4>2. Matching(raw)' = Matching(raw)
        BY <1>1, <1>2 DEF Matching
      <4>3. Matching(Promised)' = Matching(raw)
        BY <1>1, <2>1 DEF Matching
      <4>4. Unknown' = Unknown
        BY DEF Unknown
      <4> HIDE DEF raw
      <4>5. IF \E k \in DOMAIN rec.states : rec.states[k] = raw
              THEN StateOf(raw) + 1 \in Matching(raw) /\ \A k \in 1 .. StateOf(raw) : rec.states[k] # raw
              ELSE StateOf(raw) = Unknown
        BY <2>5, <2>7, FirstState
      <4> QED
        BY <1>1, <2>1, <4>1, <4>3, <4>4, <4>5 DEF ShowsState
    <3> QED
      BY <1>1, <1>3, <2>2, <3>1, <3>2 DEF ShowsResult
  <2> QED
    BY <2>6, <2>7
<1> QED
  BY <1>5, <1>6 DEF Raw

LEMMA ScalingStep == FieldTypes /\ ResultInv /\ [Next]_vars => Scaling'
<1> SUFFICES ASSUME FieldTypes, ResultInv, [Next]_vars PROVE Scaling'
  OBVIOUS
<1>1. ASSUME pc' \notin {"times", "plus"} \/ touched'
      PROVE  Scaling'
  BY <1>1 DEF Scaling
<1>2. ASSUME NEW n \in Puts(type), Put(n)
      PROVE  Scaling'
  BY <1>1, <1>2 DEF Put
<1>3. ASSUME NEW v \in Results \cup {Echo}, Return(v)
      PROVE  Scaling'
  <2>1. CASE pc' = "times"
    <3>1. type = "ao" /\ v \in Variants /\ rec' = Assigned(v) /\ result' = v
      BY <1>3, <2>1, ReturnType DEF Return
    <3>2. get_double(result)' = get_double(v)
      BY <3>1 DEF get_double
    <3>3. rec'.val = get_double(v)
      BY <3>1, AnalogResult DEF Analog
    <3> QED
      BY <2>1, <3>2, <3>3 DEF Scaling
  <2>2. CASE pc' # "times"
    BY <1>1, <1>3, <2>2 DEF Return
  <2> QED
    BY <2>1, <2>2
<1>4. CASE GiveSlope
  <2>1. rec'.val = rec.val * Factor /\ rec'.aslo = rec.aslo
    BY <1>4, ScaleType
  <2>2. UNCHANGED <<result, touched>> /\ pc = "times" /\ pc' = "plus"
    BY <1>4 DEF GiveSlope
  <2>3. Factor' = Factor /\ get_double(result)' = get_double(result)
    BY <2>1, <2>2 DEF Factor, get_double
  <2> QED
    BY <2>1, <2>2, <2>3 DEF ResultInv, Scaling
<1>5. ASSUME FirstPass \/ TakeOffset \/ TakeSlope \/ ReadArguments \/ Raise \/ GiveOffset \/ Complete
      PROVE  Scaling'
  BY <1>1, <1>5 DEF FirstPass, TakeOffset, TakeSlope, ReadArguments, Raise, GiveOffset, Complete
<1>6. CASE UNCHANGED vars
  BY <1>6 DEF vars, ResultInv, Scaling, Factor, get_double
<1> QED
  BY <1>2, <1>3, <1>4, <1>5, <1>6 DEF Next, Ended

LEMMA ShownStep == FieldTypes /\ ResultInv /\ [Next]_vars => Shown'
<1> SUFFICES ASSUME FieldTypes, ResultInv, [Next]_vars, pc' \in {"done", "idle"}, status' = "ok" PROVE Shown'
  BY DEF Shown
<1>1. ASSUME NEW n \in Puts(type), Put(n)
      PROVE  Shown'
  <2>1. rec'.rval = rec.rval /\ touched' /\ UNCHANGED <<type, pc, result, status>>
    BY <1>1 DEF Put, FieldTypes, FieldsOf
  <2>2. get_bool(result)' = get_bool(result) /\ get_long(result)' = get_long(result)
    BY <2>1 DEF get_bool, get_long, Truncated
  <2> QED
    BY <2>1, <2>2 DEF ResultInv, Shown
<1>2. ASSUME NEW v \in Results \cup {Echo}, Return(v)
      PROVE  Shown'
  <2>1. /\ v \in Variants /\ rec' = Assigned(v) /\ result' = v /\ type' = type /\ pc' = "done" /\ ~touched'
        /\ type # "ao"
    BY <1>2, ReturnType DEF Return
  <2>2. get_bool(result)' = get_bool(v) /\ get_long(result)' = get_long(v)
    BY <2>1 DEF get_bool, get_long, Truncated
  <2>3. CASE type \in Raw
    <3>1. type \notin Analog /\ type \notin Text
      BY <2>3 DEF Raw, Analog, Text, LongString
    <3>2. /\ type = "bi" => rec'.rval = get_bool(v)
          /\ type = "mbbi" => rec'.rval = get_long(v) % (2 ^ Width)
      BY <2>1, <3>1, NumberResult
    <3> QED
      BY <2>1, <2>2, <2>3, <3>2 DEF Shown
  <2>4. CASE type = "bo"
    BY <2>1, <2>4 DEF Shown
  <2>5. CASE type \notin Raw \cup {"bo"}
    <3>1. ShowsResult'
      BY <2>1, <2>5, AssignedShows
    <3> QED
      BY <2>1, <2>5, <3>1 DEF Shown, Raw
  <2> QED
    BY <2>3, <2>4, <2>5
<1>3. CASE Complete
  <2>1. pc = "done" /\ pc' = "idle" /\ status = "ok" /\ UNCHANGED <<type, result>>
    BY <1>3 DEF Complete
  <2>2. CASE type \in Raw
    BY <1>3, <2>1, <2>2, ConvertedShows DEF Shown
  <2>3. CASE type \notin Raw
    <3>1. UNCHANGED <<rec, touched>>
      BY <1>3, <2>3 DEF Complete, Raw
    <3>2. ShowsResult' = ShowsResult
      BY <2>1, <3>1
         DEF ShowsResult, ForgottenSlope, HasStates, Fits, FitsRaw, ShowsState, Matching, Unknown, Promised, get_double,
             get_long, get_bool, get_string, Truncated, Factor, Cut, BufferSize, ValuesOf
    <3> QED
      BY <2>1, <2>3, <3>1, <3>2 DEF ResultInv, Shown
  <2> QED
    BY <2>2, <2>3
<1>6. CASE GiveOffset
  <2>1. type = "ao" /\ type' = type /\ pc = "plus" /\ pc' = "done" /\ touched' = touched
    BY <1>6 DEF GiveOffset, FieldTypes
  <2>2. ~touched => ShowsResult'
    BY <1>6, <2>1, ScaledShows DEF ResultInv, Scaling
  <2> QED
    BY <2>1, <2>2 DEF Shown
<1>4. CASE UNCHANGED vars
  BY <1>4
     DEF vars, ResultInv, Shown, ShowsResult, ForgottenSlope, HasStates, Fits, FitsRaw, ShowsState, Matching, Unknown,
         Promised, get_double, get_long, get_bool, get_string, Truncated, Factor, Cut, BufferSize, ValuesOf
<1>5. ASSUME FirstPass \/ TakeOffset \/ TakeSlope \/ ReadArguments \/ Raise \/ GiveSlope
      PROVE  FALSE
  BY <1>5 DEF FirstPass, TakeOffset, TakeSlope, ReadArguments, Raise, Fail, GiveSlope
<1> QED
  BY <1>1, <1>2, <1>3, <1>4, <1>5, <1>6 DEF Next, Ended

LEMMA ResultStep == FieldTypes /\ ResultInv /\ [Next]_vars => ResultInv'
BY ScalingStep, ShownStep DEF ResultInv

\* The argument of an analog record is its value without the scale.
LEMMA BareStep == FieldTypes /\ BareInv /\ [Next]_vars => BareInv'
<1> SUFFICES ASSUME FieldTypes, BareInv, [Next]_vars, type' \in Analog, ~disturbed' PROVE BareInv'
  BY DEF BareInv
<1>1. ASSUME UNCHANGED before, rec'.aslo = rec.aslo, rec'.aoff = rec.aoff
      PROVE  Bare' = Bare
  BY <1>1 DEF Bare, Factor
<1>2. ASSUME NEW n \in Puts(type), Put(n)
      PROVE  BareInv'
  <2>1. /\ UNCHANGED <<type, arg, before, pc>> /\ ~disturbed /\ pc \notin {"slope", "read"}
        /\ rec'.aslo = rec.aslo /\ rec'.aoff = rec.aoff
    BY <1>2 DEF Put, FieldTypes, FieldsOf
  <2> QED
    BY <1>1, <2>1 DEF BareInv
<1>3. CASE TakeOffset
  <2>1. rec'.val = before' - rec.aoff /\ rec'.aoff = rec.aoff /\ pc' = "slope"
    BY <1>3, ScaleType DEF TakeOffset
  <2> QED
    BY <2>1 DEF BareInv
<1>4. CASE TakeSlope
  <2>1. /\ rec'.val = rec.val \div Factor /\ rec'.aoff = rec.aoff /\ rec'.aslo = rec.aslo
        /\ pc = "slope" /\ pc' = "read" /\ UNCHANGED <<type, before, disturbed>>
    BY <1>4, ScaleType DEF TakeSlope
  <2>2. rec'.val = Bare
    BY <2>1 DEF BareInv, Bare
  <2> QED
    BY <1>1, <2>1, <2>2 DEF BareInv
<1>5. CASE ReadArguments
  <2>1. pc = "read" /\ pc' = "code" /\ UNCHANGED <<type, before, rec, disturbed>> /\ arg' = rec.val
    BY <1>5 DEF ReadArguments
  <2> QED
    BY <1>1, <2>1 DEF BareInv
<1>6. ASSUME NEW v \in Results \cup {Echo}, Return(v)
      PROVE  BareInv'
  <2>1. UNCHANGED <<type, arg, before, disturbed>> /\ pc = "code" /\ pc' \in {"times", "done"}
    BY <1>6 DEF Return
  <2>2. rec'.aslo = rec.aslo /\ rec'.aoff = rec.aoff
    BY <1>6, ReturnType, AssignedScale
  <2> QED
    BY <1>1, <2>1, <2>2 DEF BareInv
<1>7. CASE Raise
  <2>1. UNCHANGED <<type, arg, before, disturbed, rec>> /\ pc = "code" /\ pc' = "done"
    BY <1>7 DEF Raise, Fail
  <2> QED
    BY <1>1, <2>1 DEF BareInv
<1>8. CASE GiveSlope \/ GiveOffset
  <2>1. UNCHANGED <<type, arg, before, disturbed>> /\ pc \in {"times", "plus"} /\ pc' \in {"plus", "done"}
    BY <1>8 DEF GiveSlope, GiveOffset
  <2>2. rec'.aslo = rec.aslo /\ rec'.aoff = rec.aoff
    BY <1>8, ScaleType
  <2> QED
    BY <1>1, <2>1, <2>2 DEF BareInv
<1>9. CASE FirstPass \/ Complete
  BY <1>9 DEF FirstPass, Complete, BareInv
<1>10. CASE UNCHANGED vars
  BY <1>10 DEF vars, BareInv, Bare, Factor
<1> QED
  BY <1>2, <1>3, <1>4, <1>5, <1>6, <1>7, <1>8, <1>9, <1>10 DEF Next, Ended

\* What the assignment makes of an echo; that of an ai has its scale then, that of an ao has none.
LEMMA AssignedEcho ==
  ASSUME FieldTypes, BareInv, EchoInv, pc = "code", rec.smoo => rec.val = arg
  PROVE  /\ type = "ao" => Assigned(Echo).val = arg
         /\ ~disturbed /\ Plain /\ Exact /\ type # "ao" =>
              /\ type \notin Raw => Assigned(Echo).val = before
              /\ type \in Raw => Assigned(Echo).rval = before
<1>1. Echo \in Variants
  BY EchoType
<1>2. arg \in ValuesOf(type) /\ before \in ValuesOf(type)
  BY DEF FieldTypes
<1>6. CASE type = "ao"
  <2>1. type \in Analog
    BY <1>6 DEF Analog
  <2> QED
    BY <1>1, <1>6, <2>1, EchoType, AnalogResult
<1>3. CASE type = "ai"
  <2>1. type \in Analog /\ type \notin Raw /\ arg \in Int /\ before \in Int /\ rec.aoff \in Int /\ Factor \in Nat
    BY <1>2, <1>3, Values, FactorType DEF Analog, Raw
  <2> SUFFICES ASSUME ~disturbed, Plain, Exact PROVE Assigned(Echo).val = before
    BY <1>3, <2>1
  <2>2. get_double(Echo) = arg
    BY <2>1, EchoType
  <2>3. rec.aslo = Factor
    BY <1>3, FactorType DEF ForgottenSlope, Plain
  <2>4. arg = Bare
    BY <2>1 DEF BareInv
  <2>5. arg * Factor + rec.aoff = before
    <3>1. arg * Factor = before - rec.aoff
      BY <2>1, <2>4 DEF Exact
    <3> QED
      BY <2>1, <3>1
  <2>6. Assigned(Echo).val = IF rec.smoo /\ ~rec.udf THEN (rec.val + before) \div 2 ELSE before
    BY <1>1, <1>3, <2>1, <2>2, <2>3, <2>5, AnalogResult
  <2>7. rec.smoo => arg = before
    <3>1. rec.smoo => Factor = 1 /\ rec.aoff = 0
      BY <1>3, FactorType DEF MixedSmoothing, Plain
    <3>2. arg * 1 + 0 = arg
      BY <2>1
    <3> QED
      BY <2>5, <3>1, <3>2
  <2>8. (before + before) \div 2 = before
    BY <2>1
  <2> QED
    BY <2>6, <2>7, <2>8
<1>4. CASE type \in Text
  <2>1. type \notin Analog /\ type \notin Raw
    BY <1>4 DEF Text, LongString, Analog, Raw
  <2>2. Assigned(Echo).val = Cut(arg, BufferSize(type))
    BY <1>1, <1>4, EchoType, TextResult
  <2>3. arg \in Seq(Char) /\ Len(arg) < BufferSize(type) /\ BufferSize(type) \in Nat \ {0}
    BY <1>2, <1>4, Values
  <2>4. Cut(arg, BufferSize(type)) = arg
    BY <2>3, CutText
  <2> QED
    BY <2>1, <2>2, <2>4 DEF EchoInv, Analog
<1>5. CASE type \notin Text /\ type \notin Analog
  <2> SUFFICES ASSUME type # "bo"
               PROVE  /\ type \notin Raw => Assigned(Echo).val = before
                      /\ type \in Raw => Assigned(Echo).rval = before
    BY <1>5 DEF Analog, Plain
  <2>1. type \in {"bi", "longin", "longout", "mbbi", "mbbo"}
    BY <1>5, AllTypes DEF FieldTypes, Text, LongString, Analog
  <2>2. get_long(Echo) = arg /\ get_bool(Echo) = (IF arg # 0 THEN 1 ELSE 0) /\ arg = before
    BY <1>5, EchoType DEF EchoInv
  <2>3. CASE type \in {"longin", "longout"}
    <3>1. arg \in Longs
      BY <1>2, <2>3, Values
    <3> QED
      BY <1>1, <1>5, <2>2, <2>3, <3>1, NumberResult, ToInt32Range DEF Raw
  <2>4. CASE type = "mbbo"
    <3>1. arg \in Enums
      BY <1>2, <2>4, Values
    <3> QED
      BY <1>1, <1>5, <2>2, <2>4, <3>1, NumberResult, ToEnum16Range DEF Raw
  <2>6. CASE type = "mbbi"
    <3>1. arg \in Enums
      BY <1>2, <2>6, Values
    <3>2. arg % (2 ^ Width) = arg
      BY <3>1, EnumFits
    <3> QED
      BY <1>1, <1>5, <2>2, <2>6, <3>2, NumberResult DEF Raw
  <2>5. CASE type = "bi"
    <3>1. arg \in {0, 1}
      BY <1>2, <2>5, Values
    <3> QED
      BY <1>1, <1>5, <2>2, <2>5, <3>1, NumberResult DEF Raw
  <2> QED
    BY <2>1, <2>3, <2>4, <2>5, <2>6
<1> QED
  BY <1>3, <1>4, <1>5, <1>6 DEF Analog

LEMMA EchoStep == FieldTypes /\ ResultInv /\ BareInv /\ EchoInv /\ [Next]_vars => EchoInv'
<1> SUFFICES ASSUME FieldTypes, ResultInv, BareInv, EchoInv, [Next]_vars PROVE EchoInv'
  OBVIOUS
<1>1. ASSUME UNCHANGED <<type, arg, before>>, ~(pc' \in {"done", "idle"} /\ status' = "ok"),
             pc' \notin {"times", "plus"}
      PROVE  EchoInv'
  BY <1>1 DEF EchoInv
<1>2. ASSUME UNCHANGED <<type, arg, before>>,
             rec'.aslo = rec.aslo, rec'.aoff = rec.aoff, rec'.smoo = rec.smoo,
             rec'.states = rec.states, rec'.shft = rec.shft
      PROVE  /\ Plain' = Plain /\ Exact' = Exact
             /\ type' \notin Analog => arg' = before'
  BY <1>2 DEF Plain, MixedSmoothing, ForgottenSlope, Enumerated, Exact, Bare, Factor, EchoInv
<1>3. ASSUME NEW n \in Puts(type), Put(n)
      PROVE  EchoInv'
  <2>1. /\ UNCHANGED <<type, arg, before, pc, status, echoed>> /\ touched' /\ rec'.rval = rec.rval
        /\ rec'.aslo = rec.aslo /\ rec'.aoff = rec.aoff /\ rec'.smoo = rec.smoo
        /\ rec'.states = rec.states /\ rec'.shft = rec.shft /\ (disturbed => disturbed')
    BY <1>3 DEF Put, FieldTypes, FieldsOf
  <2>2. RawValue' = RawValue
    BY <2>1 DEF RawValue, StateOf, Matching, Unknown, ToEnum16
  <2> QED
    BY <1>2, <2>1, <2>2 DEF EchoInv
<1>4. CASE FirstPass
  BY <1>1, <1>4 DEF FirstPass
<1>5. CASE ReadArguments
  <2>1. type' = type /\ (type \notin Analog => arg' = before') /\ pc' = "code"
    BY <1>5, ReadType DEF ReadArguments
  <2> QED
    BY <2>1 DEF EchoInv
<1>10. CASE TakeOffset \/ TakeSlope
  <2>1. type' = type /\ type \in Analog /\ pc' \in {"slope", "read"}
    BY <1>10, ScaleType DEF TakeOffset, TakeSlope
  <2> QED
    BY <2>1 DEF EchoInv
<1>6. CASE Raise
  BY <1>1, <1>6 DEF Raise, Fail
<1>7. ASSUME NEW v \in Results \cup {Echo}, Return(v)
      PROVE  EchoInv'
  <2>1. UNCHANGED <<type, arg, before, disturbed>> /\ pc = "code" /\ pc' \in {"times", "done"}
    BY <1>7 DEF Return
  <2>2. CASE v.type \in Takes(type) /\ echoed'
    <3>1. v = Echo /\ (rec.smoo => rec.val = arg)
      BY <1>7, <2>2 DEF Return
    <3>2. /\ v \in Variants /\ rec' = Assigned(Echo)
          /\ pc' = (IF type = "ao" THEN "times" ELSE "done")
      BY <1>7, <2>2, <3>1, ReturnType DEF Return
    <3>3. /\ rec'.aslo = rec.aslo /\ rec'.aoff = rec.aoff /\ rec'.smoo = rec.smoo
          /\ rec'.states = rec.states /\ rec'.shft = rec.shft
      BY <3>1, <3>2, AssignedScale
    <3>4. Plain' = Plain /\ Exact' = Exact /\ (type' \notin Analog => arg' = before')
      BY <1>2, <2>1, <3>3
    <3>5. CASE type = "ao"
      BY <2>1, <3>1, <3>2, <3>4, <3>5, AssignedEcho DEF EchoInv
    <3>6. CASE type # "ao"
      <4>1. ASSUME ~disturbed, Plain, Exact
            PROVE  /\ type \notin Raw => rec'.val = before
                   /\ type \in Raw => rec'.rval = before
        BY <2>1, <3>1, <3>2, <3>6, <4>1, AssignedEcho
      <4>2. ASSUME ~disturbed, Plain, Exact, type \in Raw
            PROVE  RawValue' = before'
        <5>1. CASE type = "bi"
          BY <2>1, <4>1, <4>2, <5>1 DEF RawValue
        <5>2. CASE type = "mbbi"
          <6>1. rec.states = <<>> /\ rec.shft = 1
            BY <4>2, <5>2 DEF Plain, Enumerated
          <6>2. before \in Enums /\ before \in Int
            BY <5>2, Values, ToEnum16Range DEF FieldTypes
          <6>3. before \div 1 = before /\ ToEnum16(before) = before
            BY <6>2, ToEnum16Range
          <6>4. RawValue' = ToEnum16(rec'.rval \div 1)
            BY <2>1, <3>3, <5>2, <6>1 DEF RawValue, StateOf, ToEnum16
          <6> QED
            BY <2>1, <4>1, <4>2, <6>3, <6>4
        <5> QED
          BY <4>2, <5>1, <5>2 DEF Raw
      <4> QED
        BY <2>1, <3>2, <3>4, <3>6, <4>1, <4>2 DEF EchoInv, Raw
    <3> QED
      BY <3>5, <3>6
  <2>3. CASE v.type \in Takes(type) /\ ~echoed'
    BY <2>1, <2>3 DEF EchoInv
  <2>4. CASE v.type \notin Takes(type)
    BY <1>1, <1>7, <2>1, <2>4 DEF Return, Fail
  <2> QED
    BY <2>2, <2>3, <2>4
<1>11. CASE GiveSlope
  <2>1. rec'.val = rec.val * Factor /\ rec'.aslo = rec.aslo /\ type \in Analog
    BY <1>11, ScaleType
  <2>2. UNCHANGED <<type, arg, echoed, touched>> /\ pc = "times" /\ pc' = "plus"
    BY <1>11 DEF GiveSlope
  <2>3. Factor' = Factor
    BY <2>1 DEF Factor
  <2> QED
    BY <2>1, <2>2, <2>3 DEF EchoInv
<1>12. CASE GiveOffset
  <2>1. /\ rec'.val = rec.val + rec.aoff /\ type \in Analog
        /\ rec'.aslo = rec.aslo /\ rec'.aoff = rec.aoff /\ rec'.smoo = rec.smoo
    BY <1>12, ScaleType
  <2>2. /\ UNCHANGED <<type, arg, before, echoed, touched, disturbed>> /\ pc = "plus" /\ pc' = "done"
        /\ type = "ao"
    BY <1>12 DEF GiveOffset, FieldTypes
  <2>3. Exact' = Exact
    BY <2>1, <2>2 DEF Exact, Bare, Factor
  <2>4. before \in Int /\ rec.aoff \in Int
    BY <2>1, Values, FactorType DEF FieldTypes, Analog
  <2>5. echoed /\ ~touched /\ ~disturbed /\ Exact => rec'.val = before
    <3> SUFFICES ASSUME echoed, ~touched, ~disturbed, Exact PROVE rec'.val = before
      OBVIOUS
    <3>1. rec.val = arg * Factor /\ arg = Bare /\ Bare * Factor = before - rec.aoff
      BY <2>1, <2>2 DEF EchoInv, BareInv, Exact
    <3>2. rec'.val = before - rec.aoff + rec.aoff
      BY <2>1, <3>1
    <3> QED
      BY <2>4, <3>2
  <2>6. type' \notin Raw /\ type' \in Analog
    BY <2>1, <2>2 DEF Raw
  <2> QED
    BY <2>2, <2>3, <2>5, <2>6 DEF EchoInv
<1>8. CASE Complete
  <2>1. UNCHANGED <<type, arg, before, status, echoed, disturbed>> /\ pc = "done" /\ pc' = "idle"
    BY <1>8 DEF Complete
  <2>2. CASE status = "ok" /\ type \in Raw
    <3>1. /\ rec'.val = RawValue
          /\ rec'.aslo = rec.aslo /\ rec'.aoff = rec.aoff /\ rec'.smoo = rec.smoo
          /\ rec'.states = rec.states /\ rec'.shft = rec.shft
      BY <1>8, <2>2, CompleteType
    <3> QED
      BY <1>2, <2>1, <2>2, <3>1 DEF EchoInv
  <2>3. CASE status = "ok" /\ type \notin Raw
    <3>1. UNCHANGED <<rec, touched>>
      BY <1>8, <2>3 DEF Complete, Raw
    <3> QED
      BY <1>2, <2>1, <2>3, <3>1 DEF EchoInv
  <2>4. CASE status # "ok"
    BY <1>1, <2>1, <2>4
  <2> QED
    BY <2>2, <2>3, <2>4
<1>9. CASE UNCHANGED vars
  BY <1>9
     DEF vars, EchoInv, Plain, MixedSmoothing, ForgottenSlope, Enumerated, Exact, Bare, Factor, RawValue, StateOf,
         Matching, Unknown, ToEnum16
<1> QED
  BY <1>3, <1>4, <1>5, <1>6, <1>7, <1>8, <1>9, <1>10, <1>11, <1>12 DEF Next, Ended

LEMMA NextInv == IInv /\ [Next]_vars => IInv'
BY FieldTypesStep, OwnStep, ResultStep, BareStep, EchoStep DEF IInv

-----------------------------------------------------------------------------
(* The theorems.                                                             *)

\* The inductive invariant: what a result becomes on its way to VAL (processRecordCb and the second
\* pass of each pydev_*.cpp).
THEOREM Invariance == Spec => []IInv
<1>1. Init => IInv
  BY InitInv
<1>2. IInv /\ [Next]_vars => IInv'
  BY NextInv
<1> QED
  BY <1>1, <1>2, PTL DEF Spec

\* VAL, the argument and what a client has put are values of the record's type, whatever the code
\* returns: integers are cut to their width, enums to theirs and texts to their buffer
\* (pydev_longin.cpp:107, pydev_mbbo.cpp:133, pydev_lsi.cpp:102-105).
THEOREM TypeCorrect == Spec => []TypeOK
<1>1. FieldTypes => TypeOK
  BY DEF FieldTypes, FieldsOf, StateLists, TypeOK
<1> QED
  BY <1>1, Invariance, PTL DEF IInv

\* A pass that succeeds shows its result in VAL, for every value that the getters of Variant take,
\* as far as VAL can hold it: the number, the first state of an mbbi that has it, the text.  A bo,
\* an ai that smooths and an ai without a slope are the exceptions (pydev_longin.cpp:107,
\* pydev_mbbi.cpp:133, 147-167, pydev_ao.cpp:109-111, pydev_ai.cpp:111, pydev_lsi.cpp:102-105).
THEOREM ResultAlwaysShown == Spec => []ResultShown
<1>1. ResultInv => ResultShown
  BY DEF ResultInv, Shown, ResultShown, ShowsResult, AtRest
<1> QED
  BY <1>1, Invariance, PTL DEF IInv

\* A pass that fails, by an exception of the code or of the conversion, changes VAL no further than
\* the scale that ai and ao have taken off it (pydev_longin.cpp:111-117, pydev_ai.cpp:86-87).
THEOREM FailureAlwaysKeepsValue == Spec => []FailureKeepsValue
<1>1. OwnInv => FailureKeepsValue
  BY DEF OwnInv, FailureKeepsValue, AtRest
<1> QED
  BY <1>1, Invariance, PTL DEF IInv

\* Code that returns its VAL leaves the record's value as it was, if nobody puts to VAL between the
\* accesses before and after the evaluation, and the division by the slope has no remainder in the
\* units of the model, where a double would round; with the exceptions that EchoKeepsValue names
\* (pydev_ai.cpp:86-87, 111-115, pydev_ao.cpp:86-111).
THEOREM EchoAlwaysKeepsValue == Spec => [](Exact => EchoKeepsValue)
<1>1. EchoInv => (Exact => EchoKeepsValue)
  BY DEF EchoInv, EchoKeepsValue, Plain, AtRest
<1> QED
  BY <1>1, Invariance, PTL DEF IInv

=============================================================================

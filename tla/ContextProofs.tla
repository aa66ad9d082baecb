--------------------------- MODULE ContextProofs ---------------------------
(***************************************************************************)
(* Theorems about two parts of a record's context: the scan list of its    *)
(* I/O Intr parameter (IoIntr, pydev_longin.cpp:24-30), for any records    *)
(* and device supports, for both ways of scanning and any number of        *)
(* pushes; and what each pass does to the text of the code before it is    *)
(* compiled (Macros), for any characters, fields and texts.                *)
(***************************************************************************)
EXTENDS IoIntr, Macros, SequenceTheorems, WellFoundedInduction, TLAPS

-----------------------------------------------------------------------------
(* IoIntr: ctx->scan.                                                        *)

\* Before EPICS runs nothing has been read; a value pushed by then is marked as missed.
StartInv ==
  /\ ~Running => /\ toScan = {}
                 /\ \A r \in Records : st[r] = "idle" /\ got[r] = 0 /\ val[r] = 0
                 /\ value # 0 => \A r \in Records : missed[r]
  /\ value = 0 => \A r \in Records : got[r] = 0 /\ val[r] = 0

\* A pass that has read and that no dropped scan has overtaken holds the current value.
ReadInv ==
  \A r \in Records :
    Running /\ st[r] = "read" /\ r \notin toScan /\ Scanned(r) /\ ~missed[r] => got[r] = value

ScanIInv == TypeOK /\ StartInv /\ ReadInv /\ FreshAtRest

LEMMA ScanInitInv == Init => ScanIInv
BY IoIntrAssumption DEF Init, ScanIInv, TypeOK, StartInv, ReadInv, FreshAtRest, Running, Scanned

LEMMA ScanStepInv == ScanIInv /\ [Next]_vars => ScanIInv'
<1> SUFFICES ASSUME ScanIInv, [Next]_vars PROVE ScanIInv'
  OBVIOUS
<1> USE IoIntrAssumption DEF ScanIInv, TypeOK, Running, Scanned, regVars
<1>1. ASSUME Push PROVE ScanIInv'
  <2> USE <1>1 DEF Push
  <2>1. TypeOK'
    OBVIOUS
  <2>2. StartInv'
    BY DEF StartInv, ReadInv
  <2>3. ReadInv'
    BY DEF StartInv, ReadInv
  <2>4. FreshAtRest'
    BY DEF StartInv, ReadInv, FreshAtRest
  <2> QED
    BY <2>1, <2>2, <2>3, <2>4
<1>2. ASSUME NEW r \in Records, InitRecord(r) PROVE ScanIInv'
  <2> USE <1>2 DEF InitRecord
  <2>1. TypeOK'
    OBVIOUS
  <2>2. StartInv'
    BY DEF StartInv, ReadInv
  <2>3. ReadInv'
    BY DEF StartInv, ReadInv
  <2>4. FreshAtRest'
    BY DEF StartInv, ReadInv, FreshAtRest
  <2> QED
    BY <2>1, <2>2, <2>3, <2>4
<1>3. ASSUME NEW r \in Records, ScanRecord(r) PROVE ScanIInv'
  <2> USE <1>3 DEF ScanRecord
  <2>1. TypeOK'
    OBVIOUS
  <2>2. StartInv'
    BY DEF StartInv, ReadInv
  <2>3. ReadInv'
    BY DEF StartInv, ReadInv
  <2>4. FreshAtRest'
    BY DEF StartInv, ReadInv, FreshAtRest
  <2> QED
    BY <2>1, <2>2, <2>3, <2>4
<1>4. ASSUME NEW r \in Records, Process(r) PROVE ScanIInv'
  <2> USE <1>4 DEF Process
  <2>1. TypeOK'
    OBVIOUS
  <2>2. StartInv'
    BY DEF StartInv, ReadInv
  <2>3. ReadInv'
    BY DEF StartInv, ReadInv
  <2>4. FreshAtRest'
    BY DEF StartInv, ReadInv, FreshAtRest
  <2> QED
    BY <2>1, <2>2, <2>3, <2>4
<1>5. ASSUME NEW r \in Records, Read(r) PROVE ScanIInv'
  <2> USE <1>5 DEF Read
  <2>1. TypeOK'
    OBVIOUS
  <2>2. StartInv'
    BY DEF StartInv, ReadInv
  <2>3. ReadInv'
    BY DEF StartInv, ReadInv
  <2>4. FreshAtRest'
    BY DEF StartInv, ReadInv, FreshAtRest
  <2> QED
    BY <2>1, <2>2, <2>3, <2>4
<1>6. ASSUME NEW r \in Records, Complete(r) PROVE ScanIInv'
  <2> USE <1>6 DEF Complete
  <2>1. TypeOK'
    OBVIOUS
  <2>2. StartInv'
    BY DEF StartInv, ReadInv
  <2>3. ReadInv'
    BY DEF StartInv, ReadInv
  <2>4. FreshAtRest'
    BY DEF StartInv, ReadInv, FreshAtRest
  <2> QED
    BY <2>1, <2>2, <2>3, <2>4
<1>7. CASE UNCHANGED vars
  BY <1>7 DEF vars, StartInv, ReadInv, FreshAtRest
<1> QED
  BY <1>1, <1>2, <1>3, <1>4, <1>5, <1>6, <1>7 DEF Next, RecordStep

\* The strengthened invariant holds in every reachable state.
THEOREM ScanInvariance == Spec => []ScanIInv
BY ScanInitInv, ScanStepInv, PTL DEF Spec

\* Every variable keeps its type, and the callback is that of a registered type (registerIoIntr).
THEOREM ScanTypeCorrect == Spec => []TypeOK
<1>1. ScanIInv => TypeOK
  BY DEF ScanIInv
<1> QED
  BY ScanInvariance, <1>1, PTL

\* A record that the parameter's callback reaches shows, at rest, the value that was pushed
\* last, unless the scan for it was dropped because the record was in a pass that had read
\* already (pywrapper.cpp:105-123, pydev_longin.cpp:33-46).
THEOREM RestIsFresh == Spec => []FreshAtRest
<1>1. ScanIInv => FreshAtRest
  BY DEF ScanIInv
<1> QED
  BY ScanInvariance, <1>1, PTL

-----------------------------------------------------------------------------
(* Macros: the text of the code.  Induction over what is left of it.         *)

LEMMA Strong ==
  ASSUME NEW T \in SUBSET Nat, \A n \in Nat : (\A m \in Nat : m < n => m \in T) => n \in T
  PROVE  Nat \subseteq T
<1> SUFFICES ASSUME Nat \ T # {} PROVE FALSE
  OBVIOUS
<1>1. PICK n \in Nat \ T : \A m \in Nat \ T : <<m, n>> \notin OpToRel(<, Nat)
  BY Zenon, NatLessThanWellFounded, WFMin
<1>2. \A m \in Nat : m < n => m \in T
  BY <1>1 DEF OpToRel
<1> QED
  BY <1>1, <1>2

-----------------------------------------------------------------------------
(* Characters, fields and sequences of characters.                           *)

\* No letter or digit comes first.
Edge(y) == y = <<>> \/ y[1] \notin Alnum

LEMMA CharFacts ==
  /\ Upper \subseteq Alpha /\ Lower \subseteq Alpha /\ Alpha \subseteq Alnum /\ Alnum \subseteq Chars
  /\ "%" \in Chars /\ "%" \notin Alnum
  /\ Upper \cap Lower = {}
BY MacrosAssumption DEF Alpha, Alnum, Chars

LEMMA FieldFacts ==
  ASSUME NEW f \in Fields
  PROVE  /\ f \in Seq(Upper) /\ f \in Seq(Alnum) /\ f \in Text
         /\ f # <<>> /\ Len(f) \in Nat \ {0} /\ f[1] \in Upper
         /\ Name(f) \in Seq(Alnum) /\ Name(f) \in Text
         /\ Name(f) # <<>> /\ Len(Name(f)) \in Nat \ {0} /\ Name(f)[1] \in Lower
         /\ Enclosed(f) \in Text /\ Len(Enclosed(f)) = Len(f) + 2 /\ Enclosed(f)[1] = "%"
<1>1. f \in Seq(Upper) /\ f # <<>>
  BY MacrosAssumption
<1>2. f \in Seq(Alnum) /\ f \in Text
  BY <1>1, CharFacts, SeqMonotonic DEF Text
<1>3. Len(f) \in Nat \ {0} /\ f[1] \in Upper
  BY <1>1, EmptySeq, LenProperties, ElementOfSeq
<1>4. Prefix \in Seq(Lower) /\ Prefix # <<>>
  BY MacrosAssumption
<1>5. Prefix \in Seq(Alnum) /\ Prefix \in Text
  BY <1>4, CharFacts, SeqMonotonic DEF Text
<1>6. Len(Prefix) \in Nat \ {0} /\ Prefix[1] \in Lower
  BY <1>4, EmptySeq, LenProperties, ElementOfSeq
<1>7. Name(f) \in Seq(Alnum) /\ Name(f) \in Text
  BY <1>2, <1>5, ConcatProperties DEF Name, Text
<1>8. Len(Name(f)) = Len(Prefix) + Len(f) /\ Name(f)[1] = Prefix[1]
  BY <1>2, <1>3, <1>5, <1>6, ConcatProperties DEF Name, Text
<1>9. Name(f) # <<>>
  BY <1>8, <1>6, <1>3, EmptySeq
<1> DEFINE percent == <<"%">>
<1>10. percent \in Text /\ Len(percent) = 1 /\ percent[1] = "%"
  BY CharFacts DEF Text
<1> HIDE DEF percent
<1> DEFINE opened == percent \o f
           closed == opened \o percent
<1>11. opened \in Text /\ Len(opened) = Len(f) + 1 /\ opened[1] = "%"
  <2>1. /\ opened \in Seq(Chars) /\ Len(opened) = 1 + Len(f)
        /\ \A i \in 1 .. 1 + Len(f) : opened[i] = IF i <= 1 THEN percent[i] ELSE f[i - 1]
    <3>1. percent \in Seq(Chars) /\ f \in Seq(Chars) /\ Len(percent) = 1
      BY <1>2, <1>10 DEF Text
    <3>2. /\ opened \in Seq(Chars) /\ Len(opened) = Len(percent) + Len(f)
          /\ \A i \in 1 .. Len(percent) + Len(f) :
               opened[i] = IF i <= Len(percent) THEN percent[i] ELSE f[i - Len(percent)]
      BY Zenon, <3>1, ConcatProperties
    <3> QED
      BY <3>1, <3>2
  <2>2. 1 \in 1 .. 1 + Len(f)
    BY <1>3
  <2> QED
    BY <1>3, <1>10, <2>1, <2>2 DEF Text
<1> HIDE DEF opened
<1>12. closed \in Text /\ Len(closed) = Len(f) + 2 /\ closed[1] = "%"
  <2>1. /\ closed \in Seq(Chars) /\ Len(closed) = Len(opened) + 1
        /\ \A i \in 1 .. Len(opened) + 1 : closed[i] = IF i <= Len(opened) THEN opened[i] ELSE percent[i - Len(opened)]
    <3>1. opened \in Seq(Chars) /\ percent \in Seq(Chars) /\ Len(percent) = 1
      BY <1>10, <1>11 DEF Text
    <3>2. /\ closed \in Seq(Chars) /\ Len(closed) = Len(opened) + Len(percent)
          /\ \A i \in 1 .. Len(opened) + Len(percent) :
               closed[i] = IF i <= Len(opened) THEN opened[i] ELSE percent[i - Len(opened)]
      BY Zenon, <3>1, ConcatProperties
    <3> QED
      BY <3>1, <3>2
  <2>2. Len(opened) \in Nat \ {0} /\ 1 \in 1 .. Len(opened) + 1 /\ 1 <= Len(opened)
    BY <1>3, <1>11
  <2> QED
    BY <1>3, <1>11, <2>1, <2>2 DEF Text
<1> HIDE DEF closed
<1>13. Enclosed(f) = closed
  BY DEF Enclosed, percent, opened, closed
<1> QED
  BY <1>1, <1>2, <1>3, <1>6, <1>7, <1>8, <1>9, <1>12, <1>13

\* A sequence that is not empty: its first element and the others.
LEMMA ConsIn ==
  ASSUME NEW S
  PROVE
  /\ \A c \in S, y \in Seq(S) :
       /\ <<c>> \o y \in Seq(S) /\ <<c>> \o y # <<>> /\ Len(<<c>> \o y) = Len(y) + 1
       /\ Head(<<c>> \o y) = c /\ Tail(<<c>> \o y) = y /\ (<<c>> \o y)[1] = c
  /\ \A v \in Seq(S) : v # <<>> =>
       /\ Head(v) \in S /\ Tail(v) \in Seq(S) /\ v = <<Head(v)>> \o Tail(v)
       /\ Len(v) = Len(Tail(v)) + 1 /\ v[1] = Head(v)
<1>1. ASSUME NEW c \in S, NEW y \in Seq(S)
      PROVE  /\ <<c>> \o y \in Seq(S) /\ <<c>> \o y # <<>> /\ Len(<<c>> \o y) = Len(y) + 1
             /\ Head(<<c>> \o y) = c /\ Tail(<<c>> \o y) = y /\ (<<c>> \o y)[1] = c
  <2>1. <<c>> \in Seq(S) /\ Len(<<c>>) = 1 /\ <<c>>[1] = c
    OBVIOUS
  <2>2. Len(y) \in Nat /\ y \in Seq(S)
    BY LenProperties
  <2>3. /\ <<c>> \o y \in Seq(S) /\ Len(<<c>> \o y) = Len(y) + 1
        /\ \A i \in 1 .. Len(y) + 1 : (<<c>> \o y)[i] = IF i <= 1 THEN c ELSE y[i - 1]
    BY <2>1, <2>2, ConcatProperties
  <2> DEFINE v == <<c>> \o y
  <2> HIDE DEF v
  <2>4. v \in Seq(S) /\ Len(v) = Len(y) + 1 /\ \A i \in 1 .. Len(y) + 1 : v[i] = IF i <= 1 THEN c ELSE y[i - 1]
    BY <2>3 DEF v
  <2>5. v # <<>>
    BY <2>2, <2>4, EmptySeq
  <2>6. Head(v) = c /\ v[1] = c
    BY <2>2, <2>4, <2>5
  <2>7. Tail(v) \in Seq(S) /\ Len(Tail(v)) = Len(y) /\ \A i \in 1 .. Len(y) : Tail(v)[i] = v[i + 1]
    BY <2>2, <2>4, <2>5, HeadTailProperties
  <2>8. \A i \in 1 .. Len(y) : Tail(v)[i] = y[i]
    BY <2>2, <2>4, <2>7
  <2>9. Tail(v) = y
    BY <2>2, <2>7, <2>8, SeqEqual
  <2> QED
    BY <2>3, <2>5, <2>6, <2>9 DEF v
<1>2. ASSUME NEW v \in Seq(S), v # <<>>
      PROVE  /\ Head(v) \in S /\ Tail(v) \in Seq(S) /\ v = <<Head(v)>> \o Tail(v)
             /\ Len(v) = Len(Tail(v)) + 1 /\ v[1] = Head(v)
  <2>1. v \in Seq(S) /\ Len(v) \in Nat \ {0}
    BY <1>2, EmptySeq
  <2>2. Head(v) \in S /\ Tail(v) \in Seq(S) /\ Len(Tail(v)) = Len(v) - 1
        /\ \A i \in 1 .. Len(Tail(v)) : Tail(v)[i] = v[i + 1]
    BY <1>2, <2>1, HeadTailProperties
  <2>3. Head(v) = v[1]
    BY <2>1
  <2> DEFINE u == <<Head(v)>> \o Tail(v)
  <2>4. <<Head(v)>> \in Seq(S) /\ Len(<<Head(v)>>) = 1 /\ <<Head(v)>>[1] = Head(v)
    BY <2>2
  <2>5. u \in Seq(S) /\ Len(u) = Len(v)
        /\ \A i \in 1 .. Len(v) : u[i] = IF i <= 1 THEN Head(v) ELSE Tail(v)[i - 1]
    BY <2>1, <2>2, <2>4, ConcatProperties
  <2> HIDE DEF u
  <2>6. \A i \in 1 .. Len(v) : u[i] = v[i]
    BY <2>1, <2>2, <2>3, <2>5
  <2>7. u = v
    BY <2>1, <2>5, <2>6, SeqEqual
  <2> QED
    BY <2>1, <2>2, <2>3, <2>7 DEF u
<1> QED
  BY <1>1, <1>2

\* A text that is not empty: its first character and the others.
LEMMA Cons ==
  /\ \A c \in Chars, y \in Text :
       /\ <<c>> \o y \in Text /\ <<c>> \o y # <<>> /\ Len(<<c>> \o y) = Len(y) + 1
       /\ Head(<<c>> \o y) = c /\ Tail(<<c>> \o y) = y /\ (<<c>> \o y)[1] = c
  /\ \A v \in Text : v # <<>> =>
       /\ Head(v) \in Chars /\ Tail(v) \in Text /\ v = <<Head(v)>> \o Tail(v)
       /\ Len(v) = Len(Tail(v)) + 1 /\ v[1] = Head(v)
BY ConsIn DEF Text

\* What a text starts with, and what comes after it.
LEMMA Parts ==
  ASSUME NEW w \in Text
  PROVE  /\ \A y \in Text : Starts(w \o y, w) /\ After(w \o y, w) = y
                            /\ w \o y \in Text /\ Len(w \o y) = Len(w) + Len(y)
         /\ \A v \in Text : Starts(v, w) =>
              v = w \o After(v, w) /\ After(v, w) \in Text /\ Len(v) = Len(w) + Len(After(v, w))
<1>0. w \in Seq(Chars) /\ Len(w) \in Nat
  BY LenProperties DEF Text
<1>1. ASSUME NEW y \in Text
      PROVE  Starts(w \o y, w) /\ After(w \o y, w) = y /\ w \o y \in Text /\ Len(w \o y) = Len(w) + Len(y)
  <2>1. y \in Seq(Chars) /\ Len(y) \in Nat
    BY LenProperties DEF Text
  <2> DEFINE v == w \o y
  <2>2. v \in Seq(Chars) /\ Len(v) = Len(w) + Len(y)
        /\ \A i \in 1 .. Len(w) + Len(y) : v[i] = IF i <= Len(w) THEN w[i] ELSE y[i - Len(w)]
    BY <1>0, <2>1, ConcatProperties
  <2> HIDE DEF v
  <2>3. \A i \in 1 .. Len(v) : v[i] \in Chars
    BY <2>2, ElementOfSeq
  <2> DEFINE a == SubSeq(v, 1, Len(w))
             b == SubSeq(v, Len(w) + 1, Len(v))
  <2>4. a \in Seq(Chars) /\ Len(a) = Len(w) /\ \A i \in 1 .. Len(w) : a[i] = v[i]
    BY <1>0, <2>1, <2>2, <2>3, SubSeqProperties
  <2>5. b \in Seq(Chars) /\ Len(b) = Len(y) /\ \A i \in 1 .. Len(y) : b[i] = v[Len(w) + i]
    BY <1>0, <2>1, <2>2, <2>3, SubSeqProperties
  <2> HIDE DEF a, b
  <2>6. \A i \in 1 .. Len(w) : a[i] = w[i]
    BY <1>0, <2>1, <2>2, <2>4
  <2>7. \A i \in 1 .. Len(y) : b[i] = y[i]
    BY <1>0, <2>1, <2>2, <2>5
  <2>8. a = w /\ b = y
    BY <1>0, <2>1, <2>4, <2>5, <2>6, <2>7, SeqEqual
  <2> QED
    BY <1>0, <2>1, <2>2, <2>8 DEF a, b, v, Starts, After, Text
<1>2. ASSUME NEW v \in Text, Starts(v, w)
      PROVE  v = w \o After(v, w) /\ After(v, w) \in Text /\ Len(v) = Len(w) + Len(After(v, w))
  <2>1. v \in Seq(Chars) /\ Len(v) \in Nat /\ Len(w) <= Len(v) /\ SubSeq(v, 1, Len(w)) = w
    BY <1>2, LenProperties DEF Text, Starts
  <2>2. \A i \in 1 .. Len(v) : v[i] \in Chars
    BY <2>1, ElementOfSeq
  <2>3. After(v, w) \in Seq(Chars) /\ Len(After(v, w)) = Len(v) - Len(w)
    BY <1>0, <2>1, <2>2, SubSeqProperties DEF After
  <2>4. SubSeq(v, 1, Len(w)) \o SubSeq(v, Len(w) + 1, Len(v)) = SubSeq(v, 1, Len(v))
    <3>1. 1 \in 1 .. Len(v) + 1 /\ Len(w) \in 1 - 1 .. Len(v) /\ Len(v) \in Len(w) .. Len(v)
      BY <1>0, <2>1
    <3> QED
      BY <2>1, <3>1, ConcatAdjacentSubSeq
  <2>5. SubSeq(v, 1, Len(v)) = v
    BY <2>1, SubSeqFull
  <2>6. v = w \o After(v, w)
    BY <2>1, <2>4, <2>5 DEF After
  <2>7. Len(v) = Len(w) + Len(After(v, w))
    BY <1>0, <2>1, <2>3
  <2> QED
    BY <2>3, <2>6, <2>7 DEF Text
<1> QED
  BY <1>1, <1>2

LEMMA Assoc ==
  ASSUME NEW x \in Text, NEW y \in Text, NEW z \in Text
  PROVE  (x \o y) \o z = x \o (y \o z)
BY ConcatAssociative DEF Text

LEMMA EnclosedFirst ==
  ASSUME NEW f \in Fields, NEW y \in Text
  PROVE  /\ Enclosed(f) \o y = <<"%">> \o (f \o (<<"%">> \o y))
         /\ (Enclosed(f) \o y)[1] = "%"
<1>1. "%" \in Chars /\ <<"%">> \in Text /\ f \in Text
  BY CharFacts, FieldFacts DEF Text
<1> DEFINE percent == <<"%">>
<1>2. percent \in Text /\ percent \o f \in Text /\ percent \o y \in Text
  BY <1>1, Parts
<1>3. Enclosed(f) = (percent \o f) \o percent
  BY DEF Enclosed
<1> HIDE DEF percent
<1>4. Enclosed(f) \o y = percent \o (f \o (percent \o y))
  <2>1. ((percent \o f) \o percent) \o y = (percent \o f) \o (percent \o y)
    BY Zenon, <1>2, Assoc
  <2>2. (percent \o f) \o (percent \o y) = percent \o (f \o (percent \o y))
    <3> DEFINE z == percent \o y
    <3>1. percent \in Text /\ f \in Text /\ z \in Text
      BY <1>1, <1>2
    <3> HIDE DEF z
    <3>2. (percent \o f) \o z = percent \o (f \o z)
      BY Zenon, <3>1, Assoc
    <3> QED
      BY <3>2 DEF z
  <2> QED
    BY <1>3, <2>1, <2>2
<1>5. f \o (percent \o y) \in Text
  BY <1>1, <1>2, Parts
<1>6. (percent \o (f \o (percent \o y)))[1] = "%"
  BY <1>1, <1>5, Cons DEF percent
<1> QED
  BY <1>4, <1>6 DEF percent

\* What an empty word, or a word before an edge, tells of the texts that begin with it.
LEMMA WordFirst ==
  ASSUME NEW f \in Fields, NEW y \in Text
  PROVE  f \o y \in Text /\ f \o y # <<>> /\ (f \o y)[1] = f[1] /\ f[1] \in Upper /\ f[1] # "%"
<1>1. f \in Text /\ Len(f) \in Nat \ {0} /\ f[1] \in Upper
  BY FieldFacts
<1>2. Len(y) \in Nat
  BY LenProperties DEF Text
<1>3. f \o y \in Text /\ Len(f \o y) = Len(f) + Len(y)
  BY <1>1, Parts
<1>4. \A i \in 1 .. Len(f) + Len(y) : (f \o y)[i] = IF i <= Len(f) THEN f[i] ELSE y[i - Len(f)]
  BY <1>1, ConcatProperties DEF Text
<1>5. (f \o y)[1] = f[1]
  BY <1>1, <1>2, <1>4
<1>6. f \o y # <<>>
  BY <1>1, <1>2, <1>3, EmptySeq
<1> QED
  BY <1>1, <1>3, <1>5, <1>6, CharFacts

\* A text has one word at its start.
LEMMA OneWord ==
  ASSUME NEW f \in Seq(Alnum), NEW g \in Seq(Alnum), NEW x \in Text, NEW y \in Text,
         f \o x = g \o y, Edge(x), Edge(y)
  PROVE  f = g /\ x = y
<1>1. f \in Text /\ g \in Text
  BY CharFacts, SeqMonotonic DEF Text
<1>2. Len(f) \in Nat /\ Len(g) \in Nat /\ Len(x) \in Nat /\ Len(y) \in Nat
  BY <1>1, LenProperties DEF Text
<1> DEFINE v == f \o x
<1>3. v \in Text /\ Len(v) = Len(f) + Len(x)
      /\ \A i \in 1 .. Len(f) + Len(x) : v[i] = IF i <= Len(f) THEN f[i] ELSE x[i - Len(f)]
  BY <1>1, ConcatProperties DEF Text
<1>4. Len(v) = Len(g) + Len(y)
      /\ \A i \in 1 .. Len(g) + Len(y) : v[i] = IF i <= Len(g) THEN g[i] ELSE y[i - Len(g)]
  BY <1>1, ConcatProperties DEF Text
<1> HIDE DEF v
<1>5. ~(Len(f) < Len(g))
  <2> SUFFICES ASSUME Len(f) < Len(g) PROVE FALSE
    OBVIOUS
  <2>1. v[Len(f) + 1] = g[Len(f) + 1] /\ v[Len(f) + 1] = x[1] /\ Len(x) # 0
    BY <1>2, <1>3, <1>4
  <2>2. g[Len(f) + 1] \in Alnum
    BY <1>2, ElementOfSeq
  <2>3. x # <<>>
    BY <2>1, EmptySeq
  <2> QED
    BY <2>1, <2>2, <2>3 DEF Edge
<1>6. ~(Len(g) < Len(f))
  <2> SUFFICES ASSUME Len(g) < Len(f) PROVE FALSE
    OBVIOUS
  <2>1. v[Len(g) + 1] = f[Len(g) + 1] /\ v[Len(g) + 1] = y[1] /\ Len(y) # 0
    BY <1>2, <1>3, <1>4
  <2>2. f[Len(g) + 1] \in Alnum
    BY <1>2, ElementOfSeq
  <2>3. y # <<>>
    BY <2>1, EmptySeq
  <2> QED
    BY <2>1, <2>2, <2>3 DEF Edge
<1>7. Len(f) = Len(g) /\ \A i \in 1 .. Len(f) : f[i] = g[i]
  BY <1>2, <1>3, <1>4, <1>5, <1>6
<1>8. f = g
  BY <1>7, SeqEqual
<1>9. After(f \o x, f) = x /\ After(g \o y, g) = y
  BY <1>1, Parts
<1>10. x = y
  BY <1>8, <1>9
<1> QED
  BY <1>8, <1>10

LEMMA OneEnclosed ==
  ASSUME NEW f \in Fields, NEW g \in Fields, NEW x \in Text, NEW y \in Text,
         Enclosed(f) \o x = Enclosed(g) \o y
  PROVE  f = g /\ x = y
<1>1. "%" \in Chars /\ f \in Text /\ g \in Text /\ f \in Seq(Alnum) /\ g \in Seq(Alnum)
  BY CharFacts, FieldFacts
<1> DEFINE u == <<"%">> \o x
           v == <<"%">> \o y
<1>2. u \in Text /\ v \in Text /\ Edge(u) /\ Edge(v) /\ Tail(u) = x /\ Tail(v) = y
  BY <1>1, Cons, CharFacts DEF Edge
<1>3. Enclosed(f) \o x = <<"%">> \o (f \o u) /\ Enclosed(g) \o y = <<"%">> \o (g \o v)
  BY EnclosedFirst
<1> HIDE DEF u, v
<1>4. f \o u \in Text /\ g \o v \in Text
  BY <1>1, <1>2, Parts
<1> DEFINE a == f \o u
           b == g \o v
<1>5. a \in Text /\ b \in Text /\ <<"%">> \o a = <<"%">> \o b
  BY <1>3, <1>4
<1> HIDE DEF a, b
<1>6. Tail(<<"%">> \o a) = a /\ Tail(<<"%">> \o b) = b
  BY <1>1, <1>5, Cons
<1>7. a = b
  BY <1>5, <1>6
<1>8. f \o u = g \o v
  BY <1>7 DEF a, b
<1>9. f \in Seq(Alnum) /\ g \in Seq(Alnum) /\ u \in Text /\ v \in Text /\ Edge(u) /\ Edge(v)
  BY <1>1, <1>2
<1>10. f = g /\ u = v
  BY Zenon, <1>8, <1>9, OneWord
<1> QED
  BY <1>2, <1>10

\* Stands, in terms of what follows.
LEMMA StandsParts ==
  ASSUME NEW f \in Fields
  PROVE  /\ \A y \in Text, free \in BOOLEAN : Stands(f \o y, f, free) <=> free /\ Edge(y)
         /\ \A v \in Text, free \in BOOLEAN : Stands(v, f, free) => \E y \in Text : v = f \o y /\ free /\ Edge(y)
<1>0. f \in Text /\ Len(f) \in Nat
  BY FieldFacts
<1>1. ASSUME NEW y \in Text, NEW free \in BOOLEAN
      PROVE  Stands(f \o y, f, free) <=> free /\ Edge(y)
  <2>1. Starts(f \o y, f) /\ Len(y) \in Nat
    BY <1>0, Parts, LenProperties DEF Text
  <2>2. \A i \in 1 .. Len(f) + Len(y) : (f \o y)[i] = IF i <= Len(f) THEN f[i] ELSE y[i - Len(f)]
    BY <1>0, ConcatProperties DEF Text
  <2>3. f \o y = f <=> y = <<>>
    BY <1>0, ConcatEqualIffEmpty DEF Text
  <2>4. y # <<>> => (f \o y)[Len(f) + 1] = y[1]
    <3> SUFFICES ASSUME y # <<>> PROVE (f \o y)[Len(f) + 1] = y[1]
      OBVIOUS
    <3>1. Len(y) # 0
      BY EmptySeq DEF Text
    <3> QED
      BY <1>0, <2>1, <2>2, <3>1
  <2> QED
    BY <2>1, <2>3, <2>4 DEF Stands, Edge
<1>2. ASSUME NEW v \in Text, NEW free \in BOOLEAN, Stands(v, f, free)
      PROVE  \E y \in Text : v = f \o y /\ free /\ Edge(y)
  <2>1. Starts(v, f)
    BY <1>2 DEF Stands
  <2>2. v = f \o After(v, f) /\ After(v, f) \in Text
    BY <1>0, <2>1, Parts
  <2>3. free /\ Edge(After(v, f))
    BY <1>1, <1>2, <2>2
  <2> QED
    BY <2>2, <2>3
<1> QED
  BY <1>1, <1>2

\* The hit at the start of a text is its only one.
LEMMA OneHit ==
  ASSUME NEW v \in Text, NEW free \in BOOLEAN,
         NEW f \in Hits(v, free, Fields), NEW g \in Hits(v, free, Fields)
  PROVE  f = g
<1>1. f \in Fields /\ g \in Fields
  BY DEF Hits
<1>2. f \in Text /\ f \in Seq(Alnum) /\ g \in Text /\ g \in Seq(Alnum) /\ Enclosed(f) \in Text /\ Enclosed(g) \in Text
  BY <1>1, FieldFacts
<1>3. CASE Stands(v, f, free) /\ Stands(v, g, free)
  <2>1. PICK x \in Text : v = f \o x /\ Edge(x)
    BY <1>1, <1>3, StandsParts
  <2>2. PICK y \in Text : v = g \o y /\ Edge(y)
    BY <1>1, <1>3, StandsParts
  <2> QED
    BY <1>2, <2>1, <2>2, OneWord
<1>4. CASE Starts(v, Enclosed(f)) /\ Starts(v, Enclosed(g))
  <2>1. /\ v = Enclosed(f) \o After(v, Enclosed(f)) /\ After(v, Enclosed(f)) \in Text
        /\ v = Enclosed(g) \o After(v, Enclosed(g)) /\ After(v, Enclosed(g)) \in Text
    BY <1>2, <1>4, Parts
  <2> QED
    BY <1>1, <2>1, OneEnclosed
<1>5. ASSUME NEW h \in Fields, NEW k \in Fields, Stands(v, h, free), Starts(v, Enclosed(k))
      PROVE  FALSE
  <2>1. PICK x \in Text : v = h \o x
    BY <1>5, StandsParts
  <2>2. v[1] # "%"
    BY <2>1, WordFirst
  <2>3. v = Enclosed(k) \o After(v, Enclosed(k)) /\ After(v, Enclosed(k)) \in Text
    BY <1>5, FieldFacts, Parts
  <2>4. v[1] = "%"
    BY <2>3, EnclosedFirst
  <2> QED
    BY <2>2, <2>4
<1> QED
  BY <1>1, <1>3, <1>4, <1>5 DEF Hits

LEMMA Unfold ==
  ASSUME NEW G, NEW v \in Text, NEW free \in BOOLEAN
  PROVE  AtOnce(v, free, G) =
           LET hit == CHOOSE f \in Hits(v, free, G) : TRUE
           IN IF v = <<>> THEN <<>>
              ELSE IF Hits(v, free, G) = {} THEN <<Head(v)>> \o AtOnce(Tail(v), Head(v) \notin Alnum, G)
              ELSE Name(hit) \o AtOnce(After(v, IF Starts(v, hit) THEN hit ELSE Enclosed(hit)), TRUE, G)
<1> DEFINE D == Text
           Step(r, u) == [atStart \in BOOLEAN |->
             LET hits == Hits(u, atStart, G)
                 hit == CHOOSE f \in hits : TRUE
             IN IF u = <<>> THEN <<>>
                ELSE IF hits = {} THEN <<Head(u)>> \o r[Tail(u)][Head(u) \notin Alnum]
                ELSE Name(hit) \o r[After(u, IF Starts(u, hit) THEN hit ELSE Enclosed(hit))][TRUE]]
           r[u \in D] == Step(r, u)
<1>1. \A t, atStart : AtOnce(t, atStart, G) = r[t][atStart]
  BY DEF AtOnce
<1> HIDE DEF Step, D
<1>2. r = [u \in D |-> Step(r, u)]
  OBVIOUS
<1> HIDE DEF r
<1>3. r[v] = Step(r, v)
  BY <1>2 DEF D
<1>4. r[v][free] =
        LET hit == CHOOSE f \in Hits(v, free, G) : TRUE
        IN IF v = <<>> THEN <<>>
           ELSE IF Hits(v, free, G) = {} THEN <<Head(v)>> \o r[Tail(v)][Head(v) \notin Alnum]
           ELSE Name(hit) \o r[After(v, IF Starts(v, hit) THEN hit ELSE Enclosed(hit))][TRUE]
  BY <1>3 DEF Step
<1> QED
  BY <1>1, <1>4

\* What the rewriting makes of each beginning that a text can have.
LEMMA Rules ==
  ASSUME NEW G \in SUBSET Fields
  PROVE  /\ \A free \in BOOLEAN : AtOnce(<<>>, free, G) = <<>>
         /\ \A f \in G, y \in Text : Edge(y) => AtOnce(f \o y, TRUE, G) = Name(f) \o AtOnce(y, TRUE, G)
         /\ \A f \in G, y \in Text, free \in BOOLEAN :
              AtOnce(Enclosed(f) \o y, free, G) = Name(f) \o AtOnce(y, TRUE, G)
         /\ \A c \in Chars, y \in Text, free \in BOOLEAN :
              Hits(<<c>> \o y, free, G) = {} =>
                AtOnce(<<c>> \o y, free, G) = <<c>> \o AtOnce(y, c \notin Alnum, G)
<1>1. ASSUME NEW free \in BOOLEAN PROVE AtOnce(<<>>, free, G) = <<>>
  <2>1. <<>> \in Text
    BY EmptySeq DEF Text
  <2> QED
    BY <2>1, Unfold
<1>2. ASSUME NEW f \in G, NEW v \in Text, NEW free \in BOOLEAN, f \in Hits(v, free, G), v # <<>>
      PROVE  AtOnce(v, free, G) = Name(f) \o AtOnce(After(v, IF Starts(v, f) THEN f ELSE Enclosed(f)), TRUE, G)
  <2>1. Hits(v, free, G) \subseteq Hits(v, free, Fields)
    BY DEF Hits
  <2>2. \A g \in Hits(v, free, G) : g = f
    BY <1>2, <2>1, OneHit
  <2>3. (CHOOSE g \in Hits(v, free, G) : TRUE) = f
    BY <1>2, <2>2
  <2> DEFINE hit == CHOOSE g \in Hits(v, free, G) : TRUE
  <2>4. AtOnce(v, free, G) = Name(hit) \o AtOnce(After(v, IF Starts(v, hit) THEN hit ELSE Enclosed(hit)), TRUE, G)
    BY <1>2, Unfold
  <2> HIDE DEF hit
  <2>5. hit = f
    BY <2>3 DEF hit
  <2> QED
    BY <2>4, <2>5
<1>3. ASSUME NEW f \in G, NEW y \in Text, Edge(y)
      PROVE  AtOnce(f \o y, TRUE, G) = Name(f) \o AtOnce(y, TRUE, G)
  <2>1. f \o y \in Text /\ f \o y # <<>>
    BY WordFirst
  <2>2. Stands(f \o y, f, TRUE)
    BY <1>3, StandsParts
  <2>3. Starts(f \o y, f) /\ f \in Hits(f \o y, TRUE, G)
    BY <2>2 DEF Stands, Hits
  <2>4. After(f \o y, f) = y
    BY FieldFacts, Parts
  <2> QED
    BY <1>2, <2>1, <2>3, <2>4
<1>4. ASSUME NEW f \in G, NEW y \in Text, NEW free \in BOOLEAN
      PROVE  AtOnce(Enclosed(f) \o y, free, G) = Name(f) \o AtOnce(y, TRUE, G)
  <2> DEFINE v == Enclosed(f) \o y
  <2>1. v \in Text /\ Starts(v, Enclosed(f)) /\ After(v, Enclosed(f)) = y
    BY FieldFacts, Parts
  <2>2. v[1] = "%"
    BY EnclosedFirst
  <2> HIDE DEF v
  <2>3. ~Starts(v, f)
    <3> SUFFICES ASSUME Starts(v, f) PROVE FALSE
      OBVIOUS
    <3>1. v = f \o After(v, f) /\ After(v, f) \in Text
      BY <2>1, FieldFacts, Parts
    <3> QED
      BY <2>2, <3>1, WordFirst
  <2>4. f \in Hits(v, free, G)
    BY <2>1 DEF Hits
  <2>5. v # <<>>
    <3>1. Len(v) = Len(Enclosed(f)) + Len(y) /\ Len(y) \in Nat
      BY FieldFacts, Parts, LenProperties DEF v, Text
    <3>2. Len(v) # 0
      BY <3>1, FieldFacts
    <3> QED
      BY <3>2, EmptySeq
  <2>6. AtOnce(v, free, G) = Name(f) \o AtOnce(y, TRUE, G)
    BY <1>2, <2>1, <2>3, <2>4, <2>5
  <2> QED
    BY <2>6 DEF v
<1>5. ASSUME NEW c \in Chars, NEW y \in Text, NEW free \in BOOLEAN, Hits(<<c>> \o y, free, G) = {}
      PROVE  AtOnce(<<c>> \o y, free, G) = <<c>> \o AtOnce(y, c \notin Alnum, G)
  <2> DEFINE v == <<c>> \o y
  <2>1. v \in Text /\ v # <<>> /\ Head(v) = c /\ Tail(v) = y /\ Hits(v, free, G) = {}
    BY <1>5, Cons
  <2> HIDE DEF v
  <2>2. AtOnce(v, free, G) = <<c>> \o AtOnce(y, c \notin Alnum, G)
    BY <2>1, Unfold
  <2> QED
    BY <2>2 DEF v
<1> QED
  BY <1>1, <1>3, <1>4, <1>5

LEMMA EmptyKept ==
  ASSUME NEW G \in SUBSET Fields, NEW free \in BOOLEAN
  PROVE  AtOnce(<<>>, free, G) = <<>>
BY Rules

LEMMA WordReplaced ==
  ASSUME NEW G \in SUBSET Fields, NEW f \in G, NEW y \in Text, Edge(y)
  PROVE  AtOnce(f \o y, TRUE, G) = Name(f) \o AtOnce(y, TRUE, G)
BY Rules

LEMMA EnclosedReplaced ==
  ASSUME NEW G \in SUBSET Fields, NEW f \in G, NEW y \in Text, NEW free \in BOOLEAN
  PROVE  AtOnce(Enclosed(f) \o y, free, G) = Name(f) \o AtOnce(y, TRUE, G)
BY Rules

LEMMA OtherCopied ==
  ASSUME NEW G \in SUBSET Fields, NEW c \in Chars, NEW y \in Text, NEW free \in BOOLEAN, Hits(<<c>> \o y, free, G) = {}
  PROVE  AtOnce(<<c>> \o y, free, G) = <<c>> \o AtOnce(y, c \notin Alnum, G)
BY Rules

\* The beginnings that a text can have.
LEMMA Beginnings ==
  ASSUME NEW G \in SUBSET Fields, NEW v \in Text, NEW free \in BOOLEAN
  PROVE  \/ v = <<>>
         \/ \E f \in G, y \in Text : free /\ Edge(y) /\ v = f \o y /\ Len(y) < Len(v)
         \/ \E f \in G, y \in Text : v = Enclosed(f) \o y /\ Len(y) < Len(v)
         \/ \E c \in Chars, y \in Text : v = <<c>> \o y /\ Hits(v, free, G) = {} /\ Len(y) < Len(v)
<1>1. CASE v # <<>> /\ Hits(v, free, G) = {}
  <2>1. Head(v) \in Chars /\ Tail(v) \in Text /\ v = <<Head(v)>> \o Tail(v) /\ Len(v) = Len(Tail(v)) + 1
    BY <1>1, Cons
  <2>2. Len(Tail(v)) < Len(v)
    BY <2>1, LenProperties DEF Text
  <2> QED
    BY <1>1, <2>1, <2>2
<1>2. ASSUME NEW f \in G, Stands(v, f, free)
      PROVE  \E y \in Text : free /\ Edge(y) /\ v = f \o y /\ Len(y) < Len(v)
  <2>1. PICK y \in Text : v = f \o y /\ free /\ Edge(y)
    BY <1>2, StandsParts
  <2>2. Len(v) = Len(f) + Len(y) /\ Len(f) \in Nat \ {0} /\ Len(y) \in Nat
    BY <2>1, FieldFacts, Parts, LenProperties DEF Text
  <2>3. Len(y) < Len(v)
    BY <2>2
  <2> QED
    BY <2>1, <2>3
<1>3. ASSUME NEW f \in G, Starts(v, Enclosed(f))
      PROVE  \E y \in Text : v = Enclosed(f) \o y /\ Len(y) < Len(v)
  <2> DEFINE y == After(v, Enclosed(f))
  <2>1. v = Enclosed(f) \o y /\ y \in Text /\ Len(v) = Len(Enclosed(f)) + Len(y)
    BY <1>3, FieldFacts, Parts
  <2>2. Len(y) \in Nat /\ Len(f) \in Nat /\ Len(Enclosed(f)) = Len(f) + 2
    BY <2>1, FieldFacts, LenProperties DEF Text
  <2>3. Len(y) < Len(v)
    BY <2>1, <2>2
  <2> QED
    BY <2>1, <2>3
<1> QED
  BY <1>1, <1>2, <1>3 DEF Hits

\* What holds of a sequence whenever it does of all shorter ones holds of all.
LEMMA SeqInduction ==
  ASSUME NEW S, NEW T \in SUBSET Seq(S),
         \A v \in Seq(S) : (\A y \in Seq(S) : Len(y) < Len(v) => y \in T) => v \in T
  PROVE  T = Seq(S)
<1> DEFINE N == {n \in Nat : \A v \in Seq(S) : Len(v) = n => v \in T}
<1>1. ASSUME NEW n \in Nat, \A m \in Nat : m < n => m \in N
      PROVE  n \in N
  <2> SUFFICES ASSUME NEW v \in Seq(S), Len(v) = n PROVE v \in T
    OBVIOUS
  <2>1. ASSUME NEW y \in Seq(S), Len(y) < Len(v) PROVE y \in T
    <3>1. Len(y) \in Nat
      BY LenProperties
    <3> QED
      BY <1>1, <2>1, <3>1
  <2> QED
    BY <2>1
<1>2. N \in SUBSET Nat
  OBVIOUS
<1> HIDE DEF N
<1>3. Nat \subseteq N
  BY <1>1, <1>2, Strong
<1>4. ASSUME NEW v \in Seq(S) PROVE v \in T
  BY <1>3, LenProperties DEF N
<1> QED
  BY <1>4

LEMMA TextInduction ==
  ASSUME NEW T \in SUBSET Text,
         \A v \in Text : (\A y \in Text : Len(y) < Len(v) => y \in T) => v \in T
  PROVE  T = Text
BY SeqInduction DEF Text

LEMMA AtOnceText ==
  ASSUME NEW G \in SUBSET Fields
  PROVE  \A v \in Text, free \in BOOLEAN : AtOnce(v, free, G) \in Text
<1> DEFINE T == {v \in Text : \A free \in BOOLEAN : AtOnce(v, free, G) \in Text}
<1>1. ASSUME NEW v \in Text, \A y \in Text : Len(y) < Len(v) => y \in T
      PROVE  v \in T
  <2> SUFFICES ASSUME NEW free \in BOOLEAN PROVE AtOnce(v, free, G) \in Text
    OBVIOUS
  <2>1. CASE v = <<>>
    <3>1. <<>> \in Text
      BY EmptySeq DEF Text
    <3> QED
      BY <2>1, <3>1, Rules
  <2>2. ASSUME NEW f \in G, NEW y \in Text, free, Edge(y), v = f \o y, Len(y) < Len(v)
        PROVE  AtOnce(v, free, G) \in Text
    <3>1. AtOnce(y, TRUE, G) \in Text /\ Name(f) \in Text
      BY <1>1, <2>2, FieldFacts
    <3>2. Name(f) \o AtOnce(y, TRUE, G) \in Text
      BY <3>1, Parts
    <3> QED
      BY <2>2, <3>2, Rules
  <2>3. ASSUME NEW f \in G, NEW y \in Text, v = Enclosed(f) \o y, Len(y) < Len(v)
        PROVE  AtOnce(v, free, G) \in Text
    <3>1. AtOnce(y, TRUE, G) \in Text /\ Name(f) \in Text
      BY <1>1, <2>3, FieldFacts
    <3>2. Name(f) \o AtOnce(y, TRUE, G) \in Text
      BY <3>1, Parts
    <3> QED
      BY <2>3, <3>2, Rules
  <2>4. ASSUME NEW c \in Chars, NEW y \in Text, v = <<c>> \o y, Hits(v, free, G) = {}, Len(y) < Len(v)
        PROVE  AtOnce(v, free, G) \in Text
    <3>1. AtOnce(y, c \notin Alnum, G) \in Text
      BY <1>1, <2>4
    <3>2. <<c>> \o AtOnce(y, c \notin Alnum, G) \in Text
      BY <3>1, Cons
    <3> QED
      BY <2>4, <3>2, Rules
  <2>5. \/ v = <<>>
        \/ \E f \in G, y \in Text : free /\ Edge(y) /\ v = f \o y /\ Len(y) < Len(v)
        \/ \E f \in G, y \in Text : v = Enclosed(f) \o y /\ Len(y) < Len(v)
        \/ \E c \in Chars, y \in Text : v = <<c>> \o y /\ Hits(v, free, G) = {} /\ Len(y) < Len(v)
    BY Beginnings
  <2> QED
    BY <2>1, <2>2, <2>3, <2>4, <2>5
<1>2. T \in SUBSET Text
  OBVIOUS
<1> HIDE DEF T
<1>3. T = Text
  BY <1>1, <1>2, TextInduction
<1> QED
  BY <1>3 DEF T

\* One pass over the text for one field is the rewriting for that field alone.
LEMMA OnePass ==
  ASSUME NEW f \in Fields
  PROVE  \A v \in Text : replaceMacro(v, f, Name(f)) = AtOnce(v, TRUE, {f})
<1> DEFINE D == Text
           Step(q, u) == [free \in BOOLEAN |->
             IF u = <<>> THEN <<>>
             ELSE IF Stands(u, f, free) THEN Name(f) \o q[After(u, f)][TRUE]
             ELSE IF Starts(u, Enclosed(f)) THEN Name(f) \o q[After(u, Enclosed(f))][TRUE]
             ELSE <<Head(u)>> \o q[Tail(u)][Head(u) \notin Alnum]]
           r[u \in D] == Step(r, u)
<1>1. \A t : replaceMacro(t, f, Name(f)) = r[t][TRUE]
  BY DEF replaceMacro
<1> HIDE DEF Step, D
<1>2. r = [u \in D |-> Step(r, u)]
  OBVIOUS
<1> HIDE DEF r
<1>3. \A u \in Text : r[u] = Step(r, u)
  BY <1>2 DEF D
<1>4. \A u \in Text, free \in BOOLEAN : r[u][free] =
        IF u = <<>> THEN <<>>
        ELSE IF Stands(u, f, free) THEN Name(f) \o r[After(u, f)][TRUE]
        ELSE IF Starts(u, Enclosed(f)) THEN Name(f) \o r[After(u, Enclosed(f))][TRUE]
        ELSE <<Head(u)>> \o r[Tail(u)][Head(u) \notin Alnum]
  BY <1>3 DEF Step
<1> DEFINE T == {v \in Text : \A free \in BOOLEAN : r[v][free] = AtOnce(v, free, {f})}
<1>5. ASSUME NEW v \in Text, \A y \in Text : Len(y) < Len(v) => y \in T
      PROVE  v \in T
  <2> SUFFICES ASSUME NEW free \in BOOLEAN PROVE r[v][free] = AtOnce(v, free, {f})
    OBVIOUS
  <2>0. {f} \in SUBSET Fields /\ f \in Text /\ Enclosed(f) \in Text
    BY FieldFacts
  <2>1. CASE v = <<>>
    BY <1>4, <2>0, <2>1, Rules
  <2>2. ASSUME NEW y \in Text, free, Edge(y), v = f \o y, Len(y) < Len(v)
        PROVE  r[v][free] = AtOnce(v, free, {f})
    <3>1. v # <<>> /\ Stands(v, f, free) /\ After(v, f) = y
      BY <2>0, <2>2, WordFirst, StandsParts, Parts
    <3>2. r[v][free] = Name(f) \o r[y][TRUE]
      BY <1>4, <3>1
    <3>3. r[y][TRUE] = AtOnce(y, TRUE, {f})
      BY <1>5, <2>2
    <3>4. AtOnce(f \o y, TRUE, {f}) = Name(f) \o AtOnce(y, TRUE, {f})
      BY <2>0, <2>2, Rules
    <3>5. free = TRUE
      BY <2>2
    <3> QED
      BY <2>2, <3>2, <3>3, <3>4, <3>5
  <2>3. ASSUME NEW y \in Text, v = Enclosed(f) \o y, Len(y) < Len(v)
        PROVE  r[v][free] = AtOnce(v, free, {f})
    <3>1. v[1] = "%" /\ Starts(v, Enclosed(f)) /\ After(v, Enclosed(f)) = y
      BY <2>0, <2>3, EnclosedFirst, Parts
    <3>2. ~Stands(v, f, free)
      <4> SUFFICES ASSUME Stands(v, f, free) PROVE FALSE
        OBVIOUS
      <4>1. PICK x \in Text : v = f \o x
        BY StandsParts
      <4> QED
        BY <3>1, <4>1, WordFirst
    <3>3. v # <<>>
      <4>1. Len(v) # 0
        BY <2>3, LenProperties DEF Text
      <4> QED
        BY <4>1, EmptySeq
    <3>4. r[v][free] = Name(f) \o r[y][TRUE]
      BY <1>4, <3>1, <3>2, <3>3
    <3>5. r[y][TRUE] = AtOnce(y, TRUE, {f})
      BY <1>5, <2>3
    <3>6. AtOnce(Enclosed(f) \o y, free, {f}) = Name(f) \o AtOnce(y, TRUE, {f})
      BY <2>0, Rules
    <3> QED
      BY <2>3, <3>4, <3>5, <3>6
  <2>4. ASSUME NEW c \in Chars, NEW y \in Text, v = <<c>> \o y, Hits(v, free, {f}) = {}, Len(y) < Len(v)
        PROVE  r[v][free] = AtOnce(v, free, {f})
    <3>1. v # <<>> /\ Head(v) = c /\ Tail(v) = y /\ ~Stands(v, f, free) /\ ~Starts(v, Enclosed(f))
      BY <2>4, Cons DEF Hits
    <3>2. r[v][free] = <<c>> \o r[y][c \notin Alnum]
      BY <1>4, <3>1
    <3>3. r[y][c \notin Alnum] = AtOnce(y, c \notin Alnum, {f})
      BY <1>5, <2>4
    <3>4. Hits(<<c>> \o y, free, {f}) = {}
      BY <2>4
    <3>5. AtOnce(<<c>> \o y, free, {f}) = <<c>> \o AtOnce(y, c \notin Alnum, {f})
      BY <2>0, <3>4, OtherCopied
    <3> QED
      BY <2>4, <3>2, <3>3, <3>5
  <2>5. \/ v = <<>>
        \/ \E g \in {f}, y \in Text : free /\ Edge(y) /\ v = g \o y /\ Len(y) < Len(v)
        \/ \E g \in {f}, y \in Text : v = Enclosed(g) \o y /\ Len(y) < Len(v)
        \/ \E c \in Chars, y \in Text : v = <<c>> \o y /\ Hits(v, free, {f}) = {} /\ Len(y) < Len(v)
    BY <2>0, Beginnings
  <2> QED
    BY <2>1, <2>2, <2>3, <2>4, <2>5
<1>6. T \in SUBSET Text
  OBVIOUS
<1> HIDE DEF T
<1>7. T = Text
  BY <1>5, <1>6, TextInduction
<1> QED
  BY <1>1, <1>7 DEF T

\* What a hit begins with.
LEMMA HitFirst ==
  ASSUME NEW G \in SUBSET Fields, NEW v \in Text, NEW free \in BOOLEAN, Hits(v, free, G) # {}
  PROVE  v # <<>> /\ (v[1] = "%" \/ (free /\ v[1] \in Upper))
<1>1. PICK f \in G : Stands(v, f, free) \/ Starts(v, Enclosed(f))
  BY DEF Hits
<1>2. CASE Stands(v, f, free)
  <2>1. PICK y \in Text : v = f \o y /\ free
    BY <1>2, StandsParts
  <2> QED
    BY <2>1, WordFirst
<1>3. CASE Starts(v, Enclosed(f))
  <2> DEFINE y == After(v, Enclosed(f))
  <2>1. v = Enclosed(f) \o y /\ y \in Text /\ Len(v) = Len(f) + 2 + Len(y)
    BY <1>3, FieldFacts, Parts
  <2>2. v[1] = "%"
    BY <2>1, EnclosedFirst
  <2>3. Len(v) # 0
    BY <2>1, FieldFacts, LenProperties DEF Text
  <2> QED
    BY <2>2, <2>3, EmptySeq
<1> QED
  BY <1>1, <1>2, <1>3

\* The letters and digits before which no hit begins are copied.
LEMMA Copy ==
  ASSUME NEW G \in SUBSET Fields
  PROVE  \A x \in Text : x \in Seq(Alnum) /\ x # <<>> =>
           \A y \in Text, free \in BOOLEAN :
             Hits(x \o y, free, G) = {} => AtOnce(x \o y, free, G) = x \o AtOnce(y, FALSE, G)
<1> DEFINE P(x) == x \in Seq(Alnum) /\ x # <<>> =>
             \A y \in Text, free \in BOOLEAN :
               Hits(x \o y, free, G) = {} => AtOnce(x \o y, free, G) = x \o AtOnce(y, FALSE, G)
           T == {x \in Text : P(x)}
<1>1. ASSUME NEW x \in Text, \A y \in Text : Len(y) < Len(x) => y \in T
      PROVE  x \in T
  <2> SUFFICES ASSUME x \in Seq(Alnum), x # <<>>, NEW y \in Text, NEW free \in BOOLEAN, Hits(x \o y, free, G) = {}
               PROVE  AtOnce(x \o y, free, G) = x \o AtOnce(y, FALSE, G)
    OBVIOUS
  <2> DEFINE c == Head(x)
             w == Tail(x)
  <2>1. c \in Alnum /\ w \in Seq(Alnum)
    BY HeadTailProperties
  <2>2. c \in Chars /\ w \in Text /\ x = <<c>> \o w /\ Len(x) = Len(w) + 1 /\ <<c>> \in Text
    BY Cons DEF Text
  <2> HIDE DEF c, w
  <2>3. x \o y = <<c>> \o (w \o y) /\ w \o y \in Text
    BY <2>2, Assoc, Parts
  <2>4. (c \notin Alnum) = FALSE
    BY <2>1
  <2>5. AtOnce(x \o y, free, G) = <<c>> \o AtOnce(w \o y, FALSE, G)
    <3> DEFINE z == w \o y
    <3>1. z \in Text /\ Hits(<<c>> \o z, free, G) = {} /\ x \o y = <<c>> \o z
      BY <2>3
    <3> HIDE DEF z
    <3>2. AtOnce(<<c>> \o z, free, G) = <<c>> \o AtOnce(z, c \notin Alnum, G)
      BY <2>2, <3>1, OtherCopied
    <3> QED
      BY <2>4, <3>1, <3>2 DEF z
  <2>6. CASE w = <<>>
    <3>1. w \o y = y /\ <<c>> \o w = <<c>>
      BY <2>2, <2>6, ConcatEmptySeq DEF Text
    <3> QED
      BY <2>2, <2>5, <3>1
  <2>7. CASE w # <<>>
    <3>1. (w \o y)[1] \in Alnum
      <4>1. \A i \in 1 .. Len(w) + Len(y) : (w \o y)[i] = IF i <= Len(w) THEN w[i] ELSE y[i - Len(w)]
        BY <2>2, ConcatProperties DEF Text
      <4>2. Len(w) \in Nat \ {0} /\ Len(y) \in Nat /\ w[1] \in Alnum
        BY <2>1, <2>7, EmptySeq, LenProperties, ElementOfSeq DEF Text
      <4>3. 1 \in 1 .. Len(w) + Len(y) /\ 1 <= Len(w)
        BY <4>2
      <4> QED
        BY <4>1, <4>2, <4>3
    <3>2. Hits(w \o y, FALSE, G) = {}
      BY <2>3, <3>1, HitFirst, CharFacts
    <3>3. Len(w) < Len(x)
      BY <2>2, LenProperties DEF Text
    <3>4. AtOnce(w \o y, FALSE, G) = w \o AtOnce(y, FALSE, G)
      BY <1>1, <2>1, <2>2, <2>7, <3>2, <3>3
    <3> DEFINE a == AtOnce(y, FALSE, G)
    <3>5. a \in Text
      BY AtOnceText
    <3> HIDE DEF a
    <3>6. (<<c>> \o w) \o a = <<c>> \o (w \o a)
      BY Z3, <2>2, <3>5, Assoc
    <3> QED
      BY <2>2, <2>5, <3>4, <3>6 DEF a
  <2> QED
    BY <2>6, <2>7
<1>2. T \in SUBSET Text
  OBVIOUS
<1> HIDE DEF T
<1>3. T = Text
  BY <1>1, <1>2, TextInduction
<1> QED
  BY <1>3 DEF T

\* Before an edge it does not matter what precedes.
LEMMA EdgeFree ==
  ASSUME NEW G \in SUBSET Fields, NEW y \in Text, Edge(y)
  PROVE  AtOnce(y, TRUE, G) = AtOnce(y, FALSE, G)
<1>1. CASE y = <<>>
  BY <1>1, Rules
<1>2. ASSUME NEW g \in G, NEW x \in Text, y = Enclosed(g) \o x
      PROVE  AtOnce(y, TRUE, G) = AtOnce(y, FALSE, G)
  BY <1>2, Rules
<1>3. ASSUME NEW g \in G, NEW x \in Text, y = g \o x
      PROVE  FALSE
  <2>1. y # <<>> /\ y[1] \in Upper
    BY <1>3, WordFirst
  <2> QED
    BY <2>1, CharFacts DEF Edge
<1>4. ASSUME NEW c \in Chars, NEW x \in Text, y = <<c>> \o x, Hits(y, TRUE, G) = {}
      PROVE  AtOnce(y, TRUE, G) = AtOnce(y, FALSE, G)
  <2>1. Hits(y, FALSE, G) = {}
    BY <1>4 DEF Hits, Stands
  <2>2. AtOnce(<<c>> \o x, TRUE, G) = <<c>> \o AtOnce(x, c \notin Alnum, G)
    BY <1>4, Rules
  <2>3. AtOnce(<<c>> \o x, FALSE, G) = <<c>> \o AtOnce(x, c \notin Alnum, G)
    BY <1>4, <2>1, Rules
  <2> QED
    BY <1>4, <2>2, <2>3
<1>5. \/ y = <<>>
      \/ \E f \in G, x \in Text : TRUE /\ Edge(x) /\ y = f \o x /\ Len(x) < Len(y)
      \/ \E f \in G, x \in Text : y = Enclosed(f) \o x /\ Len(x) < Len(y)
      \/ \E c \in Chars, x \in Text : y = <<c>> \o x /\ Hits(y, TRUE, G) = {} /\ Len(x) < Len(y)
  BY Beginnings
<1> QED
  BY <1>1, <1>2, <1>3, <1>4, <1>5

\* A word of capitals and % signs at the start of what has been rewritten was there before.
LEMMA Origin ==
  ASSUME NEW G \in SUBSET Fields
  PROVE  \A v \in Text, free \in BOOLEAN, w \in Text :
           w \in Seq(Upper \cup {"%"}) /\ Starts(AtOnce(v, free, G), w) => Starts(v, w)
<1> DEFINE A(u, free) == AtOnce(u, free, G)
           P(v) == \A free \in BOOLEAN, w \in Text :
                     w \in Seq(Upper \cup {"%"}) /\ Starts(AtOnce(v, free, G), w) => Starts(v, w)
           T == {v \in Text : P(v)}
<1>1. ASSUME NEW v \in Text, \A y \in Text : Len(y) < Len(v) => y \in T
      PROVE  v \in T
  <2> SUFFICES ASSUME NEW free \in BOOLEAN, NEW w \in Text, w \in Seq(Upper \cup {"%"}), Starts(AtOnce(v, free, G), w)
               PROVE  Starts(v, w)
    OBVIOUS
  <2>1. CASE w = <<>>
    <3>1. <<>> \o v = v
      BY ConcatEmptySeq DEF Text
    <3> QED
      BY <2>1, <3>1, Parts
  <2>2. CASE w # <<>>
    <3> DEFINE c == Head(w)
               z == Tail(w)
               b == After(AtOnce(v, free, G), w)
    <3>1. c \in Upper \cup {"%"} /\ z \in Seq(Upper \cup {"%"})
      BY <2>2, HeadTailProperties
    <3>2. c \in Chars /\ z \in Text /\ w = <<c>> \o z
      BY <2>2, Cons
    <3>3. AtOnce(v, free, G) \in Text /\ AtOnce(v, free, G) = w \o b /\ b \in Text
      BY AtOnceText, Parts
    <3> HIDE DEF c, z, b
    <3>4. AtOnce(v, free, G) = <<c>> \o (z \o b) /\ z \o b \in Text
      <4>1. <<c>> \in Text
        BY <3>2 DEF Text
      <4>2. (<<c>> \o z) \o b = <<c>> \o (z \o b)
        BY Zenon, <3>2, <3>3, <4>1, Assoc
      <4> QED
        BY <3>2, <3>3, <4>2, Parts
    <3>5. AtOnce(v, free, G) # <<>> /\ AtOnce(v, free, G)[1] = c /\ Tail(AtOnce(v, free, G)) = z \o b
      BY <3>2, <3>4, Cons
    <3>6. ASSUME NEW g \in G, NEW y \in Text, AtOnce(v, free, G) = Name(g) \o AtOnce(y, TRUE, G)
          PROVE  FALSE
      <4> DEFINE a == AtOnce(y, TRUE, G)
      <4>1. a \in Text /\ Name(g) \in Text /\ Len(Name(g)) \in Nat \ {0} /\ Name(g)[1] \in Lower
        BY AtOnceText, FieldFacts
      <4> HIDE DEF a
      <4>2. \A i \in 1 .. Len(Name(g)) + Len(a) : (Name(g) \o a)[i] = IF i <= Len(Name(g)) THEN Name(g)[i] ELSE a[i - Len(Name(g))]
        BY <4>1, ConcatProperties DEF Text
      <4>3. Len(a) \in Nat /\ 1 \in 1 .. Len(Name(g)) + Len(a) /\ 1 <= Len(Name(g))
        BY <4>1, LenProperties DEF Text
      <4>4. (Name(g) \o a)[1] \in Lower
        BY <4>1, <4>2, <4>3
      <4>5. c \in Lower
        BY <3>5, <3>6, <4>4 DEF a
      <4> QED
        BY <3>1, <4>5, CharFacts
    <3>7. CASE v = <<>>
      BY <3>5, <3>7, Rules
    <3>8. ASSUME NEW g \in G, NEW y \in Text, free, Edge(y), v = g \o y
          PROVE  FALSE
      <4>1. AtOnce(g \o y, TRUE, G) = Name(g) \o AtOnce(y, TRUE, G) /\ free = TRUE
        BY <3>8, Rules
      <4> QED
        BY <3>6, <3>8, <4>1
    <3>9. ASSUME NEW g \in G, NEW y \in Text, v = Enclosed(g) \o y
          PROVE  FALSE
      <4>1. AtOnce(Enclosed(g) \o y, free, G) = Name(g) \o AtOnce(y, TRUE, G)
        BY Rules
      <4> QED
        BY <3>6, <3>9, <4>1
    <3>10. ASSUME NEW d \in Chars, NEW y \in Text, v = <<d>> \o y, Hits(v, free, G) = {}, Len(y) < Len(v)
           PROVE  Starts(v, w)
      <4> DEFINE a == AtOnce(y, d \notin Alnum, G)
      <4>1. a \in Text
        BY AtOnceText
      <4>2. AtOnce(v, free, G) = <<d>> \o a
        BY <3>10, Rules
      <4> HIDE DEF a
      <4>3. AtOnce(v, free, G)[1] = d /\ Tail(AtOnce(v, free, G)) = a
        BY <4>1, <4>2, Cons
      <4>4. d = c /\ a = z \o b
        BY <3>5, <4>3
      <4>5. Starts(a, z)
        BY <3>2, <3>3, <4>4, Parts
      <4>6. Starts(y, z)
        BY <1>1, <3>1, <3>2, <3>10, <4>5 DEF a
      <4> DEFINE x == After(y, z)
      <4>7. x \in Text /\ y = z \o x
        BY <3>2, <4>6, Parts
      <4> HIDE DEF x
      <4>8. v = w \o x
        <5>1. <<c>> \in Text
          BY <3>2 DEF Text
        <5>2. (<<c>> \o z) \o x = <<c>> \o (z \o x)
          BY Z3, <3>2, <4>7, <5>1, Assoc
        <5> QED
          BY <3>2, <3>10, <4>4, <4>7, <5>2
      <4> QED
        BY <4>7, <4>8, Parts
    <3>11. \/ v = <<>>
           \/ \E f \in G, y \in Text : free /\ Edge(y) /\ v = f \o y /\ Len(y) < Len(v)
           \/ \E f \in G, y \in Text : v = Enclosed(f) \o y /\ Len(y) < Len(v)
           \/ \E d \in Chars, y \in Text : v = <<d>> \o y /\ Hits(v, free, G) = {} /\ Len(y) < Len(v)
      BY Beginnings
    <3> QED
      BY <3>7, <3>8, <3>9, <3>10, <3>11
  <2> QED
    BY <2>1, <2>2
<1>2. T \in SUBSET Text
  OBVIOUS
<1> HIDE DEF T
<1>3. T = Text
  BY <1>1, <1>2, TextInduction
<1> QED
  BY <1>3 DEF T

-----------------------------------------------------------------------------
(* Fields that touch.                                                        *)

LEMMA Suffix ==
  ASSUME NEW x \in Text, NEW y \in Text, NEW i \in 1 .. Len(y)
  PROVE  Len(x) + i \in 1 .. Len(x \o y) /\ SubSeq(x \o y, Len(x) + i, Len(x \o y)) = SubSeq(y, i, Len(y))
<1>1. x \in Seq(Chars) /\ y \in Seq(Chars) /\ Len(x) \in Nat /\ Len(y) \in Nat
  BY LenProperties DEF Text
<1> DEFINE t == x \o y
           a == SubSeq(t, Len(x) + i, Len(t))
           b == SubSeq(y, i, Len(y))
<1>2. t \in Seq(Chars) /\ Len(t) = Len(x) + Len(y)
      /\ \A j \in 1 .. Len(x) + Len(y) : t[j] = IF j <= Len(x) THEN x[j] ELSE y[j - Len(x)]
  BY <1>1, ConcatProperties
<1> HIDE DEF t
<1>3. \A j \in 1 .. Len(t) : t[j] \in Chars
  BY <1>2, ElementOfSeq
<1>4. \A j \in 1 .. Len(y) : y[j] \in Chars
  BY <1>1, ElementOfSeq
<1>5. a \in Seq(Chars) /\ Len(a) = Len(y) - i + 1 /\ \A j \in 1 .. Len(y) - i + 1 : a[j] = t[Len(x) + i + j - 1]
  BY <1>1, <1>2, <1>3, SubSeqProperties
<1>6. b \in Seq(Chars) /\ Len(b) = Len(y) - i + 1 /\ \A j \in 1 .. Len(y) - i + 1 : b[j] = y[i + j - 1]
  BY <1>1, <1>4, SubSeqProperties
<1> HIDE DEF a, b
<1>7. \A j \in 1 .. Len(y) - i + 1 : t[Len(x) + i + j - 1] = y[i + j - 1]
  <2> SUFFICES ASSUME NEW j \in 1 .. Len(y) - i + 1 PROVE t[Len(x) + i + j - 1] = y[i + j - 1]
    OBVIOUS
  <2> DEFINE k == Len(x) + i + j - 1
  <2>1. k \in 1 .. Len(x) + Len(y) /\ ~(k <= Len(x)) /\ k - Len(x) = i + j - 1
    BY <1>1
  <2> HIDE DEF k
  <2>2. t[k] = y[i + j - 1]
    BY <1>2, <2>1
  <2> QED
    BY <2>2 DEF k
<1>8. a = b
  BY <1>1, <1>5, <1>6, <1>7, SeqEqual
<1>9. Len(x) + i \in 1 .. Len(t)
  BY <1>1, <1>2
<1> QED
  BY <1>8, <1>9 DEF a, b, t

\* A text in which fields touch is one of which some suffix begins with two that touch.
LEMMA TouchingSuffix ==
  ASSUME NEW x \in Text, NEW y \in Text, Touching(y)
  PROVE  Touching(x \o y)
<1>1. PICK i \in 1 .. Len(y), f \in Fields, g \in Fields :
        f # g /\ (Starts(SubSeq(y, i, Len(y)), Enclosed(f) \o g) \/ Starts(SubSeq(y, i, Len(y)), f \o Enclosed(g)))
  BY DEF Touching
<1> DEFINE t == x \o y
<1>2. Len(x) + i \in 1 .. Len(t) /\ SubSeq(t, Len(x) + i, Len(t)) = SubSeq(y, i, Len(y))
  BY Suffix
<1> HIDE DEF t
<1>3. Touching(t)
  BY <1>1, <1>2 DEF Touching
<1> QED
  BY <1>3 DEF t

LEMMA TouchingHere ==
  ASSUME NEW f \in Fields, NEW g \in Fields, f # g, NEW y \in Text
  PROVE  Touching(Enclosed(f) \o (g \o y)) /\ Touching(f \o (Enclosed(g) \o y))
<1>1. ASSUME NEW w \in Text, Len(w) > 0, w \in {Enclosed(f) \o g, f \o Enclosed(g)}
      PROVE  Touching(w \o y)
  <2> DEFINE t == w \o y
  <2>1. t \in Text /\ Starts(t, w) /\ Len(t) = Len(w) + Len(y)
    BY Parts
  <2> HIDE DEF t
  <2>2. 1 \in 1 .. Len(t)
    BY <1>1, <2>1, LenProperties DEF Text
  <2>3. SubSeq(t, 1, Len(t)) = t
    BY <2>1, SubSeqFull DEF Text
  <2>4. Touching(t)
    BY <1>1, <2>1, <2>2, <2>3 DEF Touching
  <2> QED
    BY <2>4 DEF t
<1>2. f \in Text /\ g \in Text /\ Enclosed(f) \in Text /\ Enclosed(g) \in Text /\ Len(f) \in Nat \ {0} /\ Len(g) \in Nat \ {0}
      /\ Len(Enclosed(f)) = Len(f) + 2 /\ Len(Enclosed(g)) = Len(g) + 2
  BY FieldFacts
<1>3. Enclosed(f) \o g \in Text /\ Len(Enclosed(f) \o g) > 0 /\ f \o Enclosed(g) \in Text /\ Len(f \o Enclosed(g)) > 0
  BY <1>2, Parts
<1>4. (Enclosed(f) \o g) \o y = Enclosed(f) \o (g \o y)
  BY Zenon, <1>2, Assoc
<1>5. (f \o Enclosed(g)) \o y = f \o (Enclosed(g) \o y)
  <2>1. f \in Text /\ Enclosed(g) \in Text
    BY <1>2
  <2> QED
    BY Zenon, <2>1, Assoc
<1>6. Touching((Enclosed(f) \o g) \o y)
  BY <1>1, <1>3
<1>7. Touching((f \o Enclosed(g)) \o y)
  BY <1>1, <1>3
<1> QED
  BY <1>4, <1>5, <1>6, <1>7

-----------------------------------------------------------------------------
(* One macro after the other.                                                *)

\* A first character is the first of what it is put before.
LEMMA FirstOf ==
  ASSUME NEW x \in Text, x # <<>>, NEW y \in Text
  PROVE  x \o y # <<>> /\ (x \o y)[1] = x[1]
<1>1. Len(x) \in Nat \ {0} /\ Len(y) \in Nat
  BY EmptySeq, LenProperties DEF Text
<1>2. \A i \in 1 .. Len(x) + Len(y) : (x \o y)[i] = IF i <= Len(x) THEN x[i] ELSE y[i - Len(x)]
  BY ConcatProperties DEF Text
<1>3. 1 \in 1 .. Len(x) + Len(y) /\ 1 <= Len(x)
  BY <1>1
<1>4. Len(x \o y) = Len(x) + Len(y)
  BY ConcatProperties DEF Text
<1>5. Len(x \o y) # 0
  BY <1>1, <1>4
<1> QED
  BY <1>2, <1>3, <1>5, EmptySeq

\* A replacement does not look again at a name that another has written.
LEMMA PastName ==
  ASSUME NEW G \in SUBSET Fields, NEW g \in Fields, NEW y \in Text, NEW free \in BOOLEAN
  PROVE  AtOnce(Name(g) \o y, free, G) = Name(g) \o AtOnce(y, FALSE, G)
<1>1. Name(g) \in Text /\ Name(g) \in Seq(Alnum) /\ Name(g) # <<>> /\ Name(g)[1] \in Lower
  BY FieldFacts
<1>2. Name(g) \o y \in Text
  BY <1>1, Parts
<1>3. (Name(g) \o y)[1] = Name(g)[1]
  BY <1>1, FirstOf
<1>4. Name(g)[1] # "%" /\ Name(g)[1] \notin Upper
  BY <1>1, CharFacts
<1>5. Hits(Name(g) \o y, free, G) = {}
  BY <1>2, <1>3, <1>4, HitFirst
<1> QED
  BY <1>1, <1>5, Copy

\* Where an edge follows a field that is yet to be replaced, an edge remains, if no fields touch.
LEMMA EdgeKept ==
  ASSUME NEW G \in SUBSET Fields, NEW f \in Fields, f \notin G, NEW y \in Text, Edge(y), ~Touching(f \o y)
  PROVE  Edge(AtOnce(y, FALSE, G))
<1>1. CASE y = <<>>
  BY <1>1, Rules DEF Edge
<1>2. ASSUME NEW g \in G, NEW x \in Text, y = Enclosed(g) \o x
      PROVE  FALSE
  BY <1>2, TouchingHere
<1>3. ASSUME NEW c \in Chars, NEW x \in Text, y = <<c>> \o x, Hits(y, FALSE, G) = {}
      PROVE  Edge(AtOnce(y, FALSE, G))
  <2> DEFINE a == AtOnce(x, c \notin Alnum, G)
  <2>1. a \in Text
    BY AtOnceText
  <2>2. AtOnce(y, FALSE, G) = <<c>> \o a
    BY <1>3, Rules
  <2> HIDE DEF a
  <2>3. AtOnce(y, FALSE, G)[1] = c
    BY <2>1, <2>2, Cons
  <2>4. y # <<>> /\ y[1] = c
    BY <1>3, Cons
  <2> QED
    BY <2>3, <2>4 DEF Edge
<1>4. \/ y = <<>>
      \/ \E g \in G, x \in Text : FALSE /\ Edge(x) /\ y = g \o x /\ Len(x) < Len(y)
      \/ \E g \in G, x \in Text : y = Enclosed(g) \o x /\ Len(x) < Len(y)
      \/ \E c \in Chars, x \in Text : y = <<c>> \o x /\ Hits(y, FALSE, G) = {} /\ Len(x) < Len(y)
  BY Beginnings
<1> QED
  BY <1>1, <1>2, <1>3, <1>4

\* Where no field begins, none begins after those of G have been replaced behind.
LEMMA NoneJoined ==
  ASSUME NEW G \in SUBSET Fields, NEW f \in Fields, NEW v \in Text, NEW free \in BOOLEAN, NEW c \in BOOLEAN,
         Starts(v, f) => (c => free), Hits(v, free, G \cup {f}) = {}
  PROVE  Hits(AtOnce(v, free, G), c, {f}) = {}
<1>0. f \in Text /\ f \in Seq(Alnum) /\ f # <<>> /\ Enclosed(f) \in Text
  BY FieldFacts
<1>1. f \in Seq(Upper \cup {"%"}) /\ Enclosed(f) \in Seq(Upper \cup {"%"})
  <2>1. f \in Seq(Upper \cup {"%"})
    BY FieldFacts, SeqMonotonic
  <2>2. <<"%">> \in Seq(Upper \cup {"%"})
    OBVIOUS
  <2>3. (<<"%">> \o f) \o <<"%">> \in Seq(Upper \cup {"%"})
    BY <2>1, <2>2, ConcatProperties
  <2> QED
    BY <2>1, <2>3 DEF Enclosed
<1>2. Hits(v, free, G) = {} /\ ~Stands(v, f, free) /\ ~Starts(v, Enclosed(f))
  BY DEF Hits
<1>3. ~Starts(AtOnce(v, free, G), Enclosed(f))
  BY <1>0, <1>1, <1>2, Origin
<1>4. ~Stands(AtOnce(v, free, G), f, c)
  <2> SUFFICES ASSUME Stands(AtOnce(v, free, G), f, c) PROVE FALSE
    OBVIOUS
  <2>1. c /\ Starts(AtOnce(v, free, G), f)
    BY DEF Stands
  <2>2. Starts(v, f)
    BY <1>0, <1>1, <2>1, Origin
  <2>3. free = TRUE
    BY <2>1, <2>2
  <2> DEFINE y == After(v, f)
             a == AtOnce(y, FALSE, G)
  <2>4. v = f \o y /\ y \in Text
    BY <1>0, <2>2, Parts
  <2> HIDE DEF y
  <2>5. ~Edge(y)
    BY <1>2, <2>3, <2>4, StandsParts
  <2>6. AtOnce(v, free, G) = f \o a /\ a \in Text
    BY <1>0, <1>2, <2>4, Copy, AtOnceText
  <2>7. Hits(y, FALSE, G) = {}
    BY <2>4, <2>5, HitFirst, CharFacts DEF Edge
  <2>8. Head(y) \in Chars /\ Tail(y) \in Text /\ y = <<Head(y)>> \o Tail(y) /\ y[1] = Head(y)
    BY <2>4, <2>5, Cons DEF Edge
  <2>9. AtOnce(<<Head(y)>> \o Tail(y), FALSE, G) = <<Head(y)>> \o AtOnce(Tail(y), Head(y) \notin Alnum, G)
    BY <2>7, <2>8, Rules
  <2> DEFINE b == AtOnce(Tail(y), Head(y) \notin Alnum, G)
  <2>10. b \in Text /\ a = <<Head(y)>> \o b
    BY <2>8, <2>9, AtOnceText
  <2> HIDE DEF b
  <2>11. a # <<>> /\ a[1] = Head(y)
    BY <2>8, <2>10, Cons
  <2>12. ~Edge(a)
    BY <2>5, <2>8, <2>11 DEF Edge
  <2> HIDE DEF a
  <2>13. Stands(f \o a, f, c)
    BY <2>6
  <2> QED
    BY <2>6, <2>12, <2>13, StandsParts
<1> QED
  BY <1>3, <1>4 DEF Hits

\* Replacing the fields of G and then f is replacing them all at once, wherever the second pass starts
\* from a place that it sees as the first one did.
LEMMA Join ==
  ASSUME NEW G \in SUBSET Fields, NEW f \in Fields
  PROVE  \A v \in Text, free \in BOOLEAN, c \in BOOLEAN :
           /\ ~Touching(v)
           /\ Starts(v, f) => (c => free) /\ (f \notin G /\ free => c)
           => AtOnce(AtOnce(v, free, G), c, {f}) = AtOnce(v, free, G \cup {f})
<1> DEFINE Fits(v, free, c) == Starts(v, f) => (c => free) /\ (f \notin G /\ free => c)
           H == G \cup {f}
           P(v) == ~Touching(v) => \A free \in BOOLEAN, c \in BOOLEAN :
                     Fits(v, free, c) => AtOnce(AtOnce(v, free, G), c, {f}) = AtOnce(v, free, H)
           T == {v \in Text : P(v)}
<1>0. /\ {f} \in SUBSET Fields /\ H \in SUBSET Fields /\ G \subseteq H /\ f \in H
      /\ f \in Text /\ f \in Seq(Alnum) /\ f # <<>> /\ Enclosed(f) \in Text /\ f[1] \in Upper /\ "%" \in Chars
      /\ Name(f) \in Text
  BY FieldFacts, CharFacts
<1>1. ASSUME NEW v \in Text, \A y \in Text : Len(y) < Len(v) => y \in T
      PROVE  v \in T
  <2> SUFFICES ASSUME ~Touching(v), NEW free \in BOOLEAN, NEW c \in BOOLEAN, Fits(v, free, c)
               PROVE  AtOnce(AtOnce(v, free, G), c, {f}) = AtOnce(v, free, H)
    OBVIOUS
  <2>0. ASSUME NEW x \in Text, NEW y \in Text, v = x \o y, Len(y) < Len(v), NEW u \in BOOLEAN, NEW d \in BOOLEAN, Fits(y, u, d)
        PROVE  AtOnce(AtOnce(y, u, G), d, {f}) = AtOnce(y, u, H)
    <3>1. ~Touching(y)
      BY <2>0, TouchingSuffix
    <3> QED
      BY <1>1, <2>0, <3>1
  <2>1. ASSUME NEW y \in Text, Edge(y) PROVE ~Starts(y, f)
    <3> SUFFICES ASSUME Starts(y, f) PROVE FALSE
      OBVIOUS
    <3>1. y = f \o After(y, f) /\ After(y, f) \in Text
      BY <1>0, Parts
    <3>2. y # <<>> /\ y[1] \in Upper
      BY <3>1, WordFirst
    <3> QED
      BY <2>1, <3>2, CharFacts DEF Edge
  <2> HIDE DEF H, T
  \* The text ends.
  <2>2. CASE v = <<>>
    BY <1>0, <2>2, EmptyKept
  \* A field of the first ones, as a word.
  <2>3. ASSUME NEW g \in G, NEW y \in Text, free, Edge(y), v = g \o y, Len(y) < Len(v)
        PROVE  AtOnce(AtOnce(v, free, G), c, {f}) = AtOnce(v, free, H)
    <3> DEFINE w == AtOnce(y, TRUE, G)
    <3>1. w \in Text /\ free = TRUE
      BY <2>3, AtOnceText
    <3>2. AtOnce(v, free, G) = Name(g) \o w /\ AtOnce(v, free, H) = Name(g) \o AtOnce(y, TRUE, H)
      BY <1>0, <2>3, WordReplaced
    <3>3. ~Starts(y, f)
      BY <2>1, <2>3
    <3>4. AtOnce(w, FALSE, {f}) = AtOnce(y, TRUE, H)
      BY <2>0, <2>3, <3>3, FieldFacts
    <3> HIDE DEF w
    <3>5. AtOnce(Name(g) \o w, c, {f}) = Name(g) \o AtOnce(w, FALSE, {f})
      BY <1>0, <3>1, PastName
    <3> QED
      BY <3>2, <3>4, <3>5
  \* A field of the first ones, enclosed.
  <2>4. ASSUME NEW g \in G, NEW y \in Text, v = Enclosed(g) \o y, Len(y) < Len(v)
        PROVE  AtOnce(AtOnce(v, free, G), c, {f}) = AtOnce(v, free, H)
    <3> DEFINE w == AtOnce(y, TRUE, G)
    <3>1. w \in Text
      BY AtOnceText
    <3>2. AtOnce(v, free, G) = Name(g) \o w /\ AtOnce(v, free, H) = Name(g) \o AtOnce(y, TRUE, H)
      <4>1. g \in H
        BY <1>0
      <4>2. AtOnce(Enclosed(g) \o y, free, G) = Name(g) \o AtOnce(y, TRUE, G)
        BY EnclosedReplaced
      <4>3. AtOnce(Enclosed(g) \o y, free, H) = Name(g) \o AtOnce(y, TRUE, H)
        BY <1>0, <4>1, EnclosedReplaced
      <4> QED
        BY <2>4, <4>2, <4>3
    <3>3. ~(Starts(y, f) /\ f \notin G)
      <4> SUFFICES ASSUME Starts(y, f), f \notin G PROVE FALSE
        OBVIOUS
      <4>1. y = f \o After(y, f) /\ After(y, f) \in Text /\ f # g
        BY <1>0, <2>4, Parts
      <4>2. Touching(Enclosed(g) \o (f \o After(y, f)))
        BY <4>1, TouchingHere
      <4> QED
        BY <2>4, <4>1, <4>2
    <3>4. AtOnce(w, FALSE, {f}) = AtOnce(y, TRUE, H)
      BY <2>0, <2>4, <3>3, FieldFacts
    <3> HIDE DEF w
    <3>5. AtOnce(Name(g) \o w, c, {f}) = Name(g) \o AtOnce(w, FALSE, {f})
      BY <1>0, <3>1, PastName
    <3> QED
      BY <3>2, <3>4, <3>5
  \* The second field, as a word.
  <2>5. ASSUME Hits(v, free, G) = {}, NEW y \in Text, free, Edge(y), v = f \o y, Len(y) < Len(v)
        PROVE  AtOnce(AtOnce(v, free, G), c, {f}) = AtOnce(v, free, H)
    <3> DEFINE w == AtOnce(y, FALSE, G)
    <3>1. w \in Text /\ free = TRUE
      BY <2>5, AtOnceText
    <3>2. AtOnce(v, free, G) = f \o w
      BY <1>0, <2>5, Copy
    <3>3. AtOnce(v, free, H) = Name(f) \o AtOnce(y, TRUE, H)
      BY <1>0, <2>5, <3>1, WordReplaced
    <3>4. f \notin G
      <4>1. Stands(v, f, free)
        BY <2>5, StandsParts
      <4> QED
        BY <2>5, <4>1 DEF Hits
    <3>5. Edge(w)
      BY <2>5, <3>4, EdgeKept
    <3>6. c = TRUE
      BY <1>0, <2>5, <3>1, <3>4, Parts
    <3>7. AtOnce(AtOnce(y, TRUE, G), TRUE, {f}) = AtOnce(y, TRUE, H)
      BY <1>0, <2>0, <2>5
    <3>8. w = AtOnce(y, TRUE, G)
      BY <2>5, EdgeFree
    <3> HIDE DEF w
    <3>9. AtOnce(f \o w, TRUE, {f}) = Name(f) \o AtOnce(w, TRUE, {f})
      BY <1>0, <3>1, <3>5, Rules
    <3> QED
      BY <3>2, <3>3, <3>6, <3>7, <3>8, <3>9
  \* The second field, enclosed.
  <2>6. ASSUME Hits(v, free, G) = {}, NEW y \in Text, v = Enclosed(f) \o y, Len(y) < Len(v)
        PROVE  AtOnce(AtOnce(v, free, G), c, {f}) = AtOnce(v, free, H)
    <3> DEFINE w == AtOnce(y, TRUE, G)
               p == <<"%">> \o y
               q == f \o p
    <3>1. w \in Text
      BY AtOnceText
    <3>2. p \in Text /\ q \in Text /\ Edge(p) /\ p[1] = "%"
      BY <1>0, Cons, Parts, CharFacts DEF Edge
    <3>3. v = <<"%">> \o q
      BY <2>6, EnclosedFirst
    <3>4. f \notin G
      <4>1. Starts(v, Enclosed(f))
        BY <1>0, <2>6, Parts
      <4> QED
        BY <2>6, <4>1 DEF Hits
    <3>5. \A z \in Text : p = <<"%">> \o z => z = y
      BY <1>0, Cons
    <3> HIDE DEF p
    <3>6. Hits(q, TRUE, G) = {}
      <4> SUFFICES ASSUME NEW g \in G, Stands(q, g, TRUE) \/ Starts(q, Enclosed(g)) PROVE FALSE
        BY DEF Hits
      <4>1. CASE Stands(q, g, TRUE)
        <5>1. PICK x \in Text : q = g \o x /\ Edge(x)
          BY <3>2, <4>1, StandsParts
        <5>2. g \in Seq(Alnum)
          BY FieldFacts
        <5>3. f = g
          BY <1>0, <3>2, <5>1, <5>2, OneWord
        <5> QED
          BY <3>4, <5>3
      <4>2. CASE Starts(q, Enclosed(g))
        <5>1. q = Enclosed(g) \o After(q, Enclosed(g)) /\ After(q, Enclosed(g)) \in Text
          BY <3>2, <4>2, FieldFacts, Parts
        <5>2. q[1] = "%"
          BY <5>1, EnclosedFirst
        <5> QED
          BY <3>2, <5>2, WordFirst
      <4> QED
        BY <4>1, <4>2
    <3>7. Hits(p, FALSE, G) = {}
      <4> SUFFICES ASSUME NEW g \in G, Starts(p, Enclosed(g)) PROVE FALSE
        BY DEF Hits, Stands
      <4> DEFINE x == After(p, Enclosed(g))
      <4>1. p = Enclosed(g) \o x /\ x \in Text /\ f # g
        BY <3>2, <3>4, FieldFacts, Parts
      <4> HIDE DEF x
      <4>2. Touching(f \o (Enclosed(g) \o x))
        BY <4>1, TouchingHere
      <4>3. Touching(q)
        BY <4>1, <4>2
      <4>4. <<"%">> \in Text
        BY <1>0 DEF Text
      <4> HIDE DEF q
      <4> QED
        BY <3>2, <3>3, <4>3, <4>4, TouchingSuffix
    <3>8. AtOnce(q, TRUE, G) = f \o AtOnce(p, FALSE, G)
      BY <1>0, <3>2, <3>6, Copy
    <3> HIDE DEF q
    <3>9. AtOnce(v, free, G) = <<"%">> \o AtOnce(q, TRUE, G)
      <4>1. Hits(<<"%">> \o q, free, G) = {}
        BY <2>6, <3>3
      <4>2. AtOnce(<<"%">> \o q, free, G) = <<"%">> \o AtOnce(q, "%" \notin Alnum, G)
        BY <1>0, <3>2, <4>1, OtherCopied
      <4>3. ("%" \notin Alnum) = TRUE
        BY CharFacts
      <4> QED
        BY <3>3, <4>2, <4>3
    <3>10. AtOnce(p, FALSE, G) = <<"%">> \o w
      <4>1. AtOnce(<<"%">> \o y, FALSE, G) = <<"%">> \o AtOnce(y, "%" \notin Alnum, G)
        BY <1>0, <3>7, Rules DEF p
      <4>2. ("%" \notin Alnum) = TRUE
        BY CharFacts
      <4> QED
        BY <4>1, <4>2 DEF p
    <3> HIDE DEF w
    <3>11. AtOnce(v, free, G) = Enclosed(f) \o w
      <4>1. Enclosed(f) \o w = <<"%">> \o (f \o (<<"%">> \o w))
        BY <3>1, EnclosedFirst
      <4> QED
        BY <3>8, <3>9, <3>10, <4>1
    <3>12. AtOnce(Enclosed(f) \o w, c, {f}) = Name(f) \o AtOnce(w, TRUE, {f})
      BY <1>0, <3>1, Rules
    <3>13. AtOnce(v, free, H) = Name(f) \o AtOnce(y, TRUE, H)
      <4>1. AtOnce(Enclosed(f) \o y, free, H) = Name(f) \o AtOnce(y, TRUE, H)
        BY <1>0, EnclosedReplaced
      <4> QED
        BY <2>6, <4>1
    <3>14. AtOnce(w, TRUE, {f}) = AtOnce(y, TRUE, H)
      BY <1>0, <2>0, <2>6 DEF w
    <3> QED
      BY <3>11, <3>12, <3>13, <3>14
  \* Any other character.
  <2>7. ASSUME NEW d \in Chars, NEW y \in Text, v = <<d>> \o y, Hits(v, free, H) = {}, Len(y) < Len(v)
        PROVE  AtOnce(AtOnce(v, free, G), c, {f}) = AtOnce(v, free, H)
    <3> DEFINE u == d \notin Alnum
    <3>0. u \in BOOLEAN
      OBVIOUS
    <3>a. \A K \in SUBSET Fields, x \in Text, e \in BOOLEAN :
            Hits(<<d>> \o x, e, K) = {} => AtOnce(<<d>> \o x, e, K) = <<d>> \o AtOnce(x, u, K)
      BY OtherCopied
    <3> HIDE DEF u
    <3> DEFINE w == AtOnce(y, u, G)
    <3>1. w \in Text
      BY <3>0, AtOnceText
    <3>2. Hits(v, free, G) = {}
      BY <2>7 DEF Hits, H
    <3>3. AtOnce(v, free, G) = <<d>> \o w
      BY <2>7, <3>2, <3>a
    <3>4. AtOnce(v, free, H) = <<d>> \o AtOnce(y, u, H)
      BY <1>0, <2>7, <3>a
    <3>5. Hits(AtOnce(v, free, G), c, {f}) = {}
      BY <2>7, NoneJoined DEF H
    <3>6. AtOnce(w, u, {f}) = AtOnce(y, u, H)
      <4>1. <<d>> \in Text
        BY DEF Text
      <4> QED
        BY <2>0, <2>7, <3>0, <4>1
    <3> HIDE DEF w
    <3>7. AtOnce(<<d>> \o w, c, {f}) = <<d>> \o AtOnce(w, u, {f})
      BY <1>0, <3>1, <3>3, <3>5, <3>a
    <3> QED
      BY <3>3, <3>4, <3>6, <3>7
  <2>8. CASE Hits(v, free, G) # {}
    <3>1. \/ v = <<>>
          \/ \E g \in G, y \in Text : free /\ Edge(y) /\ v = g \o y /\ Len(y) < Len(v)
          \/ \E g \in G, y \in Text : v = Enclosed(g) \o y /\ Len(y) < Len(v)
          \/ \E d \in Chars, y \in Text : v = <<d>> \o y /\ Hits(v, free, G) = {} /\ Len(y) < Len(v)
      BY Zenon, Beginnings
    <3> QED
      BY <2>2, <2>3, <2>4, <2>8, <3>1
  <2>9. CASE Hits(v, free, G) = {} /\ Hits(v, free, {f}) # {}
    <3>1. \/ v = <<>>
          \/ \E g \in {f}, y \in Text : free /\ Edge(y) /\ v = g \o y /\ Len(y) < Len(v)
          \/ \E g \in {f}, y \in Text : v = Enclosed(g) \o y /\ Len(y) < Len(v)
          \/ \E d \in Chars, y \in Text : v = <<d>> \o y /\ Hits(v, free, {f}) = {} /\ Len(y) < Len(v)
      <4> DEFINE K == {f}
      <4>1. K \in SUBSET Fields
        BY <1>0
      <4> HIDE DEF K
      <4>2. \/ v = <<>>
            \/ \E g \in K, y \in Text : free /\ Edge(y) /\ v = g \o y /\ Len(y) < Len(v)
            \/ \E g \in K, y \in Text : v = Enclosed(g) \o y /\ Len(y) < Len(v)
            \/ \E d \in Chars, y \in Text : v = <<d>> \o y /\ Hits(v, free, K) = {} /\ Len(y) < Len(v)
        BY Zenon, <4>1, Beginnings
      <4> QED
        BY <4>2 DEF K
    <3> QED
      BY <2>2, <2>5, <2>6, <2>9, <3>1
  <2>10. CASE Hits(v, free, H) = {}
    <3>1. \/ v = <<>>
          \/ \E g \in H, y \in Text : free /\ Edge(y) /\ v = g \o y /\ Len(y) < Len(v)
          \/ \E g \in H, y \in Text : v = Enclosed(g) \o y /\ Len(y) < Len(v)
          \/ \E d \in Chars, y \in Text : v = <<d>> \o y /\ Hits(v, free, H) = {} /\ Len(y) < Len(v)
      BY Zenon, <1>0, Beginnings
    <3>2. ASSUME NEW g \in H, NEW y \in Text, free, Edge(y), v = g \o y PROVE FALSE
      <4>1. Stands(v, g, free)
        BY <1>0, <3>2, StandsParts
      <4> QED
        BY <2>10, <4>1 DEF Hits
    <3>3. ASSUME NEW g \in H, NEW y \in Text, v = Enclosed(g) \o y PROVE FALSE
      <4>1. Starts(v, Enclosed(g))
        BY <1>0, <3>3, FieldFacts, Parts
      <4> QED
        BY <2>10, <4>1 DEF Hits
    <3> QED
      BY <2>2, <2>7, <3>1, <3>2, <3>3
  <2>11. Hits(v, free, H) = Hits(v, free, G) \cup Hits(v, free, {f})
    BY DEF Hits, H
  <2> QED
    BY <2>8, <2>9, <2>10, <2>11
<1>2. T \in SUBSET Text
  OBVIOUS
<1> HIDE DEF T
<1>3. T = Text
  BY <1>1, <1>2, TextInduction
<1> QED
  BY <1>3 DEF T

-----------------------------------------------------------------------------
(* Words.                                                                    *)

Items(s) == {s[i] : i \in 1 .. Len(s)}

LEMMA ItemsCons ==
  /\ Items(<<>>) = {}
  /\ \A a \in Text, s \in Seq(Text) : Items(<<a>> \o s) = {a} \cup Items(s)
<1>1. Items(<<>>) = {}
  BY DEF Items
<1>2. ASSUME NEW a \in Text, NEW s \in Seq(Text)
      PROVE  Items(<<a>> \o s) = {a} \cup Items(s)
  <2>1. <<a>> \in Seq(Text) /\ Len(<<a>>) = 1 /\ <<a>>[1] = a
    OBVIOUS
  <2> DEFINE t == <<a>> \o s
  <2>2. Len(t) = Len(s) + 1 /\ Len(s) \in Nat
        /\ \A i \in 1 .. Len(s) + 1 : t[i] = IF i <= 1 THEN a ELSE s[i - 1]
    BY <2>1, ConcatProperties, LenProperties
  <2> HIDE DEF t
  <2>3. \A i \in 1 .. Len(s) + 1 : t[i] \in {a} \cup Items(s)
    <3> SUFFICES ASSUME NEW i \in 1 .. Len(s) + 1, i # 1 PROVE t[i] \in Items(s)
      BY <2>2
    <3>1. i - 1 \in 1 .. Len(s) /\ t[i] = s[i - 1]
      BY <2>2
    <3> QED
      BY <3>1 DEF Items
  <2>4. \A i \in 1 .. Len(s) : s[i] \in Items(t)
    <3> SUFFICES ASSUME NEW i \in 1 .. Len(s) PROVE s[i] \in Items(t)
      OBVIOUS
    <3>1. i + 1 \in 1 .. Len(s) + 1 /\ ~(i + 1 <= 1) /\ (i + 1) - 1 = i
      BY <2>2
    <3>2. t[i + 1] = s[i]
      BY <2>2, <3>1
    <3> QED
      BY <2>2, <3>1, <3>2 DEF Items
  <2>5. a \in Items(t)
    <3>1. 1 \in 1 .. Len(t) /\ t[1] = a
      BY <2>2
    <3> QED
      BY <3>1 DEF Items
  <2>6. Items(t) \subseteq {a} \cup Items(s)
    BY <2>2, <2>3 DEF Items
  <2>7. {a} \cup Items(s) \subseteq Items(t)
    BY <2>4, <2>5 DEF Items
  <2> QED
    BY <2>6, <2>7 DEF t
<1> QED
  BY <1>1, <1>2

LEMMA EmptyText == <<>> \in Text /\ <<>> \in Seq(Text) /\ Len(<<>>) = 0
BY EmptySeq DEF Text

LEMMA SplitStep ==
  ASSUME NEW class
  PROVE  /\ Split(<<>>, class) = <<<<>>>>
         /\ \A c \in Chars, y \in Text :
              Split(<<c>> \o y, class) =
                IF c \in class THEN <<<<c>> \o Head(Split(y, class))>> \o Tail(Split(y, class))
                ELSE <<<<>>>> \o Split(y, class)
<1> DEFINE D == Text
           Step(q, v) ==
             IF v = <<>> THEN <<<<>>>>
             ELSE LET behind == q[Tail(v)] IN
                  IF Head(v) \in class THEN <<<<Head(v)>> \o Head(behind)>> \o Tail(behind)
                  ELSE <<<<>>>> \o behind
           r[v \in D] == Step(r, v)
<1>1. \A t : Split(t, class) = r[t]
  BY DEF Split
<1> HIDE DEF Step, D
<1>2. r = [v \in D |-> Step(r, v)]
  OBVIOUS
<1> HIDE DEF r
<1>3. \A v \in Text : r[v] = Step(r, v)
  BY <1>2 DEF D
<1>4. r[<<>>] = <<<<>>>>
  BY <1>3, EmptyText DEF Step
<1>5. ASSUME NEW c \in Chars, NEW y \in Text
      PROVE  r[<<c>> \o y] = IF c \in class THEN <<<<c>> \o Head(r[y])>> \o Tail(r[y]) ELSE <<<<>>>> \o r[y]
  <2> DEFINE v == <<c>> \o y
  <2>1. v \in Text /\ v # <<>> /\ Head(v) = c /\ Tail(v) = y
    BY Cons
  <2> HIDE DEF v
  <2>2. r[v] = IF c \in class THEN <<<<c>> \o Head(r[y])>> \o Tail(r[y]) ELSE <<<<>>>> \o r[y]
    BY <1>3, <2>1 DEF Step
  <2> QED
    BY <2>2 DEF v
<1> QED
  BY <1>1, <1>4, <1>5

LEMMA SplitText ==
  ASSUME NEW class
  PROVE  \A v \in Text : /\ Split(v, class) \in Seq(Text) /\ Split(v, class) # <<>>
                         /\ Head(Split(v, class)) \in Text /\ Tail(Split(v, class)) \in Seq(Text)
                         /\ Split(v, class) = <<Head(Split(v, class))>> \o Tail(Split(v, class))
<1> DEFINE T == {v \in Text : Split(v, class) \in Seq(Text) /\ Split(v, class) # <<>>}
<1>1. ASSUME NEW v \in Text, \A y \in Text : Len(y) < Len(v) => y \in T
      PROVE  v \in T
  <2>1. CASE v = <<>>
    <3> DEFINE e == <<>>
    <3>1. e \in Text
      BY EmptyText
    <3>2. Split(v, class) = <<e>>
      BY <2>1, SplitStep
    <3> HIDE DEF e
    <3>3. <<e>> \in Seq(Text) /\ <<e>> # <<>>
      BY <3>1
    <3> QED
      BY <3>2, <3>3
  <2>2. CASE v # <<>>
    <3> DEFINE c == Head(v)
               y == Tail(v)
               s == Split(y, class)
    <3>1. c \in Chars /\ y \in Text /\ v = <<c>> \o y /\ Len(y) < Len(v)
      BY <2>2, Cons, LenProperties DEF Text
    <3> HIDE DEF c, y
    <3>2. s \in Seq(Text) /\ s # <<>>
      BY <1>1, <3>1
    <3>3. Split(v, class) = IF c \in class THEN <<<<c>> \o Head(s)>> \o Tail(s) ELSE <<<<>>>> \o s
      BY <3>1, SplitStep
    <3> HIDE DEF s
    <3>4. Head(s) \in Text /\ Tail(s) \in Seq(Text)
      BY <3>2, HeadTailProperties
    <3>5. <<c>> \o Head(s) \in Text
      BY <3>1, <3>4, Cons
    <3>6. <<<<c>> \o Head(s)>> \o Tail(s) \in Seq(Text) /\ <<<<c>> \o Head(s)>> \o Tail(s) # <<>>
      BY <3>4, <3>5, ConsIn
    <3>7. <<<<>>>> \o s \in Seq(Text) /\ <<<<>>>> \o s # <<>>
      BY <3>2, EmptyText, ConsIn
    <3> QED
      BY <3>3, <3>6, <3>7
  <2> QED
    BY <2>1, <2>2
<1>2. T \in SUBSET Text
  OBVIOUS
<1> HIDE DEF T
<1>3. T = Text
  BY <1>1, <1>2, TextInduction
<1>4. ASSUME NEW v \in Text
      PROVE  Split(v, class) \in Seq(Text) /\ Split(v, class) # <<>>
  BY <1>3 DEF T
<1>5. ASSUME NEW s \in Seq(Text), s # <<>>
      PROVE  Head(s) \in Text /\ Tail(s) \in Seq(Text) /\ s = <<Head(s)>> \o Tail(s)
  BY <1>5, ConsIn
<1> QED
  BY <1>4, <1>5

\* The first and the other stretches of a text that begins with the character c.
LEMMA SplitCons ==
  ASSUME NEW class, NEW c \in Chars, NEW y \in Text
  PROVE  /\ c \in class => /\ Head(Split(<<c>> \o y, class)) = <<c>> \o Head(Split(y, class))
                           /\ Tail(Split(<<c>> \o y, class)) = Tail(Split(y, class))
         /\ c \notin class => /\ Head(Split(<<c>> \o y, class)) = <<>>
                              /\ Tail(Split(<<c>> \o y, class)) = Split(y, class)
<1> DEFINE s == Split(y, class)
           t == Split(<<c>> \o y, class)
<1>1. s \in Seq(Text) /\ Head(s) \in Text /\ Tail(s) \in Seq(Text)
  BY SplitText
<1>2. t = IF c \in class THEN <<<<c>> \o Head(s)>> \o Tail(s) ELSE <<<<>>>> \o s
  BY SplitStep
<1> HIDE DEF s, t
<1>3. <<c>> \o Head(s) \in Text
  BY <1>1, Cons
<1>4. Head(<<<<c>> \o Head(s)>> \o Tail(s)) = <<c>> \o Head(s) /\ Tail(<<<<c>> \o Head(s)>> \o Tail(s)) = Tail(s)
  BY <1>1, <1>3, ConsIn
<1>5. Head(<<<<>>>> \o s) = <<>> /\ Tail(<<<<>>>> \o s) = s
  BY <1>1, EmptyText, ConsIn
<1> QED
  BY <1>2, <1>4, <1>5 DEF s, t

LEMMA SplitEmpty == \A class : Head(Split(<<>>, class)) = <<>> /\ Tail(Split(<<>>, class)) = <<>>
<1> SUFFICES ASSUME NEW class PROVE Head(Split(<<>>, class)) = <<>> /\ Tail(Split(<<>>, class)) = <<>>
  OBVIOUS
<1>1. Split(<<>>, class) = <<<<>>>>
  BY SplitStep
<1> DEFINE e == <<>>
<1>2. <<e>> \in Seq({e}) /\ Head(<<e>>) = e /\ Tail(<<e>>) = <<>>
  OBVIOUS
<1> QED
  BY <1>1, <1>2

\* A word in front of a text makes its first stretch longer.
LEMMA SplitWord ==
  ASSUME NEW class, class \subseteq Chars, NEW u \in Text
  PROVE  \A x \in Text : x \in Seq(class) =>
           /\ Head(Split(x \o u, class)) = x \o Head(Split(u, class))
           /\ Tail(Split(x \o u, class)) = Tail(Split(u, class))
<1> DEFINE P(x) == x \in Seq(class) =>
                     /\ Head(Split(x \o u, class)) = x \o Head(Split(u, class))
                     /\ Tail(Split(x \o u, class)) = Tail(Split(u, class))
           T == {x \in Text : P(x)}
           h == Head(Split(u, class))
<1>0. h \in Text
  BY SplitText
<1>1. ASSUME NEW x \in Text, \A y \in Text : Len(y) < Len(x) => y \in T
      PROVE  x \in T
  <2> SUFFICES ASSUME x \in Seq(class) PROVE P(x)
    OBVIOUS
  <2>1. CASE x = <<>>
    <3>1. <<>> \o u = u /\ <<>> \o h = h
      BY <1>0, ConcatEmptySeq DEF Text
    <3> QED
      BY <2>1, <3>1
  <2>2. CASE x # <<>>
    <3> DEFINE c == Head(x)
               w == Tail(x)
    <3>1. c \in class /\ w \in Seq(class)
      BY <2>2, HeadTailProperties
    <3>2. c \in Chars /\ w \in Text /\ x = <<c>> \o w /\ Len(w) < Len(x) /\ <<c>> \in Text
      BY <2>2, Cons, LenProperties DEF Text
    <3> HIDE DEF c, w, h
    <3>3. x \o u = <<c>> \o (w \o u) /\ w \o u \in Text
      BY <3>2, Assoc, Parts
    <3>4. Head(Split(w \o u, class)) = w \o h /\ Tail(Split(w \o u, class)) = Tail(Split(u, class))
      BY <1>1, <3>1, <3>2 DEF h
    <3> DEFINE z == w \o u
    <3>5. z \in Text /\ x \o u = <<c>> \o z /\ Head(Split(z, class)) = w \o h /\ Tail(Split(z, class)) = Tail(Split(u, class))
      BY <3>3, <3>4
    <3> HIDE DEF z
    <3>6. Head(Split(x \o u, class)) = <<c>> \o (w \o h) /\ Tail(Split(x \o u, class)) = Tail(Split(u, class))
      BY <3>1, <3>2, <3>5, SplitCons
    <3>7. (<<c>> \o w) \o h = <<c>> \o (w \o h)
      BY Z3, <1>0, <3>2, Assoc
    <3> QED
      BY <3>2, <3>6, <3>7 DEF h
  <2> QED
    BY <2>1, <2>2
<1>2. T \in SUBSET Text
  OBVIOUS
<1> HIDE DEF T
<1>3. T = Text
  BY <1>1, <1>2, TextInduction
<1> QED
  BY <1>3 DEF T

\* Before an edge there is no word.
LEMMA SplitEdge ==
  ASSUME NEW class, class \subseteq Alnum, NEW y \in Text, Edge(y)
  PROVE  Head(Split(y, class)) = <<>>
<1>1. CASE y = <<>>
  BY <1>1, SplitEmpty
<1>2. CASE y # <<>>
  <2> DEFINE c == Head(y)
             z == Tail(y)
  <2>1. c \in Chars /\ z \in Text /\ y = <<c>> \o z /\ y[1] = c
    BY <1>2, Cons
  <2> HIDE DEF c, z
  <2>2. c \notin class
    BY <1>2, <2>1 DEF Edge
  <2> QED
    BY <2>1, <2>2, SplitCons
<1> QED
  BY <1>1, <1>2

LEMMA OnlyMacrosStep ==
  /\ OnlyMacros(<<>>) = <<>>
  /\ \A w \in Text, s \in Seq(Text) :
       OnlyMacros(<<w>> \o s) = (IF IsMacro(w) THEN <<w>> ELSE <<>>) \o OnlyMacros(s)
<1> DEFINE D == Seq(Text)
           Step(q, s) ==
             IF s = <<>> THEN <<>>
             ELSE (IF IsMacro(Head(s)) THEN <<Head(s)>> ELSE <<>>) \o q[Tail(s)]
           r[s \in D] == Step(r, s)
<1>1. \A s : OnlyMacros(s) = r[s]
  BY DEF OnlyMacros
<1> HIDE DEF Step, D
<1>2. r = [s \in D |-> Step(r, s)]
  OBVIOUS
<1> HIDE DEF r
<1>3. \A s \in Seq(Text) : r[s] = Step(r, s)
  BY <1>2 DEF D
<1>4. r[<<>>] = <<>>
  BY <1>3, EmptyText DEF Step
<1>5. ASSUME NEW w \in Text, NEW s \in Seq(Text)
      PROVE  r[<<w>> \o s] = (IF IsMacro(w) THEN <<w>> ELSE <<>>) \o r[s]
  <2> DEFINE t == <<w>> \o s
  <2>1. t \in Seq(Text) /\ t # <<>> /\ Head(t) = w /\ Tail(t) = s
    BY ConsIn
  <2> HIDE DEF t
  <2>2. r[t] = (IF IsMacro(w) THEN <<w>> ELSE <<>>) \o r[s]
    BY <1>3, <2>1 DEF Step
  <2> QED
    BY <2>2 DEF t
<1> QED
  BY <1>1, <1>4, <1>5

LEMMA OnlyMacrosItems ==
  \A s \in Seq(Text) : OnlyMacros(s) \in Seq(Text) /\ Items(OnlyMacros(s)) = {w \in Items(s) : IsMacro(w)}
<1> DEFINE T == {s \in Seq(Text) : OnlyMacros(s) \in Seq(Text) /\ Items(OnlyMacros(s)) = {w \in Items(s) : IsMacro(w)}}
<1>1. ASSUME NEW s \in Seq(Text), \A t \in Seq(Text) : Len(t) < Len(s) => t \in T
      PROVE  s \in T
  <2>1. CASE s = <<>>
    BY <2>1, OnlyMacrosStep, EmptyText, ItemsCons
  <2>2. CASE s # <<>>
    <3> DEFINE w == Head(s)
               t == Tail(s)
               m == OnlyMacros(t)
    <3>1. w \in Text /\ t \in Seq(Text) /\ s = <<w>> \o t /\ Len(t) < Len(s)
      BY <2>2, ConsIn, LenProperties
    <3> HIDE DEF w, t
    <3>2. m \in Seq(Text) /\ Items(m) = {u \in Items(t) : IsMacro(u)}
      BY <1>1, <3>1
    <3>3. OnlyMacros(s) = (IF IsMacro(w) THEN <<w>> ELSE <<>>) \o m
      BY <3>1, OnlyMacrosStep
    <3> HIDE DEF m
    <3>4. Items(s) = {w} \cup Items(t)
      BY <3>1, ItemsCons
    <3>5. CASE IsMacro(w)
      <4>1. OnlyMacros(s) = <<w>> \o m
        BY <3>3, <3>5
      <4>2. Items(<<w>> \o m) = {w} \cup Items(m) /\ <<w>> \o m \in Seq(Text)
        BY <3>1, <3>2, ItemsCons, ConsIn
      <4> QED
        BY <3>2, <3>4, <3>5, <4>1, <4>2
    <3>6. CASE ~IsMacro(w)
      <4>1. OnlyMacros(s) = m
        BY <3>2, <3>3, <3>6, ConcatEmptySeq
      <4> QED
        BY <3>2, <3>4, <3>6, <4>1
    <3> QED
      BY <3>5, <3>6
  <2> QED
    BY <2>1, <2>2
<1>2. T \in SUBSET Seq(Text)
  OBVIOUS
<1> HIDE DEF T
<1>3. T = Seq(Text)
  BY <1>1, <1>2, SeqInduction
<1> QED
  BY <1>3 DEF T

-----------------------------------------------------------------------------
(* The scanner.                                                              *)

ScannerState == [token : Seq(Upper), fields : Seq(Text)]

LEMMA ScannerType ==
  ASSUME NEW s \in ScannerState, NEW previous, NEW c \in Chars
  PROVE  ScanChar(s, previous, c) \in ScannerState /\ Flush(s) \in ScannerState
<1>1. s.token \in Seq(Upper) /\ s.fields \in Seq(Text) /\ s.token \in Text
  BY CharFacts, SeqMonotonic DEF ScannerState, Text
<1>2. <<>> \in Seq(Upper)
  BY EmptySeq
<1>3. Append(s.fields, s.token) \in Seq(Text)
  BY <1>1, AppendProperties
<1>4. Flush(s) \in ScannerState
  BY <1>1, <1>2, <1>3 DEF Flush, ScannerState
<1>5. CASE c \in Upper
  <2>1. Append(s.token, c) \in Seq(Upper)
    BY <1>1, <1>5, AppendProperties
  <2>2. [s EXCEPT !.token = Append(@, c)] \in ScannerState
    BY <1>1, <2>1 DEF ScannerState
  <2>3. ScanChar(s, previous, c) \in {[s EXCEPT !.token = Append(@, c)], s}
    BY <1>5, CharFacts DEF ScanChar
  <2> QED
    BY <1>4, <2>2, <2>3
<1>6. CASE c \in Lower
  <2>1. [s EXCEPT !.token = <<>>] \in ScannerState
    BY <1>1, <1>2 DEF ScannerState
  <2>2. ScanChar(s, previous, c) = [s EXCEPT !.token = <<>>]
    BY <1>6, CharFacts DEF ScanChar
  <2> QED
    BY <1>4, <2>1, <2>2
<1>7. CASE c \notin Alpha
  <2>1. ScanChar(s, previous, c) = Flush(s)
    BY <1>7 DEF ScanChar, Alpha
  <2> QED
    BY <1>4, <2>1
<1> QED
  BY <1>5, <1>6, <1>7 DEF Alpha

\* The words still to come, when a word may have begun: after a letter that is not part of a token the
\* rest of the current word is passed over, otherwise it goes on with the token.
Coming(s, previous, v) ==
  LET words == Split(v, Alpha) IN
  IF previous \in Alpha /\ s.token = <<>> THEN Tail(words)
  ELSE <<s.token \o Head(words)>> \o Tail(words)

\* What the scanner will have found at the end.
Expected(s, previous, v) == s.fields \o OnlyMacros(Coming(s, previous, v))

LEMMA ComingType ==
  ASSUME NEW s \in ScannerState, NEW previous, NEW v \in Text
  PROVE  Coming(s, previous, v) \in Seq(Text)
<1>1. s.token \in Text
  BY CharFacts, SeqMonotonic DEF ScannerState, Text
<1>2. Head(Split(v, Alpha)) \in Text /\ Tail(Split(v, Alpha)) \in Seq(Text)
  BY SplitText
<1>3. s.token \o Head(Split(v, Alpha)) \in Text
  BY <1>1, <1>2, Parts
<1>4. <<s.token \o Head(Split(v, Alpha))>> \o Tail(Split(v, Alpha)) \in Seq(Text)
  BY <1>2, <1>3, ConsIn
<1> QED
  BY <1>2, <1>4 DEF Coming

\* A word without lower case and not too long is a macro: what Flush tests.
LEMMA FlushMacro ==
  ASSUME NEW s \in ScannerState, NEW m \in Seq(Text)
  PROVE  /\ Flush(s).token = <<>>
         /\ Flush(s).fields \o m = s.fields \o ((IF IsMacro(s.token) THEN <<s.token>> ELSE <<>>) \o m)
<1>1. s.token \in Seq(Upper) /\ s.fields \in Seq(Text) /\ s.token \in Text
  BY CharFacts, SeqMonotonic DEF ScannerState, Text
<1>2. IsMacro(s.token) <=> s.token # <<>> /\ Len(s.token) <= MaxFieldLen
  BY <1>1 DEF IsMacro
<1>3. CASE IsMacro(s.token)
  <2>1. Flush(s).fields = Append(s.fields, s.token)
    BY <1>2, <1>3 DEF Flush
  <2>2. Append(s.fields, s.token) = s.fields \o <<s.token>> /\ <<s.token>> \in Seq(Text)
    BY <1>1, AppendIsConcat
  <2>3. (s.fields \o <<s.token>>) \o m = s.fields \o (<<s.token>> \o m)
    <3> DEFINE a == s.fields
               b == <<s.token>>
    <3>1. a \in Seq(Text) /\ b \in Seq(Text)
      BY <1>1, <2>2
    <3> HIDE DEF a, b
    <3>2. (a \o b) \o m = a \o (b \o m)
      BY Z3, <3>1, ConcatAssociative
    <3> QED
      BY <3>2 DEF a, b
  <2> QED
    BY <1>3, <2>1, <2>2, <2>3 DEF Flush
<1>4. CASE ~IsMacro(s.token)
  <2>1. Flush(s).fields = s.fields /\ <<>> \o m = m
    BY <1>2, <1>4, ConcatEmptySeq DEF Flush
  <2> QED
    BY <1>4, <2>1 DEF Flush
<1> QED
  BY <1>3, <1>4

\* No character changes what the scanner will have found.
LEMMA ScannerKeeps ==
  ASSUME NEW s \in ScannerState, NEW previous, NEW c \in Chars, NEW y \in Text
  PROVE  Expected(ScanChar(s, previous, c), c, y) = Expected(s, previous, <<c>> \o y)
<1> DEFINE h == Head(Split(y, Alpha))
           r == Tail(Split(y, Alpha))
           H == Head(Split(<<c>> \o y, Alpha))
           R == Tail(Split(<<c>> \o y, Alpha))
           passed == previous \in Alpha /\ s.token = <<>>
           n == ScanChar(s, previous, c)
<1>1. s.token \in Seq(Upper) /\ s.fields \in Seq(Text) /\ s.token \in Text /\ <<c>> \in Text
  BY CharFacts, SeqMonotonic DEF ScannerState, Text
<1>2. h \in Text /\ r \in Seq(Text) /\ Split(y, Alpha) \in Seq(Text) /\ Split(y, Alpha) = <<h>> \o r
  BY SplitText
<1>3. /\ c \in Alpha => H = <<c>> \o h /\ R = r
      /\ c \notin Alpha => H = <<>> /\ R = Split(y, Alpha)
  BY SplitCons
<1>4. Coming(s, previous, <<c>> \o y) = IF passed THEN R ELSE <<s.token \o H>> \o R
  BY DEF Coming
<1>5. Coming(n, c, y) = IF c \in Alpha /\ n.token = <<>> THEN r ELSE <<n.token \o h>> \o r
  BY DEF Coming
<1>6. Append(s.token, c) = s.token \o <<c>> /\ Append(s.token, c) # <<>> /\ (s.token \o <<c>>) \o h = s.token \o (<<c>> \o h)
  <2>1. Append(s.token, c) = s.token \o <<c>>
    BY <1>1, AppendIsConcat DEF Text
  <2>2. (s.token \o <<c>>) \o h = s.token \o (<<c>> \o h)
    BY Zenon, <1>1, <1>2, Assoc
  <2>3. Len(Append(s.token, c)) = Len(s.token) + 1 /\ Len(s.token) \in Nat
    BY <1>1, AppendProperties, LenProperties DEF Text
  <2>4. Len(Append(s.token, c)) # 0
    BY <2>3
  <2>5. Append(s.token, c) # <<>>
    BY <2>4, EmptyText
  <2> QED
    BY <2>1, <2>2, <2>5
<1> HIDE DEF h, r, H, R, n
<1>7. CASE c \in Upper /\ ~passed
  <2>1. c \in Alpha /\ n = [s EXCEPT !.token = Append(@, c)]
    BY <1>7, CharFacts DEF ScanChar, n
  <2>2. n.token = Append(s.token, c) /\ n.fields = s.fields
    BY <2>1 DEF ScannerState
  <2>3. Coming(n, c, y) = <<(s.token \o <<c>>) \o h>> \o r
    BY <1>5, <1>6, <2>2
  <2>4. Coming(s, previous, <<c>> \o y) = <<s.token \o (<<c>> \o h)>> \o r
    BY <1>3, <1>4, <1>7, <2>1
  <2> QED
    BY <1>6, <2>2, <2>3, <2>4 DEF Expected, n
<1>8. CASE c \in Upper /\ passed
  <2>1. c \in Alpha /\ n = s
    BY <1>8, CharFacts DEF ScanChar, n
  <2>2. Coming(n, c, y) = r
    BY <1>5, <1>8, <2>1
  <2>3. Coming(s, previous, <<c>> \o y) = r
    BY <1>3, <1>4, <1>8, <2>1
  <2> QED
    BY <2>1, <2>2, <2>3 DEF Expected, n
<1>9. CASE c \in Lower
  <2>1. c \in Alpha /\ n = [s EXCEPT !.token = <<>>]
    BY <1>9, CharFacts DEF ScanChar, n
  <2>2. n.token = <<>> /\ n.fields = s.fields
    BY <2>1 DEF ScannerState
  <2>3. Coming(n, c, y) = r
    BY <1>5, <2>1, <2>2
  <2>4. OnlyMacros(Coming(s, previous, <<c>> \o y)) = OnlyMacros(r)
    <3>1. CASE passed
      BY <1>3, <1>4, <2>1, <3>1
    <3>2. CASE ~passed
      <4> DEFINE w == s.token \o (<<c>> \o h)
      <4>1. Coming(s, previous, <<c>> \o y) = <<w>> \o r
        BY <1>3, <1>4, <2>1, <3>2
      <4>2. <<c>> \o h \in Text /\ Len(<<c>> \o h) = Len(h) + 1 /\ (<<c>> \o h)[1] = c
        BY <1>2, Cons
      <4>3. w \in Text /\ Len(w) = Len(s.token) + Len(<<c>> \o h)
            /\ \A i \in 1 .. Len(s.token) + Len(<<c>> \o h) :
                 w[i] = IF i <= Len(s.token) THEN s.token[i] ELSE (<<c>> \o h)[i - Len(s.token)]
        BY <1>1, <4>2, ConcatProperties DEF Text
      <4> HIDE DEF w
      <4>4. Len(s.token) \in Nat /\ Len(h) \in Nat
        BY <1>1, <1>2, LenProperties DEF Text
      <4> DEFINE i == Len(s.token) + 1
      <4>5. i \in 1 .. Len(s.token) + Len(<<c>> \o h) /\ ~(i <= Len(s.token)) /\ i - Len(s.token) = 1
        <5> DEFINE k == Len(s.token)
                   l == Len(<<c>> \o h)
        <5>1. k \in Nat /\ l \in Nat \ {0}
          BY <4>2, <4>4
        <5> HIDE DEF k, l
        <5>2. k + 1 \in 1 .. k + l /\ ~(k + 1 <= k) /\ (k + 1) - k = 1
          BY <5>1
        <5> QED
          BY <5>2 DEF k, l
      <4> HIDE DEF i
      <4>6. i \in 1 .. Len(w) /\ w[i] = c
        BY <4>2, <4>3, <4>5
      <4>7. w \notin Seq(Upper)
        <5> SUFFICES ASSUME w \in Seq(Upper) PROVE FALSE
          OBVIOUS
        <5>1. w[i] \in Upper
          BY <4>6, ElementOfSeq
        <5> QED
          BY <1>9, <4>6, <5>1, CharFacts
      <4>8. ~IsMacro(w)
        BY <4>7 DEF IsMacro
      <4>9. OnlyMacros(<<w>> \o r) = <<>> \o OnlyMacros(r)
        BY <1>2, <4>3, <4>8, OnlyMacrosStep
      <4>10. <<>> \o OnlyMacros(r) = OnlyMacros(r)
        BY <1>2, OnlyMacrosItems, ConcatEmptySeq
      <4> QED
        BY <4>1, <4>9, <4>10
    <3> QED
      BY <3>1, <3>2
  <2> QED
    BY <2>2, <2>3, <2>4 DEF Expected, n
<1>10. CASE c \notin Alpha
  <2> DEFINE m == OnlyMacros(Split(y, Alpha))
  <2>1. n = Flush(s)
    BY <1>10 DEF ScanChar, Alpha, n
  <2>2. m \in Seq(Text)
    BY <1>2, OnlyMacrosItems
  <2>3. n.token = <<>> /\ n.fields \o m = s.fields \o ((IF IsMacro(s.token) THEN <<s.token>> ELSE <<>>) \o m)
    BY <2>1, <2>2, FlushMacro
  <2>4. <<>> \o h = h /\ s.token \o <<>> = s.token /\ <<>> \o m = m
    BY <1>1, <1>2, <2>2, ConcatEmptySeq DEF Text
  <2>5. Coming(n, c, y) = Split(y, Alpha)
    BY <1>2, <1>5, <1>10, <2>3, <2>4
  <2>6. OnlyMacros(Coming(s, previous, <<c>> \o y)) = (IF IsMacro(s.token) THEN <<s.token>> ELSE <<>>) \o m
    <3>1. CASE passed
      <4>1. Coming(s, previous, <<c>> \o y) = Split(y, Alpha) /\ s.token = <<>>
        BY <1>3, <1>4, <1>10, <3>1
      <4>2. ~IsMacro(s.token)
        BY <4>1 DEF IsMacro
      <4> QED
        BY <2>4, <4>1, <4>2
    <3>2. CASE ~passed
      <4>1. Coming(s, previous, <<c>> \o y) = <<s.token>> \o Split(y, Alpha)
        BY <1>3, <1>4, <1>10, <2>4, <3>2
      <4> QED
        BY <1>1, <1>2, <4>1, OnlyMacrosStep
    <3> QED
      BY <3>1, <3>2
  <2> QED
    BY <2>3, <2>5, <2>6 DEF Expected, n
<1> QED
  BY <1>7, <1>8, <1>9, <1>10 DEF Alpha

\* At the end nothing comes but the token.
LEMMA ScannerEnd ==
  ASSUME NEW s \in ScannerState, NEW previous
  PROVE  Flush(s).fields = Expected(s, previous, <<>>)
<1>1. s.token \in Seq(Upper) /\ s.fields \in Seq(Text) /\ s.token \in Text
  BY CharFacts, SeqMonotonic DEF ScannerState, Text
<1>2. Head(Split(<<>>, Alpha)) = <<>> /\ Tail(Split(<<>>, Alpha)) = <<>>
  BY SplitEmpty
<1>3. s.token \o <<>> = s.token
  BY <1>1, ConcatEmptySeq DEF Text
<1> DEFINE m == IF IsMacro(s.token) THEN <<s.token>> ELSE <<>>
<1>4. m \in Seq(Text)
  BY <1>1, EmptyText
<1> HIDE DEF m
<1>5. m \o <<>> = m
  BY <1>4, ConcatEmptySeq
<1>6. OnlyMacros(Coming(s, previous, <<>>)) = m
  <2>1. CASE previous \in Alpha /\ s.token = <<>>
    <3>1. Coming(s, previous, <<>>) = <<>>
      BY <1>2, <2>1 DEF Coming
    <3>2. ~IsMacro(s.token)
      BY <2>1 DEF IsMacro
    <3> QED
      BY <3>1, <3>2, OnlyMacrosStep DEF m
  <2>2. CASE ~(previous \in Alpha /\ s.token = <<>>)
    <3>1. Coming(s, previous, <<>>) = <<s.token>> \o <<>>
      BY <1>2, <1>3, <2>2 DEF Coming
    <3>2. OnlyMacros(<<s.token>> \o <<>>) = m \o OnlyMacros(<<>>)
      BY <1>1, EmptyText, OnlyMacrosStep DEF m
    <3> QED
      BY <1>5, <3>1, <3>2, OnlyMacrosStep
  <2> QED
    BY <2>1, <2>2
<1>7. Flush(s).fields \o <<>> = s.fields \o (m \o <<>>)
  BY EmptyText, FlushMacro DEF m
<1>8. Flush(s).fields \in Seq(Text)
  <2>1. "%" \in Chars
    BY CharFacts
  <2> QED
    BY <2>1, ScannerType DEF ScannerState
<1>9. Flush(s).fields \o <<>> = Flush(s).fields
  BY <1>8, ConcatEmptySeq
<1> QED
  BY <1>5, <1>6, <1>7, <1>9 DEF Expected

LEMMA DropStep ==
  ASSUME NEW t \in Text, NEW i \in 1 .. Len(t)
  PROVE  SubSeq(t, i, Len(t)) = <<t[i]>> \o SubSeq(t, i + 1, Len(t)) /\ SubSeq(t, i + 1, Len(t)) \in Text
<1>1. t \in Seq(Chars) /\ Len(t) \in Nat
  BY LenProperties DEF Text
<1>2. i \in 1 .. Len(t) + 1 /\ i \in i - 1 .. Len(t) /\ Len(t) \in i .. Len(t)
  BY <1>1
<1>3. SubSeq(t, i, i) \o SubSeq(t, i + 1, Len(t)) = SubSeq(t, i, Len(t))
  BY <1>1, <1>2, ConcatAdjacentSubSeq
<1>4. \A j \in 1 .. Len(t) : t[j] \in Chars
  BY <1>1, ElementOfSeq
<1>5. SubSeq(t, i, i) \in Seq(Chars) /\ Len(SubSeq(t, i, i)) = 1 /\ SubSeq(t, i, i)[1] = t[i]
  BY <1>1, <1>4, SubSeqProperties
<1>6. SubSeq(t, i, i) = <<t[i]>>
  <2> DEFINE a == SubSeq(t, i, i)
             b == <<t[i]>>
  <2>1. b \in Seq(Chars) /\ Len(b) = 1 /\ b[1] = t[i]
    BY <1>4
  <2> HIDE DEF a, b
  <2>2. a \in Seq(Chars) /\ Len(a) = 1 /\ a[1] = t[i]
    BY <1>5 DEF a
  <2>3. a = b
    BY <2>1, <2>2, SeqEqual
  <2> QED
    BY <2>3 DEF a, b
<1>7. SubSeq(t, i + 1, Len(t)) \in Seq(Chars)
  BY <1>1, <1>4, SubSeqProperties
<1> QED
  BY <1>3, <1>6, <1>7 DEF Text

\* The scanner finds the words of capitals that are no longer than a field's name.
LEMMA GetMacros == \A t \in Text : getMacros(t) = OnlyMacros(Split(t, Alpha))
<1> SUFFICES ASSUME NEW t \in Text PROVE getMacros(t) = OnlyMacros(Split(t, Alpha))
  OBVIOUS
<1> DEFINE before(i) == IF i = 1 THEN "none" ELSE t[i - 1]
           D == 0 .. Len(t)
           Step(q, i) ==
             IF i = 0 THEN [token |-> <<>>, fields |-> <<>>]
             ELSE ScanChar(q[i - 1], before(i), t[i])
           state[i \in D] == Step(state, i)
           last(i) == before(i + 1)
           left(i) == SubSeq(t, i + 1, Len(t))
           all == OnlyMacros(Split(t, Alpha))
           Good(i) == state[i] \in ScannerState /\ Expected(state[i], last(i), left(i)) = all
           T == {i \in Nat : i <= Len(t) => Good(i)}
<1>1. getMacros(t) = Flush(state[Len(t)]).fields
  BY DEF getMacros
<1> HIDE DEF Step, D
<1>a. state = [i \in D |-> Step(state, i)]
  OBVIOUS
<1> HIDE DEF state, all
<1>2. \A i \in 0 .. Len(t) : state[i] =
        IF i = 0 THEN [token |-> <<>>, fields |-> <<>>] ELSE ScanChar(state[i - 1], before(i), t[i])
  BY <1>a DEF D, Step
<1>3. t \in Seq(Chars) /\ Len(t) \in Nat
  BY LenProperties DEF Text
<1>4. Good(0)
  <2> DEFINE s == [token |-> <<>>, fields |-> <<>>]
             h == Head(Split(t, Alpha))
  <2>1. state[0] = s
    BY <1>2, <1>3
  <2>2. s \in ScannerState
    BY EmptySeq DEF ScannerState
  <2>3. left(0) = t
    BY <1>3, SubSeqFull
  <2>4. last(0) = "none" /\ "none" \notin Alpha
    BY MacrosAssumption DEF Chars, Alnum
  <2>5. h \in Text /\ Split(t, Alpha) = <<h>> \o Tail(Split(t, Alpha)) /\ Split(t, Alpha) \in Seq(Text)
    BY SplitText
  <2>6. <<>> \o h = h
    BY <2>5, ConcatEmptySeq DEF Text
  <2>7. Coming(s, "none", t) = Split(t, Alpha)
    BY <2>4, <2>5, <2>6 DEF Coming
  <2>8. <<>> \o all = all
    BY <2>5, OnlyMacrosItems, ConcatEmptySeq DEF all
  <2>9. Expected(s, "none", t) = all
    BY <2>7, <2>8 DEF Expected, all
  <2> QED
    BY <2>1, <2>2, <2>3, <2>4, <2>9
<1>5. ASSUME NEW i \in 1 .. Len(t), Good(i - 1)
      PROVE  Good(i)
  <2> DEFINE s == state[i - 1]
             y == left(i)
  <2>1. t[i] \in Chars
    BY <1>3, ElementOfSeq
  <2>2. left(i - 1) = <<t[i]>> \o y /\ y \in Text
    BY <1>3, DropStep
  <2>a. (i - 1) + 1 = i
    BY <1>3
  <2>b. last(i - 1) = before(i)
    BY <2>a
  <2> HIDE DEF last, left
  <2>3. s \in ScannerState /\ Expected(s, before(i), <<t[i]>> \o y) = all
    BY <1>5, <2>2, <2>b
  <2>4. state[i] = ScanChar(s, before(i), t[i])
    BY <1>2, <1>3
  <2>5. last(i) = t[i]
    BY <1>3 DEF last
  <2> HIDE DEF s, y, before
  <2>6. Expected(ScanChar(s, before(i), t[i]), t[i], y) = all
    BY <2>1, <2>2, <2>3, ScannerKeeps
  <2>7. ScanChar(s, before(i), t[i]) \in ScannerState
    BY <2>1, <2>3, ScannerType
  <2> QED
    BY <2>4, <2>5, <2>6, <2>7 DEF y
<1>6. ASSUME NEW n \in Nat, \A m \in Nat : m < n => m \in T
      PROVE  n \in T
  <2>1. CASE n = 0
    BY <1>4, <2>1
  <2>2. CASE n # 0 /\ n <= Len(t)
    <3>1. n - 1 \in Nat /\ n - 1 < n /\ n - 1 <= Len(t) /\ n \in 1 .. Len(t)
      BY <1>3, <2>2
    <3>2. Good(n - 1)
      BY <1>6, <3>1
    <3> QED
      BY <1>5, <3>1, <3>2
  <2> QED
    BY <2>1, <2>2
<1>7. T \in SUBSET Nat
  OBVIOUS
<1> HIDE DEF T
<1>8. Len(t) \in T
  BY <1>3, <1>6, <1>7, Strong
<1>9. Good(Len(t))
  BY <1>3, <1>8 DEF T
<1>10. left(Len(t)) = <<>>
  <2>1. Len(left(Len(t))) = 0 /\ left(Len(t)) \in Seq(Chars)
    <3>1. \A j \in 1 .. Len(t) : t[j] \in Chars
      BY <1>3, ElementOfSeq
    <3> QED
      BY <1>3, <3>1, SubSeqProperties
  <2> QED
    BY <2>1, EmptySeq
<1> HIDE DEF left, last
<1>11. Expected(state[Len(t)], last(Len(t)), <<>>) = all /\ state[Len(t)] \in ScannerState
  BY <1>9, <1>10
<1>12. Flush(state[Len(t)]).fields = all
  BY <1>11, ScannerEnd
<1> QED
  BY <1>1, <1>12 DEF all

-----------------------------------------------------------------------------
(* Only the words of a text matter.                                          *)

LEMMA SplitField ==
  ASSUME NEW f \in Fields, NEW y \in Text, Edge(y)
  PROVE  /\ Head(Split(f \o y, Alpha)) = f /\ Tail(Split(f \o y, Alpha)) = Tail(Split(y, Alpha))
         /\ Head(Split(f \o y, Alnum)) = f /\ Tail(Split(f \o y, Alnum)) = Tail(Split(y, Alnum))
<1>1. f \in Text /\ f \in Seq(Alnum) /\ f \in Seq(Alpha)
  BY FieldFacts, CharFacts, SeqMonotonic
<1>2. Head(Split(y, Alpha)) = <<>> /\ Head(Split(y, Alnum)) = <<>>
  BY CharFacts, SplitEdge
<1>3. f \o <<>> = f
  BY <1>1, ConcatEmptySeq DEF Text
<1>4. Alpha \subseteq Chars /\ Alnum \subseteq Chars
  BY CharFacts
<1>5. Head(Split(f \o y, Alpha)) = f \o Head(Split(y, Alpha)) /\ Tail(Split(f \o y, Alpha)) = Tail(Split(y, Alpha))
  BY <1>1, <1>4, SplitWord
<1>6. Head(Split(f \o y, Alnum)) = f \o Head(Split(y, Alnum)) /\ Tail(Split(f \o y, Alnum)) = Tail(Split(y, Alnum))
  BY <1>1, <1>4, SplitWord
<1> QED
  BY <1>2, <1>3, <1>5, <1>6

LEMMA SplitEnclosed ==
  ASSUME NEW f \in Fields, NEW y \in Text
  PROVE  Items(Tail(Split(Enclosed(f) \o y, Alpha))) = {f} \cup Items(Split(y, Alpha))
<1> DEFINE p == <<"%">> \o y
           q == f \o p
<1>1. "%" \in Chars /\ "%" \notin Alpha /\ f \in Text
  BY CharFacts, FieldFacts
<1>2. p \in Text /\ q \in Text /\ Edge(p)
  BY <1>1, Cons, Parts, CharFacts DEF Edge
<1>3. Tail(Split(p, Alpha)) = Split(y, Alpha)
  BY <1>1, SplitCons
<1>4. Enclosed(f) \o y = <<"%">> \o q
  BY EnclosedFirst
<1> HIDE DEF p
<1>5. Head(Split(q, Alpha)) = f /\ Tail(Split(q, Alpha)) = Split(y, Alpha)
  BY <1>2, <1>3, SplitField
<1> HIDE DEF q
<1>6. Split(y, Alpha) \in Seq(Text) /\ Split(q, Alpha) = <<f>> \o Split(y, Alpha)
  BY <1>2, <1>5, SplitText
<1>7. Items(Split(q, Alpha)) = {f} \cup Items(Split(y, Alpha))
  BY <1>1, <1>6, ItemsCons
<1>8. Tail(Split(<<"%">> \o q, Alpha)) = Split(q, Alpha)
  BY <1>1, <1>2, SplitCons
<1> QED
  BY <1>4, <1>7, <1>8

LEMMA SplitItems ==
  ASSUME NEW class, NEW v \in Text
  PROVE  Items(Split(v, class)) = {Head(Split(v, class))} \cup Items(Tail(Split(v, class)))
<1> DEFINE h == Head(Split(v, class))
           r == Tail(Split(v, class))
<1>1. h \in Text /\ r \in Seq(Text) /\ Split(v, class) = <<h>> \o r
  BY SplitText
<1> HIDE DEF h, r
<1>2. Items(<<h>> \o r) = {h} \cup Items(r)
  BY <1>1, ItemsCons
<1> QED
  BY <1>1, <1>2 DEF h, r

\* The fields among the words of a text are all that the rewriting needs.
LEMMA Enough ==
  ASSUME NEW G \in SUBSET Fields
  PROVE  \A v \in Text, free \in BOOLEAN :
           (IF free THEN Items(Split(v, Alpha)) ELSE Items(Tail(Split(v, Alpha)))) \cap Fields \subseteq G
           => AtOnce(v, free, G) = AtOnce(v, free, Fields)
<1> DEFINE Here(v, free) == IF free THEN Items(Split(v, Alpha)) ELSE Items(Tail(Split(v, Alpha)))
           P(v) == \A free \in BOOLEAN : Here(v, free) \cap Fields \subseteq G => AtOnce(v, free, G) = AtOnce(v, free, Fields)
           T == {v \in Text : P(v)}
<1>0. Fields \in SUBSET Fields /\ <<>> \notin Fields
  BY MacrosAssumption
<1>1. ASSUME NEW v \in Text, \A y \in Text : Len(y) < Len(v) => y \in T
      PROVE  v \in T
  <2> SUFFICES ASSUME NEW free \in BOOLEAN, Here(v, free) \cap Fields \subseteq G
               PROVE  AtOnce(v, free, G) = AtOnce(v, free, Fields)
    OBVIOUS
  <2>0. Items(Split(v, Alpha)) = {Head(Split(v, Alpha))} \cup Items(Tail(Split(v, Alpha)))
    BY SplitItems
  <2>1. CASE v = <<>>
    BY <1>0, <2>1, Rules
  <2>2. ASSUME NEW f \in Fields, NEW y \in Text, free, Edge(y), v = f \o y, Len(y) < Len(v)
        PROVE  AtOnce(v, free, G) = AtOnce(v, free, Fields)
    <3>1. Head(Split(v, Alpha)) = f /\ Tail(Split(v, Alpha)) = Tail(Split(y, Alpha))
      BY <2>2, SplitField
    <3>2. Items(Split(y, Alpha)) = {<<>>} \cup Items(Tail(Split(y, Alpha)))
      BY <2>2, CharFacts, SplitEdge, SplitItems
    <3>3. f \in G /\ Items(Split(y, Alpha)) \cap Fields \subseteq G
      BY <1>0, <2>0, <2>2, <3>1, <3>2
    <3>4. AtOnce(y, TRUE, G) = AtOnce(y, TRUE, Fields)
      BY <1>1, <2>2, <3>3
    <3>5. free = TRUE
      BY <2>2
    <3>6. AtOnce(f \o y, TRUE, G) = Name(f) \o AtOnce(y, TRUE, G)
      BY <2>2, <3>3, Rules
    <3>7. AtOnce(f \o y, TRUE, Fields) = Name(f) \o AtOnce(y, TRUE, Fields)
      BY <1>0, <2>2, Rules
    <3> QED
      BY <2>2, <3>4, <3>5, <3>6, <3>7
  <2>3. ASSUME NEW f \in Fields, NEW y \in Text, v = Enclosed(f) \o y, Len(y) < Len(v)
        PROVE  AtOnce(v, free, G) = AtOnce(v, free, Fields)
    <3>1. Items(Tail(Split(v, Alpha))) = {f} \cup Items(Split(y, Alpha))
      BY <2>3, SplitEnclosed
    <3>2. f \in G /\ Items(Split(y, Alpha)) \cap Fields \subseteq G
      BY <2>0, <3>1
    <3>3. AtOnce(y, TRUE, G) = AtOnce(y, TRUE, Fields)
      BY <1>1, <2>3, <3>2
    <3>4. AtOnce(Enclosed(f) \o y, free, G) = Name(f) \o AtOnce(y, TRUE, G)
      BY <3>2, EnclosedReplaced
    <3>5. AtOnce(Enclosed(f) \o y, free, Fields) = Name(f) \o AtOnce(y, TRUE, Fields)
      BY <1>0, EnclosedReplaced
    <3> QED
      BY <2>3, <3>3, <3>4, <3>5
  <2>4. ASSUME NEW c \in Chars, NEW y \in Text, v = <<c>> \o y, Hits(v, free, Fields) = {}, Len(y) < Len(v)
        PROVE  AtOnce(v, free, G) = AtOnce(v, free, Fields)
    <3> DEFINE u == c \notin Alnum
    <3>1. u \in BOOLEAN /\ u = (c \notin Alnum)
      OBVIOUS
    <3>2. Hits(v, free, G) = {}
      BY <2>4 DEF Hits
    <3>3. \A K \in SUBSET Fields : Hits(<<c>> \o y, free, K) = {} => AtOnce(<<c>> \o y, free, K) = <<c>> \o AtOnce(y, u, K)
      BY OtherCopied
    <3> HIDE DEF u
    <3>4. Here(y, u) \cap Fields \subseteq G
      <4>1. Items(Split(y, Alpha)) = {Head(Split(y, Alpha))} \cup Items(Tail(Split(y, Alpha)))
        BY SplitItems
      <4>2. CASE c \in Alpha
        <5>1. Tail(Split(v, Alpha)) = Tail(Split(y, Alpha))
          BY <2>4, <4>2, SplitCons
        <5>2. ~u
          BY <3>1, <4>2, CharFacts
        <5> QED
          BY <2>0, <5>1, <5>2
      <4>3. CASE c \notin Alpha
        <5>1. Tail(Split(v, Alpha)) = Split(y, Alpha)
          BY <2>4, <4>3, SplitCons
        <5> QED
          BY <2>0, <4>1, <5>1
      <4> QED
        BY <4>2, <4>3
    <3>5. AtOnce(y, u, G) = AtOnce(y, u, Fields)
      BY <1>1, <2>4, <3>1, <3>4
    <3>6. AtOnce(v, free, G) = <<c>> \o AtOnce(y, u, G)
      BY <2>4, <3>2, <3>3
    <3>7. AtOnce(v, free, Fields) = <<c>> \o AtOnce(y, u, Fields)
      BY <1>0, <2>4, <3>3
    <3> QED
      BY <3>5, <3>6, <3>7
  <2>5. \/ v = <<>>
        \/ \E f \in Fields, y \in Text : free /\ Edge(y) /\ v = f \o y /\ Len(y) < Len(v)
        \/ \E f \in Fields, y \in Text : v = Enclosed(f) \o y /\ Len(y) < Len(v)
        \/ \E c \in Chars, y \in Text : v = <<c>> \o y /\ Hits(v, free, Fields) = {} /\ Len(y) < Len(v)
    <3>1. Fields \in SUBSET Fields
      OBVIOUS
    <3> QED
      BY Zenon, <3>1, Beginnings
  <2> QED
    BY <2>1, <2>2, <2>3, <2>4, <2>5
<1>2. T \in SUBSET Text
  OBVIOUS
<1> HIDE DEF T
<1>3. T = Text
  BY <1>1, <1>2, TextInduction
<1> QED
  BY <1>3 DEF T

\* A text begins with its first word, and an edge follows.
LEMMA FirstWord ==
  \A v \in Text : \E y \in Text : v = Head(Split(v, Alnum)) \o y /\ Edge(y)
<1> DEFINE T == {v \in Text : \E y \in Text : v = Head(Split(v, Alnum)) \o y /\ Edge(y)}
<1>1. ASSUME NEW v \in Text, \A y \in Text : Len(y) < Len(v) => y \in T
      PROVE  v \in T
  <2>0. <<>> \o v = v
    BY ConcatEmptySeq DEF Text
  <2>1. CASE v = <<>>
    <3>1. Edge(v) /\ Head(Split(v, Alnum)) = <<>>
      BY <2>1, SplitEmpty DEF Edge
    <3> QED
      BY <2>0, <3>1
  <2>2. CASE v # <<>>
    <3> DEFINE c == Head(v)
               z == Tail(v)
               h == Head(Split(z, Alnum))
    <3>1. c \in Chars /\ z \in Text /\ v = <<c>> \o z /\ Len(z) < Len(v) /\ v[1] = c /\ <<c>> \in Text
      BY <2>2, Cons, LenProperties DEF Text
    <3> HIDE DEF c, z
    <3>2. CASE c \in Alnum
      <4>1. PICK y \in Text : z = h \o y /\ Edge(y)
        BY <1>1, <3>1
      <4>2. Head(Split(v, Alnum)) = <<c>> \o h /\ h \in Text
        BY <3>1, <3>2, SplitCons, SplitText
      <4> HIDE DEF h
      <4>3. (<<c>> \o h) \o y = <<c>> \o (h \o y)
        BY Z3, <3>1, <4>2, Assoc
      <4> QED
        BY <3>1, <4>1, <4>2, <4>3
    <3>3. CASE c \notin Alnum
      <4>1. Head(Split(v, Alnum)) = <<>> /\ Edge(v)
        BY <3>1, <3>3, SplitCons DEF Edge
      <4> QED
        BY <2>0, <4>1
    <3> QED
      BY <3>2, <3>3
  <2> QED
    BY <2>1, <2>2
<1>2. T \in SUBSET Text
  OBVIOUS
<1> HIDE DEF T
<1>3. T = Text
  BY <1>1, <1>2, TextInduction
<1> QED
  BY <1>3 DEF T

\* The words of the new code.
Renamed(w) == IF w \in Fields THEN Name(w) ELSE w
AllRenamed(s) == [i \in DOMAIN s |-> Renamed(s[i])]

LEMMA RenamedText == \A w \in Text : Renamed(w) \in Text
BY FieldFacts DEF Renamed

LEMMA RenamedCons ==
  /\ AllRenamed(<<>>) = <<>>
  /\ \A w \in Text, s \in Seq(Text) : AllRenamed(<<w>> \o s) = <<Renamed(w)>> \o AllRenamed(s)
<1>1. ASSUME NEW s \in Seq(Text)
      PROVE  AllRenamed(s) \in Seq(Text) /\ Len(AllRenamed(s)) = Len(s)
             /\ \A i \in 1 .. Len(s) : AllRenamed(s)[i] = Renamed(s[i])
  <2>1. DOMAIN s = 1 .. Len(s) /\ Len(s) \in Nat
    BY LenProperties
  <2>2. \A i \in 1 .. Len(s) : Renamed(s[i]) \in Text
    <3>1. \A i \in 1 .. Len(s) : s[i] \in Text
      BY ElementOfSeq
    <3> QED
      BY <3>1, RenamedText
  <2>3. AllRenamed(s) = [i \in 1 .. Len(s) |-> Renamed(s[i])]
    BY <2>1 DEF AllRenamed
  <2>4. AllRenamed(s) \in [1 .. Len(s) -> Text]
    BY <2>2, <2>3
  <2>5. AllRenamed(s) \in Seq(Text) /\ Len(AllRenamed(s)) = Len(s)
    BY <2>1, <2>4
  <2> QED
    BY <2>3, <2>5
<1>2. AllRenamed(<<>>) = <<>>
  <2>1. Len(AllRenamed(<<>>)) = 0 /\ AllRenamed(<<>>) \in Seq(Text)
    BY <1>1, EmptyText
  <2> QED
    BY <2>1, EmptySeq
<1>3. ASSUME NEW w \in Text, NEW s \in Seq(Text)
      PROVE  AllRenamed(<<w>> \o s) = <<Renamed(w)>> \o AllRenamed(s)
  <2> DEFINE t == <<w>> \o s
             r == AllRenamed(s)
             a == AllRenamed(t)
             b == <<Renamed(w)>> \o r
  <2>1. Len(s) \in Nat /\ <<w>> \in Seq(Text) /\ Len(<<w>>) = 1 /\ <<w>>[1] = w
    BY LenProperties
  <2>2. <<Renamed(w)>> \in Seq(Text) /\ Len(<<Renamed(w)>>) = 1 /\ <<Renamed(w)>>[1] = Renamed(w)
    BY RenamedText
  <2>3. t \in Seq(Text) /\ Len(t) = Len(s) + 1 /\ \A i \in 1 .. Len(s) + 1 : t[i] = IF i <= 1 THEN w ELSE s[i - 1]
    BY <2>1, ConcatProperties
  <2>4. r \in Seq(Text) /\ Len(r) = Len(s) /\ \A i \in 1 .. Len(s) : r[i] = Renamed(s[i])
    BY <1>1
  <2> HIDE DEF t
  <2>5. a \in Seq(Text) /\ Len(a) = Len(s) + 1 /\ \A i \in 1 .. Len(s) + 1 : a[i] = Renamed(t[i])
    BY <1>1, <2>3
  <2> HIDE DEF r
  <2>6. b \in Seq(Text) /\ Len(b) = Len(s) + 1 /\ \A i \in 1 .. Len(s) + 1 : b[i] = IF i <= 1 THEN Renamed(w) ELSE r[i - 1]
    BY <2>1, <2>2, <2>4, ConcatProperties
  <2> HIDE DEF a, b
  <2>7. \A i \in 1 .. Len(s) + 1 : a[i] = b[i]
    <3> SUFFICES ASSUME NEW i \in 1 .. Len(s) + 1 PROVE a[i] = b[i]
      OBVIOUS
    <3>1. CASE i = 1
      BY <2>1, <2>3, <2>5, <2>6, <3>1
    <3>2. CASE i # 1
      <4>1. i - 1 \in 1 .. Len(s) /\ ~(i <= 1)
        BY <2>1, <3>2
      <4> QED
        BY <2>3, <2>4, <2>5, <2>6, <4>1
    <3> QED
      BY <3>1, <3>2
  <2>8. a = b
    BY <2>5, <2>6, <2>7, SeqEqual
  <2> QED
    BY <2>8 DEF a, b, t, r
<1> QED
  BY <1>2, <1>3

NoPercent(v) == \A i \in 1 .. Len(v) : v[i] # "%"

LEMMA NoPercentParts ==
  ASSUME NEW x \in Text, NEW y \in Text, NoPercent(x \o y)
  PROVE  NoPercent(y) /\ (x # <<>> => x[1] # "%")
<1>1. Len(x) \in Nat /\ Len(y) \in Nat
  BY LenProperties DEF Text
<1> DEFINE t == x \o y
<1>2. Len(t) = Len(x) + Len(y) /\ \A i \in 1 .. Len(x) + Len(y) : t[i] = IF i <= Len(x) THEN x[i] ELSE y[i - Len(x)]
  BY ConcatProperties DEF Text
<1>3. \A i \in 1 .. Len(x) + Len(y) : t[i] # "%"
  BY <1>2 DEF NoPercent
<1> HIDE DEF t
<1>4. NoPercent(y)
  <2> SUFFICES ASSUME NEW i \in 1 .. Len(y) PROVE y[i] # "%"
    BY DEF NoPercent
  <2>1. Len(x) + i \in 1 .. Len(x) + Len(y) /\ ~(Len(x) + i <= Len(x)) /\ (Len(x) + i) - Len(x) = i
    BY <1>1
  <2>2. t[Len(x) + i] = y[i]
    BY <1>2, <2>1
  <2> QED
    BY <1>3, <2>1, <2>2
<1>5. ASSUME x # <<>> PROVE x[1] # "%"
  <2>1. Len(x) # 0
    BY <1>5, EmptySeq DEF Text
  <2>2. 1 \in 1 .. Len(x) + Len(y) /\ 1 <= Len(x)
    BY <1>1, <2>1
  <2>3. t[1] = x[1]
    BY <1>2, <2>2
  <2> QED
    BY <1>3, <2>2, <2>3
<1> QED
  BY <1>4, <1>5

LEMMA WordsRenamed ==
  \A v \in Text : NoPercent(v) => Split(AtOnce(v, TRUE, Fields), Alnum) = AllRenamed(Split(v, Alnum))
<1> DEFINE W(v) == Split(v, Alnum)
           A(v, free) == AtOnce(v, free, Fields)
           P(v) == NoPercent(v) => \A free \in BOOLEAN :
                     /\ Head(W(A(v, free))) = IF free THEN Renamed(Head(W(v))) ELSE Head(W(v))
                     /\ Tail(W(A(v, free))) = AllRenamed(Tail(W(v)))
           T == {v \in Text : P(v)}
<1>0. /\ \A v \in Text, free \in BOOLEAN : A(v, free) \in Text
      /\ \A v \in Text : Head(W(v)) \in Text /\ Tail(W(v)) \in Seq(Text) /\ W(v) = <<Head(W(v))>> \o Tail(W(v))
  BY AtOnceText, SplitText
<1>a. Fields \in SUBSET Fields
  OBVIOUS
<1>1. Renamed(<<>>) = <<>>
  BY MacrosAssumption DEF Renamed
<1>2. ASSUME NEW v \in Text, \A y \in Text : Len(y) < Len(v) => y \in T
      PROVE  v \in T
  <2> SUFFICES ASSUME NoPercent(v), NEW free \in BOOLEAN
               PROVE  /\ Head(W(A(v, free))) = IF free THEN Renamed(Head(W(v))) ELSE Head(W(v))
                      /\ Tail(W(A(v, free))) = AllRenamed(Tail(W(v)))
    OBVIOUS
  <2>0. ASSUME NEW x \in Text, NEW y \in Text, v = x \o y, Len(y) < Len(v), NEW u \in BOOLEAN
        PROVE  /\ Head(W(A(y, u))) = IF u THEN Renamed(Head(W(y))) ELSE Head(W(y))
               /\ Tail(W(A(y, u))) = AllRenamed(Tail(W(y)))
    <3>1. NoPercent(y)
      BY <2>0, NoPercentParts
    <3>2. y \in T
      BY <1>2, <2>0
    <3> QED
      BY <2>0, <3>1, <3>2
  <2>1. CASE v = <<>>
    <3>1. A(v, free) = <<>>
      BY <2>1, Rules
    <3>2. Head(W(<<>>)) = <<>> /\ Tail(W(<<>>)) = <<>>
      BY SplitEmpty
    <3> QED
      BY <1>1, <2>1, <3>1, <3>2, RenamedCons
  <2>2. ASSUME NEW f \in Fields, NEW y \in Text, free, Edge(y), v = f \o y, Len(y) < Len(v)
        PROVE  /\ Head(W(A(v, free))) = IF free THEN Renamed(Head(W(v))) ELSE Head(W(v))
               /\ Tail(W(A(v, free))) = AllRenamed(Tail(W(v)))
    <3> DEFINE w == A(y, TRUE)
    <3>1. w \in Text /\ A(v, free) = Name(f) \o w
      <4>1. AtOnce(f \o y, TRUE, Fields) = Name(f) \o AtOnce(y, TRUE, Fields) /\ free = TRUE
        BY <2>2, Rules
      <4> QED
        BY <1>0, <2>2, <4>1
    <3>2. Head(W(v)) = f /\ Tail(W(v)) = Tail(W(y))
      BY <2>2, SplitField
    <3>3. Head(W(y)) = <<>>
      BY <2>2, SplitEdge
    <3>4. Head(W(w)) = <<>> /\ Tail(W(w)) = AllRenamed(Tail(W(y)))
      BY <1>1, <2>0, <2>2, <3>3, FieldFacts
    <3> HIDE DEF w
    <3>5. Head(W(Name(f) \o w)) = Name(f) \o Head(W(w)) /\ Tail(W(Name(f) \o w)) = Tail(W(w))
      BY <3>1, FieldFacts, CharFacts, SplitWord
    <3>6. Name(f) \o <<>> = Name(f)
      BY FieldFacts, ConcatEmptySeq DEF Text
    <3>7. Renamed(f) = Name(f)
      BY DEF Renamed
    <3> QED
      BY <2>2, <3>1, <3>2, <3>4, <3>5, <3>6, <3>7
  <2>3. ASSUME NEW f \in Fields, NEW y \in Text, v = Enclosed(f) \o y
        PROVE  FALSE
    <3>1. Enclosed(f) \in Text /\ Enclosed(f) # <<>> /\ Enclosed(f)[1] = "%"
      <4>1. Len(Enclosed(f)) # 0
        BY FieldFacts
      <4> QED
        BY <4>1, FieldFacts, EmptyText
    <3> QED
      BY <2>3, <3>1, NoPercentParts
  <2>4. ASSUME NEW c \in Chars, NEW y \in Text, v = <<c>> \o y, Hits(v, free, Fields) = {}, Len(y) < Len(v)
        PROVE  /\ Head(W(A(v, free))) = IF free THEN Renamed(Head(W(v))) ELSE Head(W(v))
               /\ Tail(W(A(v, free))) = AllRenamed(Tail(W(v)))
    <3> DEFINE u == c \notin Alnum
               w == A(y, u)
    <3>1. u \in BOOLEAN /\ u = (c \notin Alnum) /\ <<c>> \in Text
      BY DEF Text
    <3>2. A(v, free) = <<c>> \o w
      BY <2>4, OtherCopied
    <3> HIDE DEF u
    <3>3. w \in Text
      BY <1>0, <3>1
    <3>4. /\ Head(W(w)) = IF u THEN Renamed(Head(W(y))) ELSE Head(W(y))
          /\ Tail(W(w)) = AllRenamed(Tail(W(y)))
      BY <2>0, <2>4, <3>1
    <3> HIDE DEF w
    <3>5. CASE c \notin Alnum
      <4>1. Head(W(<<c>> \o w)) = <<>> /\ Tail(W(<<c>> \o w)) = W(w)
        BY <3>3, <3>5, SplitCons
      <4>2. Head(W(v)) = <<>> /\ Tail(W(v)) = W(y)
        BY <2>4, <3>5, SplitCons
      <4>3. W(w) = <<Renamed(Head(W(y)))>> \o AllRenamed(Tail(W(y)))
        BY <1>0, <3>1, <3>3, <3>4, <3>5
      <4>4. W(y) = <<Head(W(y))>> \o Tail(W(y)) /\ Head(W(y)) \in Text /\ Tail(W(y)) \in Seq(Text)
        BY <1>0
      <4> HIDE DEF W
      <4>5. AllRenamed(W(y)) = <<Renamed(Head(W(y)))>> \o AllRenamed(Tail(W(y)))
        BY <4>4, RenamedCons
      <4> QED
        BY <1>1, <3>2, <4>1, <4>2, <4>3, <4>5
    <3>6. CASE c \in Alnum
      <4>1. Head(W(<<c>> \o w)) = <<c>> \o Head(W(w)) /\ Tail(W(<<c>> \o w)) = Tail(W(w))
        BY <3>3, <3>6, SplitCons
      <4>2. Head(W(v)) = <<c>> \o Head(W(y)) /\ Tail(W(v)) = Tail(W(y))
        BY <2>4, <3>6, SplitCons
      <4>3. Head(W(w)) = Head(W(y)) /\ Tail(W(w)) = AllRenamed(Tail(W(y)))
        BY <3>1, <3>4, <3>6
      <4>4. free => Head(W(v)) \notin Fields
        <5> SUFFICES ASSUME free, Head(W(v)) \in Fields PROVE FALSE
          OBVIOUS
        <5>1. PICK z \in Text : v = Head(W(v)) \o z /\ Edge(z)
          BY FirstWord
        <5> DEFINE f == Head(W(v))
        <5>2. f \in Fields /\ v = f \o z
          BY <5>1
        <5> HIDE DEF f
        <5>3. Stands(v, f, free)
          BY <5>1, <5>2, StandsParts
        <5> QED
          BY <2>4, <5>2, <5>3 DEF Hits
      <4> HIDE DEF W
      <4>5. (IF free THEN Renamed(Head(W(v))) ELSE Head(W(v))) = Head(W(v))
        BY <4>4 DEF Renamed
      <4> QED
        BY <3>2, <4>1, <4>2, <4>3, <4>5
    <3> QED
      BY <3>5, <3>6
  <2>5. \/ v = <<>>
        \/ \E f \in Fields, y \in Text : free /\ Edge(y) /\ v = f \o y /\ Len(y) < Len(v)
        \/ \E f \in Fields, y \in Text : v = Enclosed(f) \o y /\ Len(y) < Len(v)
        \/ \E c \in Chars, y \in Text : v = <<c>> \o y /\ Hits(v, free, Fields) = {} /\ Len(y) < Len(v)
    BY <1>a, Beginnings
  <2> QED
    BY <2>1, <2>2, <2>3, <2>4, <2>5
<1>3. T \in SUBSET Text
  OBVIOUS
<1> HIDE DEF T
<1>4. T = Text
  BY <1>2, <1>3, TextInduction
<1>5. ASSUME NEW v \in Text, NoPercent(v)
      PROVE  W(A(v, TRUE)) = AllRenamed(W(v))
  <2>1. /\ Head(W(A(v, TRUE))) = Renamed(Head(W(v)))
        /\ Tail(W(A(v, TRUE))) = AllRenamed(Tail(W(v)))
    BY <1>4, <1>5 DEF T
  <2>2. W(A(v, TRUE)) = <<Head(W(A(v, TRUE)))>> \o Tail(W(A(v, TRUE)))
    BY <1>0
  <2>3. W(v) = <<Head(W(v))>> \o Tail(W(v)) /\ Head(W(v)) \in Text /\ Tail(W(v)) \in Seq(Text)
    BY <1>0
  <2> HIDE DEF W, A
  <2>4. AllRenamed(W(v)) = <<Renamed(Head(W(v)))>> \o AllRenamed(Tail(W(v)))
    BY <2>3, RenamedCons
  <2> QED
    BY <2>1, <2>2, <2>4
<1> QED
  BY <1>5

-----------------------------------------------------------------------------
(* The loop of processRecordCb over the macros.                              *)

LEMMA NoField == \A v \in Text, free \in BOOLEAN : AtOnce(v, free, {}) = v
<1> DEFINE T == {v \in Text : \A free \in BOOLEAN : AtOnce(v, free, {}) = v}
<1>1. ASSUME NEW v \in Text, \A y \in Text : Len(y) < Len(v) => y \in T
      PROVE  v \in T
  <2> SUFFICES ASSUME NEW free \in BOOLEAN PROVE AtOnce(v, free, {}) = v
    OBVIOUS
  <2>1. CASE v = <<>>
    BY <2>1, Rules
  <2>2. ASSUME NEW c \in Chars, NEW y \in Text, v = <<c>> \o y, Hits(v, free, {}) = {}, Len(y) < Len(v)
        PROVE  AtOnce(v, free, {}) = v
    <3> DEFINE u == c \notin Alnum
    <3>1. u \in BOOLEAN
      OBVIOUS
    <3>2. AtOnce(<<c>> \o y, free, {}) = <<c>> \o AtOnce(y, u, {})
      BY <2>2, OtherCopied
    <3> HIDE DEF u
    <3>3. AtOnce(y, u, {}) = y
      BY <1>1, <2>2, <3>1
    <3> QED
      BY <2>2, <3>2, <3>3
  <2>3. \/ v = <<>>
        \/ \E f \in {}, y \in Text : free /\ Edge(y) /\ v = f \o y /\ Len(y) < Len(v)
        \/ \E f \in {}, y \in Text : v = Enclosed(f) \o y /\ Len(y) < Len(v)
        \/ \E c \in Chars, y \in Text : v = <<c>> \o y /\ Hits(v, free, {}) = {} /\ Len(y) < Len(v)
    BY Beginnings
  <2> QED
    BY <2>1, <2>2, <2>3
<1>2. T \in SUBSET Text
  OBVIOUS
<1> HIDE DEF T
<1>3. T = Text
  BY <1>1, <1>2, TextInduction
<1> QED
  BY <1>3 DEF T

\* The macros are those of the text, and the code is the text with the fields among those taken so far
\* replaced all at once; they are all taken when the loop ends.
Taken(done) ==
  /\ getMacros(text) = done \o todo
  /\ ~Touching(text) => rewritten = AtOnce(text, TRUE, Items(done) \cap Fields)

LoopInv ==
  /\ looping \/ rewritten # <<>> => \E done \in Seq(Text) : Taken(done)
  /\ ~looping => todo = <<>>

MacroIInv == MacroTypeOK /\ LoopInv

LEMMA MacroInitInv == MacroInit => MacroIInv
BY EmptyText DEF MacroInit, MacroIInv, MacroTypeOK, LoopInv

LEMMA MacrosText ==
  ASSUME NEW t \in Text
  PROVE  getMacros(t) \in Seq(Text) /\ Items(getMacros(t)) = {w \in Items(Split(t, Alpha)) : IsMacro(w)}
BY GetMacros, OnlyMacrosItems, SplitText

LEMMA ItemsAppend ==
  ASSUME NEW s \in Seq(Text), NEW w \in Text
  PROVE  s \o <<w>> \in Seq(Text) /\ Items(s \o <<w>>) = Items(s) \cup {w}
<1>1. <<w>> \in Seq(Text) /\ Len(<<w>>) = 1 /\ <<w>>[1] = w /\ Len(s) \in Nat
  BY LenProperties
<1> DEFINE t == s \o <<w>>
<1>2. t \in Seq(Text) /\ Len(t) = Len(s) + 1
      /\ \A i \in 1 .. Len(s) + 1 : t[i] = IF i <= Len(s) THEN s[i] ELSE <<w>>[i - Len(s)]
  BY <1>1, ConcatProperties
<1> HIDE DEF t
<1>3. \A i \in 1 .. Len(s) : i \in 1 .. Len(t) /\ t[i] = s[i]
  BY <1>1, <1>2
<1>4. Len(s) + 1 \in 1 .. Len(t) /\ t[Len(s) + 1] = w
  <2>1. Len(s) + 1 \in 1 .. Len(s) + 1 /\ ~(Len(s) + 1 <= Len(s)) /\ (Len(s) + 1) - Len(s) = 1
    BY <1>1
  <2> QED
    BY <1>1, <1>2, <2>1
<1>5. \A i \in 1 .. Len(t) : i \in 1 .. Len(s) \/ i = Len(s) + 1
  BY <1>1, <1>2
<1>6. Items(t) = Items(s) \cup {w}
  BY <1>3, <1>4, <1>5 DEF Items
<1> QED
  BY <1>2, <1>6 DEF t

LEMMA MacroStepInv == MacroIInv /\ [MacroNext]_macroVars => MacroIInv'
<1> SUFFICES ASSUME MacroIInv, [MacroNext]_macroVars PROVE MacroIInv'
  OBVIOUS
<1>0. MacroTypeOK /\ LoopInv
  BY DEF MacroIInv
<1>1. ASSUME NEW c \in Chars, Type(c) PROVE MacroIInv'
  <2>1. text' \in Text
    BY <1>0, <1>1, AppendProperties DEF Type, MacroTypeOK, Text
  <2> QED
    BY <1>0, <1>1, <2>1 DEF Type, MacroIInv, MacroTypeOK, LoopInv
<1>2. CASE StartLoop
  <2>1. text \in Text /\ getMacros(text) \in Seq(Text)
    BY <1>0, MacrosText DEF MacroTypeOK
  <2>2. MacroTypeOK'
    BY <1>0, <1>2, <2>1 DEF StartLoop, MacroTypeOK
  <2>3. getMacros(text) = <<>> \o getMacros(text)
    BY <2>1, ConcatEmptySeq
  <2>4. AtOnce(text, TRUE, Items(<<>>) \cap Fields) = text
    <3>1. Items(<<>>) \cap Fields = {}
      BY ItemsCons
    <3> QED
      BY <2>1, <3>1, NoField
  <2>5. getMacros(text') = <<>> \o todo' /\ rewritten' = AtOnce(text', TRUE, Items(<<>>) \cap Fields)
    BY <1>2, <2>3, <2>4 DEF StartLoop
  <2>6. Taken(<<>>)'
    BY <2>5 DEF Taken
  <2>7. looping' = TRUE
    BY <1>2 DEF StartLoop
  <2> QED
    BY <2>2, <2>6, <2>7, EmptyText DEF MacroIInv, LoopInv
<1>3. CASE Replace
  <2>0. PICK f : f = Head(todo)
    OBVIOUS
  <2>1. looping /\ looping' = looping /\ looping \in BOOLEAN /\ todo # <<>> /\ todo' = Tail(todo) /\ text' = text
    BY <1>0, <1>3 DEF Replace, MacroTypeOK
  <2>2. f \in Text /\ Tail(todo) \in Seq(Text) /\ todo = <<f>> \o Tail(todo) /\ text \in Text /\ rewritten \in Text
    BY <1>0, <2>0, <2>1, ConsIn DEF MacroTypeOK
  <2>3. PICK done \in Seq(Text) : Taken(done)
    BY <1>0, <2>1 DEF LoopInv
  <2> DEFINE G == Items(done) \cap Fields
  <2>4. PICK next \in Seq(Text) : next = done \o <<f>> /\ Items(next) = Items(done) \cup {f}
    BY <2>2, <2>3, ItemsAppend
  <2>5. getMacros(text) = next \o Tail(todo)
    <3> DEFINE u == <<f>>
               z == Tail(todo)
    <3>1. u \in Seq(Text) /\ z \in Seq(Text) /\ done \in Seq(Text)
      BY <2>2
    <3>2. getMacros(text) = done \o (u \o z)
      BY <2>2, <2>3 DEF Taken
    <3> HIDE DEF u, z
    <3>3. (done \o u) \o z = done \o (u \o z)
      BY Z3, <3>1, ConcatAssociative
    <3> QED
      BY <2>4, <3>2, <3>3 DEF u, z
  <2>6. CASE f \in Fields
    <3>1. rewritten' = replaceMacro(rewritten, f, Name(f)) /\ args' = args \cup {Argument(f)}
      BY <1>3, <2>0, <2>6 DEF Replace
    <3>2. rewritten' = AtOnce(rewritten, TRUE, {f})
      BY <2>2, <2>6, <3>1, OnePass
    <3>3. rewritten' \in Text
      BY <2>2, <2>6, <3>2, AtOnceText
    <3>4. ASSUME ~Touching(text)
          PROVE  rewritten' = AtOnce(text, TRUE, Items(next) \cap Fields)
      <4>1. rewritten = AtOnce(text, TRUE, G)
        BY <2>3, <3>4 DEF Taken
      <4>2. G \in SUBSET Fields
        OBVIOUS
      <4> HIDE DEF G
      <4>3. AtOnce(AtOnce(text, TRUE, G), TRUE, {f}) = AtOnce(text, TRUE, G \cup {f})
        BY <2>2, <2>6, <3>4, <4>2, Join
      <4>4. G \cup {f} = Items(next) \cap Fields
        BY <2>4, <2>6 DEF G
      <4> QED
        BY <3>2, <4>1, <4>3, <4>4
    <3>5. Taken(next)'
      BY <2>1, <2>5, <3>4 DEF Taken
    <3>6. MacroTypeOK'
      BY <1>0, <2>1, <2>2, <2>6, <3>1, <3>3 DEF MacroTypeOK
    <3> QED
      BY <2>1, <2>4, <3>5, <3>6 DEF MacroIInv, LoopInv
  <2>7. CASE f \notin Fields
    <3>1. rewritten' = rewritten /\ args' = args
      BY <1>3, <2>0, <2>7 DEF Replace
    <3>2. Items(next) \cap Fields = G
      BY <2>4, <2>7
    <3>3. ~Touching(text) => rewritten = AtOnce(text, TRUE, Items(next) \cap Fields)
      BY <2>3, <3>2 DEF Taken
    <3>4. Taken(next)'
      BY <2>1, <2>5, <3>1, <3>3 DEF Taken
    <3>5. MacroTypeOK'
      BY <1>0, <2>1, <2>2, <3>1 DEF MacroTypeOK
    <3> QED
      BY <2>1, <2>4, <3>4, <3>5 DEF MacroIInv, LoopInv
  <2> QED
    BY <2>6, <2>7
<1>4. CASE EndLoop
  <2>1. looping /\ looping' = FALSE /\ todo = <<>> /\ UNCHANGED <<text, todo, rewritten, args>>
    BY <1>4 DEF EndLoop
  <2>2. \A done : Taken(done) => Taken(done)'
    BY <2>1 DEF Taken
  <2> QED
    BY <1>0, <2>1, <2>2 DEF MacroIInv, MacroTypeOK, LoopInv
<1>5. CASE UNCHANGED macroVars
  <2>1. \A done : Taken(done) => Taken(done)'
    BY <1>5 DEF Taken, macroVars
  <2> QED
    BY <1>0, <1>5, <2>1 DEF MacroIInv, MacroTypeOK, LoopInv, macroVars
<1> QED
  BY <1>1, <1>2, <1>3, <1>4, <1>5 DEF MacroNext

THEOREM MacroInvariance == MacroSpec => []MacroIInv
BY MacroInitInv, MacroStepInv, PTL DEF MacroSpec

\* Every variable keeps its type: the macros found and the code as rewritten are texts again, for any
\* characters, fields and texts, and the arguments set are those of fields (pydev_longin.cpp:88-99).
THEOREM MacroTypeCorrect == MacroSpec => []MacroTypeOK
<1>1. MacroIInv => MacroTypeOK
  BY DEF MacroIInv
<1> QED
  BY <1>1, MacroInvariance, PTL

\* Whatever the alphabet, the fields and the text, and however long it is, the scanner of one character
\* at a time finds exactly the words that consist of capitals and are no longer than a field's name, in
\* their order (util.cpp:13-43).
THEOREM ScannerFindsWords == MacroSpec => []MacrosFound
<1>1. MacroIInv => MacrosFound
  BY GetMacros DEF MacroIInv, MacroTypeOK, MacrosFound
<1> QED
  BY <1>1, MacroInvariance, PTL

LEMMA AllReplaced == MacroIInv => FieldsReplaced
<1> SUFFICES ASSUME MacroIInv, Done, ~Touching(text) PROVE rewritten = AtOnce(text, TRUE, Fields)
  BY DEF FieldsReplaced
<1>1. text \in Text /\ todo = <<>>
  BY DEF MacroIInv, MacroTypeOK, LoopInv, Done
<1>2. PICK done \in Seq(Text) : Taken(done)
  BY DEF MacroIInv, LoopInv, Done
<1> DEFINE G == Items(done) \cap Fields
<1>3. getMacros(text) = done
  <2>1. done \o <<>> = done
    BY ConcatEmptySeq
  <2> QED
    BY <1>1, <1>2, <2>1 DEF Taken
<1>4. Items(done) = {w \in Items(Split(text, Alpha)) : IsMacro(w)}
  BY <1>1, <1>3, MacrosText
<1>5. \A f \in Fields : IsMacro(f)
  BY MacrosAssumption DEF IsMacro
<1>6. Items(Split(text, Alpha)) \cap Fields \subseteq G
  BY <1>4, <1>5
<1>7. G \in SUBSET Fields /\ rewritten = AtOnce(text, TRUE, G)
  BY <1>2 DEF Taken
<1> HIDE DEF G
<1>8. AtOnce(text, TRUE, G) = AtOnce(text, TRUE, Fields)
  BY <1>1, <1>6, <1>7, Enough
<1> QED
  BY <1>7, <1>8

\* Whatever the fields, and however many macros the text has, the rewriting of one macro after the other
\* comes to the replacement of all fields at once, unless two fields touch (util.cpp:45-81,
\* pydev_longin.cpp:88-99).
THEOREM OneByOneIsAtOnce == MacroSpec => []FieldsReplaced
BY AllReplaced, MacroInvariance, PTL

LEMMA NoPercentNoTouch ==
  ASSUME NEW t \in Text, NoPercent(t)
  PROVE  ~Touching(t)
<1> SUFFICES ASSUME NEW i \in 1 .. Len(t), NEW f \in Fields, NEW g \in Fields,
                    \/ Starts(SubSeq(t, i, Len(t)), Enclosed(f) \o g)
                    \/ Starts(SubSeq(t, i, Len(t)), f \o Enclosed(g))
             PROVE  FALSE
  BY DEF Touching
<1> DEFINE a == SubSeq(t, 1, i - 1)
           v == SubSeq(t, i, Len(t))
<1>1. t \in Seq(Chars) /\ Len(t) \in Nat
  BY LenProperties DEF Text
<1>2. \A j \in 1 .. Len(t) : t[j] \in Chars
  BY <1>1, ElementOfSeq
<1>3. a \in Text /\ v \in Text
  BY <1>1, <1>2, SubSeqProperties DEF Text
<1>4. t = a \o v
  <2>1. 1 \in 1 .. Len(t) + 1 /\ i - 1 \in 1 - 1 .. Len(t) /\ Len(t) \in i - 1 .. Len(t) /\ (i - 1) + 1 = i
    BY <1>1
  <2>2. SubSeq(t, 1, i - 1) \o SubSeq(t, (i - 1) + 1, Len(t)) = SubSeq(t, 1, Len(t))
    BY <1>1, <2>1, ConcatAdjacentSubSeq
  <2>3. SubSeq(t, 1, Len(t)) = t
    BY <1>1, SubSeqFull
  <2> QED
    BY <2>1, <2>2, <2>3
<1> HIDE DEF a, v
<1>5. NoPercent(v)
  BY <1>3, <1>4, NoPercentParts
<1>6. \A h \in Fields : h \in Text /\ Enclosed(h) \in Text /\ Enclosed(h) # <<>> /\ Enclosed(h)[1] = "%"
  <2> SUFFICES ASSUME NEW h \in Fields PROVE h \in Text /\ Enclosed(h) \in Text /\ Enclosed(h) # <<>> /\ Enclosed(h)[1] = "%"
    OBVIOUS
  <2>1. Len(Enclosed(h)) # 0
    BY FieldFacts
  <2> QED
    BY <2>1, FieldFacts, EmptyText
<1>7. ASSUME NEW h \in Fields, NEW y \in Text, NoPercent(Enclosed(h) \o y)
      PROVE  FALSE
  BY <1>6, <1>7, NoPercentParts
<1>8. CASE Starts(v, Enclosed(f) \o g)
  <2> DEFINE z == After(v, Enclosed(f) \o g)
  <2>1. Enclosed(f) \o g \in Text
    BY <1>6, Parts
  <2>2. z \in Text /\ v = (Enclosed(f) \o g) \o z
    BY <1>3, <1>8, <2>1, Parts
  <2> HIDE DEF z
  <2>3. Enclosed(f) \in Text /\ g \in Text /\ z \in Text
    BY <1>6, <2>2
  <2>4. g \o z \in Text
    BY <2>3, Parts
  <2>5. (Enclosed(f) \o g) \o z = Enclosed(f) \o (g \o z)
    BY Zenon, <2>3, Assoc
  <2> QED
    BY <1>5, <1>7, <2>2, <2>4, <2>5
<1>9. CASE Starts(v, f \o Enclosed(g))
  <2> DEFINE z == After(v, f \o Enclosed(g))
             e == Enclosed(g) \o z
  <2>1. f \o Enclosed(g) \in Text
    BY <1>6, Parts
  <2>2. z \in Text /\ v = (f \o Enclosed(g)) \o z
    BY <1>3, <1>9, <2>1, Parts
  <2> HIDE DEF z
  <2>3. f \in Text /\ Enclosed(g) \in Text /\ z \in Text
    BY <1>6, <2>2
  <2>4. e \in Text
    BY <2>3, Parts
  <2>5. (f \o Enclosed(g)) \o z = f \o e
    BY Zenon, <2>3, Assoc
  <2>6. v = f \o e
    BY <2>2, <2>5
  <2> HIDE DEF e
  <2>7. NoPercent(e)
    BY <1>5, <2>3, <2>4, <2>6, NoPercentParts
  <2> QED
    BY <1>7, <2>2, <2>7 DEF e
<1> QED
  BY <1>8, <1>9 DEF v

\* In code without % signs the words of the new code are those of the old, in their order, with the
\* fields' renamed, whatever the text and its length (util.cpp:45-81).
THEOREM WordsKept == MacroSpec => []NamesKept
<1>1. MacroIInv => NamesKept
  <2> SUFFICES ASSUME MacroIInv, Done, \A i \in DOMAIN text : text[i] # "%"
               PROVE  Split(rewritten, Alnum) = AllRenamed(Split(text, Alnum))
    BY DEF NamesKept, AllRenamed, Renamed
  <2>1. text \in Text /\ DOMAIN text = 1 .. Len(text)
    BY LenProperties DEF MacroIInv, MacroTypeOK, Text
  <2>2. NoPercent(text)
    BY <2>1 DEF NoPercent
  <2>3. rewritten = AtOnce(text, TRUE, Fields)
    BY <2>1, <2>2, AllReplaced, NoPercentNoTouch DEF FieldsReplaced
  <2> QED
    BY <2>1, <2>2, <2>3, WordsRenamed
<1> QED
  BY <1>1, MacroInvariance, PTL
=============================================================================

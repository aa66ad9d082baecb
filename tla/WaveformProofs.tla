--------------------------- MODULE WaveformProofs ---------------------------
(***************************************************************************)
(* Theorems about Waveform for any size of the array and of a cell, any    *)
(* lists that the code returns and any arrays that clients put: what the   *)
(* code sees, what the record shows at rest, and that the loops stay       *)
(* within their vectors.  The inductive invariant says what each loop has  *)
(* copied up to at; of the strings, that a cell is its characters and then *)
(* nothing but NULs.                                                       *)
(***************************************************************************)
EXTENDS Waveform, SequenceTheorems, FiniteSetTheorems, WellFoundedInduction, TLAPS

-----------------------------------------------------------------------------
(* The inductive invariant.                                                  *)

\* A cell that shows its first n characters.
Padded(c, n) ==
  /\ n \in 0 .. Size - 1
  /\ \A j \in 1 .. n : c[j] \in Char
  /\ \A j \in n + 1 .. Size : c[j] = NUL

Cells == {c \in [1 .. Size -> Char \cup {NUL}] : \E n \in 0 .. Size - 1 : Padded(c, n)}

Stored(t) == IF t = "STRING" THEN Cells ELSE Items(t)

Types ==
  /\ ftvl \in Kinds
  /\ buf \in [1 .. NELM -> Stored(ftvl)] /\ found \in [1 .. NELM -> Stored(ftvl)]
  /\ nord \in 0 .. NELM /\ at \in 0 .. NELM /\ limit \in 0 .. NELM
  /\ pc \in {"idle", "queued", "read", "code", "count", "limit", "write", "done", "undefined"}
  /\ copy \in Seq(Items(ftvl)) /\ arg \in Seq(Items(ftvl))
  /\ before \in Seq(Items(ftvl)) /\ Len(before) <= NELM
  /\ status \in {"unset", "ok", "fail"}
  /\ echoed \in BOOLEAN /\ touched \in {"no", "early", "late"}
  /\ passes \in 0 .. MaxPass

\* The loop that builds the argument.
ReadInv ==
  /\ pc = "read" /\ ftvl # "STRING" => Len(copy) = at
  /\ pc = "read" /\ touched = "no" =>
       /\ ftvl = "STRING" => Len(copy) = nord
       /\ at <= Len(copy) /\ \A i \in 1 .. at : copy[i] = Shown(buf[i])

\* Up to NORD's new value only a client changes what the record shows, and a failure keeps it.
BeforeInv ==
  touched = "no" /\ (pc \in {"queued", "read", "code", "count"} \/ (pc \in {"done", "idle"} /\ status = "fail"))
    => before = Array

\* What the element i has become, once it has been written.
Cut(s) == SubSeq(s, 1, Lesser(Len(s), Size - 1))

IsWritten(i) ==
  IF ftvl # "STRING" THEN buf[i] = copy[i]
  ELSE LET cut == Cut(copy[i])
           old == Text(found[i])
       IN \/ Text(buf[i]) = cut
          \/ Len(old) > Len(cut) /\ Text(buf[i]) = cut \o SubSeq(old, Len(cut) + 1, Len(old))

\* The loop that copies the result: nothing has been written from at on.
WriteInv ==
  touched # "late" =>
    /\ pc \in {"limit", "write"} \/ (pc \in {"done", "idle"} /\ status = "ok") => nord = Lesser(Len(copy), NELM)
    /\ pc = "write" /\ ftvl # "STRING" => limit = nord
    /\ pc \in {"limit", "write"} =>
         /\ at <= nord
         /\ \A i \in 1 .. at : IsWritten(i)
         /\ \A i \in at + 1 .. NELM : buf[i] = found[i]
    /\ pc \in {"done", "idle"} /\ status = "ok" => \A i \in 1 .. nord : IsWritten(i)

\* An echoed argument: the result begins with the array that the pass began with.
EchoInv ==
  echoed /\ touched = "no" /\ (ftvl = "STRING" => before # <<>>) =>
    /\ pc \in {"count", "limit", "write"} \/ (pc \in {"done", "idle"} /\ status = "ok") =>
         Len(before) <= Len(copy) /\ \A i \in 1 .. Len(before) : before[i] = copy[i]
    /\ pc \in {"limit", "write"} \/ (pc \in {"done", "idle"} /\ status = "ok") =>
         \A i \in 1 .. Len(before) : before[i] = Shown(found[i])

\* ArgumentShown, element by element.
ArgInv ==
  pc = "code" /\ touched = "no" /\ (ftvl = "STRING" => nord > 0) =>
    nord <= Len(arg) /\ \A i \in 1 .. nord : arg[i] = Shown(buf[i])

IInv == Types /\ ReadInv /\ BeforeInv /\ ArgInv /\ WriteInv /\ EchoInv /\ UndefinedNeedsPut

-----------------------------------------------------------------------------
(* Induction, by the least element of a set of naturals.                     *)

LEMMA Least ==
  ASSUME NEW T \in SUBSET Nat, T # {}
  PROVE  \E n \in T : \A m \in T : n <= m
<1>1. PICK n \in T : \A m \in T : <<m, n>> \notin OpToRel(<, Nat)
  BY Zenon, NatLessThanWellFounded, WFMin
<1>2. \A m \in T : ~(m < n)
  BY <1>1 DEF OpToRel
<1> QED
  BY <1>2

LEMMA Induction ==
  ASSUME NEW T \in SUBSET Nat, 0 \in T, NEW l \in Nat, \A n \in T : n < l => n + 1 \in T
  PROVE  \A n \in 0 .. l : n \in T
<1> SUFFICES ASSUME (0 .. l) \ T # {} PROVE FALSE
  OBVIOUS
<1> DEFINE rest == (0 .. l) \ T
<1>1. rest \in SUBSET Nat /\ rest # {}
  OBVIOUS
<1> HIDE DEF rest
<1>2. PICK n \in rest : \A m \in rest : n <= m
  BY <1>1, Least
<1>3. n \in 0 .. l /\ n \notin T /\ n # 0
  BY <1>2 DEF rest
<1>4. n - 1 \in 0 .. l /\ n - 1 < l /\ n - 1 \notin rest
  BY <1>2, <1>3
<1>5. n - 1 \in T
  BY <1>4 DEF rest
<1> QED
  BY <1>3, <1>4, <1>5

-----------------------------------------------------------------------------
(* Cells.                                                                    *)

LEMMA TextOfPadded ==
  ASSUME NEW c \in [1 .. Size -> Char \cup {NUL}], NEW n \in 0 .. Size - 1, Padded(c, n)
  PROVE  /\ Text(c) \in Seq(Char) /\ Len(Text(c)) = n
         /\ \A k \in 1 .. n : Text(c)[k] = c[k]
<1> USE WaveformAssumption
<1> DEFINE shown == {i \in 1 .. Size : \A j \in 1 .. i : c[j] # NUL}
<1>1. shown = 1 .. n
  <2>1. \A j \in 1 .. n : c[j] # NUL
    BY DEF Padded
  <2>2. ASSUME NEW i \in 1 .. Size, \A j \in 1 .. i : c[j] # NUL, i > n
        PROVE  FALSE
    <3>1. n + 1 \in 1 .. i /\ n + 1 \in n + 1 .. Size
      BY <2>2
    <3>2. c[n + 1] = NUL
      BY <3>1 DEF Padded
    <3> QED
      BY <2>2, <3>1, <3>2
  <2>3. \A i \in 1 .. Size : (\A j \in 1 .. i : c[j] # NUL) <=> i <= n
    BY <2>1, <2>2
  <2>4. shown = {i \in 1 .. Size : i <= n}
    BY <2>3
  <2> QED
    BY <2>4
<1>2. Cardinality(1 .. n) = n
  BY FS_Interval
<1>3. Text(c) = SubSeq(c, 1, n)
  BY <1>1, <1>2 DEF Text
<1>4. \A k \in 1 .. n : c[k] \in Char
  BY DEF Padded
<1> QED
  BY <1>3, <1>4, SubSeqProperties

LEMMA TextOfCell ==
  ASSUME NEW c \in Cells
  PROVE  Text(c) \in Seq(Char) /\ Len(Text(c)) < Size /\ Padded(c, Len(Text(c)))
BY TextOfPadded, WaveformAssumption DEF Cells

\* What a client puts is a cell.
LEMMA CellType == \A s \in Seq(Char) : Cell(s) \in Cells
<1> SUFFICES ASSUME NEW s \in Seq(Char) PROVE Cell(s) \in Cells
  OBVIOUS
<1> USE WaveformAssumption
<1>1. Cell(s) \in [1 .. Size -> Char \cup {NUL}]
  <2>1. \A i \in 1 .. Size : (IF i <= Len(s) /\ i < Size THEN s[i] ELSE NUL) \in Char \cup {NUL}
    <3>1. \A i \in 1 .. Size : i <= Len(s) => s[i] \in Char
      OBVIOUS
    <3> QED
      BY <3>1
  <2> QED
    BY <2>1 DEF Cell
<1>2. Lesser(Len(s), Size - 1) \in 0 .. Size - 1
  BY DEF Lesser
<1>3. Padded(Cell(s), Lesser(Len(s), Size - 1))
  BY <1>2 DEF Padded, Cell, Lesser
<1> QED
  BY <1>1, <1>2, <1>3 DEF Cells

LEMMA CutType ==
  ASSUME NEW s \in Seq(Char)
  PROVE  /\ Cut(s) \in Seq(Char) /\ Len(Cut(s)) = Lesser(Len(s), Size - 1)
         /\ \A k \in 1 .. Len(Cut(s)) : Cut(s)[k] = s[k]
<1> DEFINE n == Lesser(Len(s), Size - 1)
<1>1. n \in 0 .. Len(s)
  BY WaveformAssumption DEF Lesser
<1>2. \A k \in 1 .. n : s[k] \in Char
  BY <1>1
<1> QED
  BY <1>1, <1>2, SubSeqProperties DEF Cut

\* A string that fits its cell is not cut.
LEMMA CutFits ==
  ASSUME NEW s \in Seq(Char), Len(s) < Size
  PROVE  Cut(s) = s
<1>1. Len(Cut(s)) = Len(s)
  BY CutType, WaveformAssumption DEF Lesser
<1> QED
  BY <1>1, CutType, SeqEqual

\* A string written to a cell shows as far as it fits, and after it the tail of a longer one.
LEMMA WrittenShows ==
  ASSUME NEW c \in Cells, NEW s \in Seq(Char)
  PROVE  /\ Written(c, s) \in Cells
         /\ \/ Text(Written(c, s)) = Cut(s)
            \/ /\ Len(Text(c)) > Len(Cut(s))
               /\ Text(Written(c, s)) = Cut(s) \o SubSeq(Text(c), Len(Cut(s)) + 1, Len(Text(c)))
<1> DEFINE w == Written(c, s)
           old == Text(c)
           m == Len(old)
           n == Lesser(Len(s), Size - 1)
<1> HIDE DEF w, old, m, n
<1> USE WaveformAssumption
<1>1. c \in [1 .. Size -> Char \cup {NUL}] /\ m \in 0 .. Size - 1 /\ Padded(c, m) /\ old \in Seq(Char)
  BY TextOfCell DEF Cells, old, m
<1>2. \A k \in 1 .. m : old[k] = c[k]
  BY <1>1, TextOfPadded DEF old
<1>3. n \in 0 .. Size - 1 /\ n <= Len(s) /\ (n < Len(s) => n = Size - 1)
  BY DEF Lesser, n
<1>4. Cut(s) \in Seq(Char) /\ Len(Cut(s)) = n /\ \A k \in 1 .. n : Cut(s)[k] = s[k]
  BY CutType DEF n
<1>5. w \in [1 .. Size -> Char \cup {NUL}]
  <2>1. \A i \in 1 .. Size : i <= Len(s) => s[i] \in Char
    OBVIOUS
  <2>2. \A i \in 1 .. Size : (IF i = Size THEN NUL ELSE IF i <= Len(s) THEN s[i] ELSE c[i]) \in Char \cup {NUL}
    BY <1>1, <2>1
  <2> QED
    BY <2>2 DEF Written, w
<1>6. \A k \in 1 .. n : w[k] = s[k] /\ s[k] \in Char
  BY <1>3 DEF Written, w
<1>7. \A k \in n + 1 .. Size - 1 : w[k] = c[k]
  BY <1>1, <1>3 DEF Written, w
<1>8. w[Size] = NUL
  BY DEF Written, w
<1>9. CASE m <= n
  <2>1. Padded(w, n)
    BY <1>1, <1>3, <1>6, <1>7, <1>8, <1>9 DEF Padded
  <2>2. Text(w) \in Seq(Char) /\ Len(Text(w)) = n /\ \A k \in 1 .. n : Text(w)[k] = w[k]
    BY <1>3, <1>5, <2>1, TextOfPadded
  <2>3. Text(w) = Cut(s)
    BY <1>4, <1>6, <2>2, SeqEqual
  <2> QED
    BY <1>3, <1>5, <2>1, <2>3 DEF Cells, w
<1>10. CASE m > n
  <2> DEFINE tail == SubSeq(old, n + 1, m)
  <2> HIDE DEF tail
  <2>1. Padded(w, m)
    <3>1. \A j \in 1 .. m : c[j] \in Char
      BY <1>1 DEF Padded
    <3>2. \A j \in m + 1 .. Size : c[j] = NUL
      BY <1>1 DEF Padded
    <3>3. \A j \in 1 .. m : w[j] \in Char
      BY <1>1, <1>3, <1>6, <1>7, <3>1
    <3>4. \A j \in m + 1 .. Size : w[j] = NUL
      BY <1>1, <1>3, <1>7, <1>8, <1>10, <3>2
    <3> QED
      BY <1>1, <3>3, <3>4 DEF Padded
  <2>2. Text(w) \in Seq(Char) /\ Len(Text(w)) = m /\ \A k \in 1 .. m : Text(w)[k] = w[k]
    BY <1>1, <1>5, <2>1, TextOfPadded
  <2>3. \A k \in n + 1 .. m : old[k] \in Char
    BY <1>1, <1>3 DEF m
  <2>4. tail \in Seq(Char) /\ Len(tail) = m - n /\ \A k \in 1 .. m - n : tail[k] = old[n + k]
    BY <1>1, <1>3, <1>10, <2>3, SubSeqProperties DEF tail
  <2>5. /\ Cut(s) \o tail \in Seq(Char) /\ Len(Cut(s) \o tail) = m
        /\ \A k \in 1 .. m : (Cut(s) \o tail)[k] = IF k <= n THEN Cut(s)[k] ELSE tail[k - n]
    <3>1. n + (m - n) = m
      BY <1>1, <1>3
    <3> QED
      BY <1>4, <2>4, <3>1, ConcatProperties
  <2>6. ASSUME NEW k \in 1 .. m
        PROVE  w[k] = (Cut(s) \o tail)[k]
    <3>1. CASE k <= n
      BY <1>4, <1>6, <2>5, <3>1
    <3>2. CASE k > n
      <4>1. w[k] = c[k] /\ c[k] = old[k]
        BY <1>1, <1>2, <1>3, <1>7, <3>2
      <4>2. k - n \in 1 .. m - n /\ tail[k - n] = old[k]
        BY <1>1, <1>3, <2>4, <3>2
      <4>3. (Cut(s) \o tail)[k] = tail[k - n]
        BY <1>1, <1>3, <2>5, <3>2
      <4> QED
        BY <4>1, <4>2, <4>3
    <3>3. k <= n \/ k > n
      BY <1>1, <1>3
    <3> QED
      BY <3>1, <3>2, <3>3
  <2>7. Text(w) = Cut(s) \o tail
    BY <2>2, <2>5, <2>6, SeqEqual
  <2> QED
    BY <1>1, <1>4, <1>5, <1>10, <2>1, <2>7 DEF Cells, w, old, m, tail
<1>11. m <= n \/ m > n
  BY <1>1, <1>3
<1> QED
  BY <1>9, <1>10, <1>11

-----------------------------------------------------------------------------
(* From a list to a vector, and from the vector to the elements.             *)

Element == [type : ElementTypes, n : Int, s : Seq(Char)]

\* The loop of convert() over a list.
LEMMA ConvertLoop ==
  ASSUME NEW list \in Seq(Element)
  PROVE  \E v : /\ v[0] = <<>> /\ \A i \in 0 .. Len(list) - 1 : v[i + 1] = Pushed(v[i], list[i + 1])
                /\ Convert(list) = v[Len(list)]
<1> DEFINE v[i \in 0 .. Len(list)] == IF i = 0 THEN <<>> ELSE Pushed(v[i - 1], list[i])
<1>1. v = [i \in 0 .. Len(list) |-> IF i = 0 THEN <<>> ELSE Pushed(v[i - 1], list[i])]
  OBVIOUS
<1>2. Convert(list) = v[Len(list)]
  BY DEF Convert
<1> HIDE DEF v
<1>3. Len(list) \in Nat
  OBVIOUS
<1>4. \A i \in 0 .. Len(list) : v[i] = IF i = 0 THEN <<>> ELSE Pushed(v[i - 1], list[i])
  BY <1>1
<1>5. v[0] = <<>>
  BY <1>3, <1>4
<1>6. ASSUME NEW i \in 0 .. Len(list) - 1
      PROVE  v[i + 1] = Pushed(v[i], list[i + 1])
  <2>1. i + 1 \in 0 .. Len(list) /\ i + 1 # 0 /\ i + 1 - 1 = i
    BY <1>3
  <2> QED
    BY <1>4, <2>1
<1> QED
  BY <1>2, <1>5, <1>6

LEMMA PushedType ==
  ASSUME NEW v \in Seq(Element), NEW e \in Element
  PROVE  Pushed(v, e) \in Seq(Element)
<1>1. v \o <<e, e>> \in Seq(Element) /\ Append(v, e) \in Seq(Element)
  OBVIOUS
<1> QED
  BY <1>1 DEF Pushed

\* The vector holds elements of the list.
LEMMA ConvertType ==
  ASSUME NEW list \in Seq(Element)
  PROVE  Convert(list) \in Seq(Element)
<1>1. PICK v : /\ v[0] = <<>> /\ \A i \in 0 .. Len(list) - 1 : v[i + 1] = Pushed(v[i], list[i + 1])
               /\ Convert(list) = v[Len(list)]
  BY ConvertLoop
<1> DEFINE T == {i \in 0 .. Len(list) : v[i] \in Seq(Element)}
<1>2. T \in SUBSET Nat /\ 0 \in T
  <2>1. 0 \in 0 .. Len(list) /\ 0 .. Len(list) \subseteq Nat
    <3>1. Len(list) \in Nat
      OBVIOUS
    <3> QED
      BY <3>1
  <2>2. v[0] \in Seq(Element)
    BY <1>1
  <2> QED
    BY <2>1, <2>2
<1>3. ASSUME NEW i \in T, i < Len(list)
      PROVE  i + 1 \in T
  <2>1. i \in 0 .. Len(list) - 1 /\ i + 1 \in 1 .. Len(list) /\ v[i] \in Seq(Element)
    BY <1>3
  <2>2. v[i + 1] = Pushed(v[i], list[i + 1])
    BY <1>1, <2>1
  <2> QED
    BY <2>1, <2>2, PushedType
<1> HIDE DEF T
<1>4. Len(list) \in T
  <2>1. Len(list) \in Nat
    OBVIOUS
  <2>2. \A i \in 0 .. Len(list) : i \in T
    BY <1>2, <1>3, <2>1, Induction
  <2> QED
    BY <2>1, <2>2
<1> QED
  BY <1>1, <1>4 DEF T

\* A list of numbers, none of them a bool, or of strings, is converted as it is.
LEMMA ConvertAlike ==
  ASSUME NEW list \in Seq(Element), NEW t \in {"LONG", "DOUBLE", "TEXT"},
         \A i \in 1 .. Len(list) : list[i].type = t
  PROVE  Convert(list) = list
<1>1. PICK v : /\ v[0] = <<>> /\ \A i \in 0 .. Len(list) - 1 : v[i + 1] = Pushed(v[i], list[i + 1])
               /\ Convert(list) = v[Len(list)]
  BY ConvertLoop
<1> DEFINE Copied(w, i) == w \in Seq(Element) /\ Len(w) = i /\ \A k \in 1 .. i : w[k] = list[k]
           T == {i \in 0 .. Len(list) : Copied(v[i], i)}
<1>2. T \in SUBSET Nat /\ 0 \in T
  <2>1. 0 \in 0 .. Len(list) /\ 0 .. Len(list) \subseteq Nat
    <3>1. Len(list) \in Nat
      OBVIOUS
    <3> QED
      BY <3>1
  <2>2. Copied(<<>>, 0)
    OBVIOUS
  <2>3. Copied(v[0], 0)
    BY <1>1, <2>2
  <2> HIDE DEF Copied
  <2> QED
    BY <2>1, <2>3
<1>3. ASSUME NEW i \in T, i < Len(list)
      PROVE  i + 1 \in T
  <2> DEFINE e == list[i + 1]
  <2>1. i + 1 \in 1 .. Len(list) /\ v[i + 1] = Pushed(v[i], e)
    <3>1. i \in 0 .. Len(list)
      OBVIOUS
    <3> HIDE DEF T, Copied
    <3>2. i \in 0 .. Len(list) - 1 /\ i + 1 \in 1 .. Len(list)
      BY <1>3, <3>1
    <3> QED
      BY <1>1, <3>2
  <2>2. e \in Element /\ e.type = t
    BY <2>1
  <2>3. v[i] # <<>> => v[i][1].type = t
    OBVIOUS
  <2>4. Pushed(v[i], e) = Append(v[i], e)
    BY <2>2, <2>3 DEF Pushed, VectorType
  <2>5. Copied(Append(v[i], e), i + 1)
    BY <2>2, AppendProperties
  <2>6. Copied(v[i + 1], i + 1)
    BY <2>1, <2>4, <2>5
  <2> HIDE DEF Copied
  <2>7. i + 1 \in 0 .. Len(list)
    BY <2>1
  <2> QED
    BY <2>6, <2>7
<1> HIDE DEF T
<1>4. Len(list) \in T
  <2>1. Len(list) \in Nat
    OBVIOUS
  <2>2. \A i \in 0 .. Len(list) : i \in T
    BY <1>2, <1>3, <2>1, Induction
  <2> QED
    BY <2>1, <2>2
<1>5. Copied(v[Len(list)], Len(list))
  BY <1>4 DEF T
<1> QED
  BY <1>1, <1>5, SeqEqual

LEMMA ToIntRange ==
  /\ \A n \in Int : ToInt(n) \in Items("LONG")
  /\ \A n \in Items("LONG") : n \in Int /\ ToInt(n) = n
<1> DEFINE p == 2 ^ (Width - 1)
<1>1. p \in Int /\ p > 0 /\ 2 ^ Width = 2 * p
  BY WaveformAssumption
<1> HIDE DEF p
<1>2. \A n \in Int : ToInt(n) = ((n + p) % (2 * p)) - p
  BY <1>1 DEF ToInt, p
<1>3. Items("LONG") = -p .. p - 1
  BY DEF Items, p
<1>4. ASSUME NEW n \in Int
      PROVE  ((n + p) % (2 * p)) - p \in -p .. p - 1
  <2>1. (n + p) % (2 * p) \in 0 .. 2 * p - 1
    BY <1>1
  <2> QED
    BY <1>1, <2>1
<1>5. ASSUME NEW n \in -p .. p - 1
      PROVE  ((n + p) % (2 * p)) - p = n
  <2>1. n + p \in 0 .. 2 * p - 1
    BY <1>1
  <2>2. (n + p) % (2 * p) = n + p
    BY <1>1, <2>1
  <2> QED
    BY <1>1, <2>2
<1>6. \A n \in Int : ToInt(n) \in Items("LONG")
  BY <1>2, <1>3, <1>4
<1>7. \A n \in Items("LONG") : n \in Int
  BY <1>1, <1>3
<1>8. \A n \in Items("LONG") : ToInt(n) = n
  BY <1>2, <1>3, <1>5, <1>7
<1> QED
  BY <1>6, <1>7, <1>8

LEMMA TruncatedInt == \A n \in Int : Truncated(n) \in Int
BY WaveformAssumption DEF Truncated

LEMMA ValueType ==
  ASSUME ftvl \in Kinds, NEW e \in Element
  PROVE  Value(e) \in Items(ftvl)
<1>1. ftvl \in {"LONG", "DOUBLE", "STRING"} /\ Unit \in Int
  BY WaveformAssumption
<1>2. e.n \in Int /\ e.s \in Seq(Char)
  BY DEF Element
<1>3. CASE ftvl = "STRING"
  BY <1>2, <1>3 DEF Value, Items
<1>4. CASE ftvl = "DOUBLE"
  BY <1>1, <1>2, <1>4 DEF Value, Items
<1>5. CASE ftvl = "LONG"
  <2>1. Value(e) = ToInt(IF e.type \in {"DOUBLE", "STRING"} THEN Truncated(e.n) ELSE e.n)
    BY <1>5 DEF Value
  <2> QED
    BY <1>2, <1>5, <2>1, ToIntRange, TruncatedInt
<1> QED
  BY <1>1, <1>3, <1>4, <1>5

\* The argument comes back as it is.
LEMMA EchoValues ==
  ASSUME ftvl \in Kinds, arg \in Seq(Items(ftvl))
  PROVE  /\ Echo \in Seq(Element)
         /\ Convert(Echo) = Echo
         /\ [i \in DOMAIN Echo |-> Value(Echo[i])] = arg
<1>1. ftvl \in {"LONG", "DOUBLE", "STRING"}
  BY WaveformAssumption
<1>2. CASE ftvl = "STRING"
  <2>1. Echo = [i \in 1 .. Len(arg) |-> [type |-> "TEXT", n |-> 0, s |-> arg[i]]]
    BY <1>2 DEF Echo
  <2>2. \A i \in 1 .. Len(arg) : arg[i] \in Seq(Char)
    BY <1>2 DEF Items
  <2>3. Echo \in Seq(Element) /\ Len(Echo) = Len(arg)
    BY <2>1, <2>2 DEF Element, ElementTypes
  <2>4. Convert(Echo) = Echo
    BY <2>1, <2>3, ConvertAlike
  <2>5. \A i \in 1 .. Len(arg) : Value(Echo[i]) = arg[i]
    BY <1>2, <2>1 DEF Value
  <2> QED
    BY <2>1, <2>3, <2>4, <2>5
<1>3. CASE ftvl = "DOUBLE"
  <2>1. Echo = [i \in 1 .. Len(arg) |-> [type |-> "DOUBLE", n |-> arg[i], s |-> <<>>]]
    BY <1>3 DEF Echo
  <2>2. \A i \in 1 .. Len(arg) : arg[i] \in Int
    BY <1>3 DEF Items
  <2>3. Echo \in Seq(Element) /\ Len(Echo) = Len(arg)
    BY <2>1, <2>2 DEF Element, ElementTypes
  <2>4. Convert(Echo) = Echo
    BY <2>1, <2>3, ConvertAlike
  <2>5. \A i \in 1 .. Len(arg) : Value(Echo[i]) = arg[i]
    BY <1>3, <2>1 DEF Value
  <2> QED
    BY <2>1, <2>3, <2>4, <2>5
<1>4. CASE ftvl = "LONG"
  <2>1. Echo = [i \in 1 .. Len(arg) |-> [type |-> "LONG", n |-> arg[i], s |-> <<>>]]
    BY <1>4 DEF Echo
  <2>2. \A i \in 1 .. Len(arg) : arg[i] \in Int /\ ToInt(arg[i]) = arg[i]
    BY <1>4, ToIntRange
  <2>3. Echo \in Seq(Element) /\ Len(Echo) = Len(arg)
    BY <2>1, <2>2 DEF Element, ElementTypes
  <2>4. Convert(Echo) = Echo
    BY <2>1, <2>3, ConvertAlike
  <2>5. \A i \in 1 .. Len(arg) : Value(Echo[i]) = arg[i]
    BY <1>4, <2>1, <2>2 DEF Value
  <2> QED
    BY <2>1, <2>3, <2>4, <2>5
<1> QED
  BY <1>1, <1>2, <1>3, <1>4

-----------------------------------------------------------------------------
(* Types.                                                                    *)

LEMMA ShownType ==
  ASSUME NEW value \in Stored(ftvl)
  PROVE  Shown(value) \in Items(ftvl)
BY TextOfCell DEF Stored, Shown, Items

LEMMA ArrayType ==
  ASSUME Types
  PROVE  Array \in Seq(Items(ftvl)) /\ Len(Array) = nord /\ \A i \in 1 .. nord : Array[i] = Shown(buf[i])
<1>1. \A i \in 1 .. nord : Shown(buf[i]) \in Items(ftvl)
  BY ShownType, WaveformAssumption DEF Types
<1>2. nord \in Nat
  BY WaveformAssumption DEF Types
<1> QED
  BY <1>1, <1>2 DEF Array

LEMMA InitInv == Init => IInv
<1> SUFFICES ASSUME Init PROVE IInv
  OBVIOUS
<1> USE WaveformAssumption DEF Init
<1>1. (IF ftvl = "STRING" THEN Cell(<<>>) ELSE 0) \in Stored(ftvl)
  <2>1. Cell(<<>>) \in Cells
    <3>1. <<>> \in Seq(Char)
      OBVIOUS
    <3> QED
      BY <3>1, CellType
  <2>2. 2 ^ (Width - 1) \in Int
    OBVIOUS
  <2>3. ftvl # "STRING" => 0 \in Items(ftvl)
    BY <2>2 DEF Items
  <2> QED
    BY <2>1, <2>3 DEF Stored
<1>2. Types
  <2>1. buf \in [1 .. NELM -> Stored(ftvl)]
    BY <1>1
  <2>2. found \in [1 .. NELM -> Stored(ftvl)]
    BY <2>1
  <2>3. nord \in 0 .. NELM /\ at \in 0 .. NELM /\ passes \in 0 .. MaxPass
    OBVIOUS
  <2>4. /\ copy \in Seq(Items(ftvl)) /\ arg \in Seq(Items(ftvl))
        /\ before \in Seq(Items(ftvl)) /\ Len(before) <= NELM
    OBVIOUS
  <2> QED
    BY <2>1, <2>2, <2>3, <2>4 DEF Types
<1> QED
  BY <1>2 DEF IInv, ReadInv, BeforeInv, ArgInv, WriteInv, EchoInv, UndefinedNeedsPut

LEMMA LesserBound == \A m, n \in Nat : Lesser(m, n) \in 0 .. n /\ Lesser(m, n) <= m
BY DEF Lesser

LEMMA Limits ==
  ASSUME Types
  PROVE  ReadLimit \in 0 .. NELM /\ WriteLimit \in 0 .. NELM
<1>1. NELM \in Nat /\ nord \in 0 .. NELM /\ limit \in 0 .. NELM
  BY WaveformAssumption DEF Types
<1> QED
  BY <1>1 DEF ReadLimit, WriteLimit

LEMMA TypesStep == Types /\ ReadInv /\ [Next]_vars => Types'
<1> SUFFICES ASSUME Types, ReadInv, [Next]_vars PROVE Types'
  OBVIOUS
<1> USE WaveformAssumption
<1>1. ASSUME NEW values \in Puts(ftvl), Put(values)
      PROVE  Types'
  <2>1. values \in Seq(Items(ftvl)) /\ Len(values) \in 0 .. NELM /\ ftvl' = ftvl
    BY <1>1 DEF Put, Types
  <2>2. \A i \in 1 .. Len(values) :
          (IF ftvl = "STRING" THEN Cell(values[i]) ELSE values[i]) \in Stored(ftvl)
    <3> SUFFICES ASSUME NEW i \in 1 .. Len(values)
                 PROVE  (IF ftvl = "STRING" THEN Cell(values[i]) ELSE values[i]) \in Stored(ftvl)
      OBVIOUS
    <3>1. values[i] \in Items(ftvl)
      BY <2>1
    <3>2. ftvl = "STRING" => Cell(values[i]) \in Cells
      BY <3>1, CellType DEF Items
    <3> QED
      BY <3>1, <3>2 DEF Stored
  <2>3. buf' \in [1 .. NELM -> Stored(ftvl)]
    BY <1>1, <2>1, <2>2 DEF Put, Types
  <2> QED
    BY <1>1, <2>1, <2>3 DEF Put, Types
<1>2. CASE FirstPass
  BY <1>2, ArrayType DEF FirstPass, Types
<1>3. CASE StartRead
  <2>1. copy' \in Seq(Items(ftvl)) /\ ftvl' = ftvl
    <3>1. nord \in Nat
      BY DEF Types
    <3>2. ftvl = "STRING" => [i \in 1 .. nord |-> <<>>] \in Seq(Items(ftvl))
      BY <3>1 DEF Items
    <3> QED
      BY <1>3, <3>2 DEF StartRead
  <2> QED
    BY <1>3, <2>1 DEF StartRead, Types
<1>4. CASE ReadElement
  <2>1. at + 1 \in 1 .. NELM /\ ftvl' = ftvl /\ at' = at + 1
    <3>1. at < ReadLimit /\ ftvl' = ftvl /\ at' = at + 1
      BY <1>4 DEF ReadElement
    <3>2. ReadLimit \in 0 .. NELM /\ at \in 0 .. NELM
      BY Limits DEF Types
    <3> QED
      BY <3>1, <3>2
  <2>2. Shown(buf[at + 1]) \in Items(ftvl)
    BY <2>1, ShownType DEF Types
  <2>3. copy' \in Seq(Items(ftvl))
    <3>1. CASE ftvl # "STRING"
      <4>1. copy' = Append(copy, Shown(buf[at + 1]))
        BY <1>4, <3>1 DEF ReadElement, Shown
      <4> QED
        BY <2>2, <4>1, AppendProperties DEF Types
    <3>2. CASE ftvl = "STRING" /\ at < Len(copy)
      <4>1. copy' = [copy EXCEPT ![at + 1] = Shown(buf[at + 1])]
        BY <1>4, <3>2 DEF ReadElement, Shown
      <4>2. at + 1 \in 1 .. Len(copy) /\ copy \in Seq(Items(ftvl))
        BY <2>1, <3>2 DEF Types
      <4> QED
        BY <2>2, <4>1, <4>2, ExceptSeq
    <3>3. CASE ftvl = "STRING" /\ ~(at < Len(copy))
      BY <1>4, <3>3 DEF ReadElement, Types
    <3> QED
      BY <3>1, <3>2, <3>3
  <2>4. pc' \in {"read", "undefined"}
    BY <1>4 DEF ReadElement
  <2>5. UNCHANGED <<ftvl, buf, nord, limit, arg, status, before, found, echoed, touched, passes>>
    BY <1>4 DEF ReadElement
  <2>6. at' \in 0 .. NELM
    BY <2>1
  <2> QED
    BY <2>3, <2>4, <2>5, <2>6 DEF Types
<1>5. CASE SetArgument
  <2>1. ftvl # "STRING" => copy # <<>>
    BY <1>5 DEF SetArgument, ReadLimit, ReadInv, Types
  <2>2. arg' \in Seq(Items(ftvl))
    BY <1>5, <2>1 DEF SetArgument, Types, Items
  <2> QED
    BY <1>5, <2>2 DEF SetArgument, Types
<1>6. CASE Raise
  BY <1>6 DEF Raise, Fail, Types
<1>7. ASSUME NEW list \in Results \cup {Echo}, Return(list)
      PROVE  Types'
  <2> DEFINE vector == Convert(list)
  <2>1. list \in Seq(Element)
    BY EchoValues DEF Element, Types
  <2>2. vector \in Seq(Element)
    BY <2>1, ConvertType
  <2>3. \A i \in 1 .. Len(vector) : Value(vector[i]) \in Items(ftvl)
    BY <2>2, ValueType DEF Types
  <2>4. [i \in DOMAIN vector |-> Value(vector[i])] \in Seq(Items(ftvl))
    BY <2>2, <2>3
  <2>5. CASE Convertible(vector)
    BY <1>7, <2>4, <2>5 DEF Return, Types
  <2>6. CASE ~Convertible(vector)
    BY <1>7, <2>6 DEF Return, Fail, Types
  <2> QED
    BY <2>5, <2>6
<1>8. CASE SetNord
  <2>1. nord' \in 0 .. NELM
    BY <1>8, LesserBound DEF SetNord, Types
  <2> QED
    BY <1>8, <2>1 DEF SetNord, Types
<1>13. CASE SetLimit
  BY <1>13 DEF SetLimit, Types
<1>9. CASE WriteElement
  <2>1. ftvl' = ftvl /\ at' = at + 1 /\ at + 1 \in 1 .. NELM
    BY <1>9, Limits DEF WriteElement, Types
  <2>2. buf' \in [1 .. NELM -> Stored(ftvl)]
    <3>1. CASE at < Len(copy)
      <4>1. copy[at + 1] \in Items(ftvl)
        BY <2>1, <3>1 DEF Types
      <4>2. buf[at + 1] \in Stored(ftvl)
        BY <2>1 DEF Types
      <4>3. (IF ftvl = "STRING" THEN Written(buf[at + 1], copy[at + 1]) ELSE copy[at + 1]) \in Stored(ftvl)
        BY <4>1, <4>2, WrittenShows DEF Stored, Items
      <4> QED
        BY <1>9, <2>1, <3>1, <4>3 DEF WriteElement, Types
    <3>2. CASE ~(at < Len(copy))
      BY <1>9, <3>2 DEF WriteElement, Types
    <3> QED
      BY <3>1, <3>2
  <2>3. pc' \in {"write", "undefined"}
    BY <1>9 DEF WriteElement
  <2> QED
    BY <1>9, <2>1, <2>2, <2>3 DEF WriteElement, Types
<1>10. CASE Succeed
  BY <1>10 DEF Succeed, Types
<1>11. CASE Complete
  BY <1>11 DEF Complete, Types
<1>12. CASE UNCHANGED vars
  BY <1>12 DEF vars, Types
<1> QED
  BY <1>1, <1>2, <1>3, <1>4, <1>5, <1>6, <1>7, <1>8, <1>9, <1>10, <1>11, <1>12, <1>13 DEF Next, Stopped

-----------------------------------------------------------------------------
(* The argument.                                                             *)

LEMMA ShownKept ==
  ASSUME NEW i, ftvl' = ftvl, buf' = buf
  PROVE  Shown(buf[i])' = Shown(buf[i])
BY DEF Shown, Text

LEMMA ReadStep == Types /\ ReadInv /\ [Next]_vars => ReadInv'
<1> SUFFICES ASSUME Types, ReadInv, [Next]_vars, pc' = "read" PROVE ReadInv'
  BY DEF ReadInv
<1>1. ASSUME NEW values \in Puts(ftvl), Put(values)
      PROVE  ReadInv'
  BY <1>1 DEF Put, ReadInv
<1>2. CASE StartRead
  <2>1. at' = 0 /\ ftvl' = ftvl /\ nord' = nord /\ nord \in Nat
    BY <1>2 DEF StartRead, Types
  <2>2. CASE ftvl = "STRING"
    BY <1>2, <2>1, <2>2 DEF StartRead, ReadInv
  <2>3. CASE ftvl # "STRING"
    BY <1>2, <2>1, <2>3 DEF StartRead, ReadInv
  <2> QED
    BY <2>2, <2>3
<1>3. CASE ReadElement
  <2>1. at' = at + 1 /\ at \in Nat /\ UNCHANGED <<ftvl, buf, nord, touched>>
    BY <1>3 DEF ReadElement, Types
  <2>2. CASE ftvl # "STRING"
    <3>1. Len(copy) = at /\ copy' = Append(copy, buf[at + 1]) /\ copy \in Seq(Items(ftvl))
      BY <1>3, <2>2 DEF ReadElement, ReadInv, Types
    <3>2. buf[at + 1] \in Items(ftvl)
      <4>1. at < ReadLimit
        BY <1>3 DEF ReadElement
      <4>2. ReadLimit \in 0 .. NELM /\ at \in 0 .. NELM
        BY Limits DEF Types
      <4>3. at + 1 \in 1 .. NELM
        BY <4>1, <4>2, WaveformAssumption
      <4> QED
        BY <2>2, <4>3 DEF Types, Stored
    <3>3. Len(copy') = at' /\ copy'[at + 1] = buf[at + 1] /\ \A i \in 1 .. at : copy'[i] = copy[i]
      BY <2>1, <3>1, <3>2, AppendProperties
    <3>4. ASSUME touched = "no", NEW i \in 1 .. at + 1
          PROVE  copy'[i] = Shown(buf[i])
      <4>1. CASE i = at + 1
        BY <2>2, <3>3, <4>1 DEF Shown
      <4>2. CASE i # at + 1
        <5>1. i \in 1 .. at
          BY <2>1, <4>2
        <5> QED
          BY <1>3, <3>3, <3>4, <5>1 DEF ReadElement, ReadInv
      <4> QED
        BY <4>1, <4>2
    <3> QED
      BY <2>1, <2>2, <3>3, <3>4, ShownKept DEF ReadInv
  <2>3. CASE ftvl = "STRING"
    <3>1. at < Len(copy) /\ copy' = [copy EXCEPT ![at + 1] = Shown(buf[at + 1])]
      BY <1>3, <2>3 DEF ReadElement, Shown
    <3>2. at + 1 \in 1 .. Len(copy) /\ copy \in Seq(Items(ftvl))
      BY <2>1, <3>1 DEF Types
    <3>3. Len(copy') = Len(copy) /\ \A i \in 1 .. at + 1 : copy'[i] = IF i = at + 1 THEN Shown(buf[i]) ELSE copy[i]
      BY <2>1, <3>1, <3>2
    <3>4. ASSUME touched = "no", NEW i \in 1 .. at + 1
          PROVE  copy'[i] = Shown(buf[i])
      <4>1. CASE i = at + 1
        BY <3>3, <4>1
      <4>2. CASE i # at + 1
        <5>1. i \in 1 .. at
          BY <2>1, <4>2
        <5> QED
          BY <1>3, <3>3, <3>4, <5>1 DEF ReadElement, ReadInv
      <4> QED
        BY <4>1, <4>2
    <3>5. touched = "no" => Len(copy) = nord
      BY <1>3, <2>3 DEF ReadElement, ReadInv
    <3> QED
      BY <2>1, <2>3, <3>2, <3>3, <3>4, <3>5, ShownKept DEF ReadInv
  <2> QED
    BY <2>2, <2>3
<1>4. CASE UNCHANGED vars
  BY <1>4 DEF vars, ReadInv, Shown, Text
<1>5. ASSUME \/ FirstPass \/ SetArgument \/ Raise \/ SetNord \/ SetLimit \/ WriteElement \/ Succeed \/ Complete
             \/ \E list \in Results \cup {Echo} : Return(list)
      PROVE  FALSE
  BY <1>5 DEF FirstPass, SetArgument, Raise, Fail, SetNord, SetLimit, WriteElement, Succeed, Complete, Return
<1> QED
  BY <1>1, <1>2, <1>3, <1>4, <1>5 DEF Next, Stopped

LEMMA BeforeStep == BeforeInv /\ [Next]_vars => BeforeInv'
<1> SUFFICES ASSUME BeforeInv, [Next]_vars, touched' = "no",
                    \/ pc' \in {"queued", "read", "code", "count"}
                    \/ pc' \in {"done", "idle"} /\ status' = "fail"
             PROVE  before' = Array'
  BY DEF BeforeInv
<1>1. CASE FirstPass
  BY <1>1 DEF FirstPass, Array, Shown, Text
<1>2. CASE /\ pc \in {"queued", "read", "code", "count"} \/ (pc \in {"done", "idle"} /\ status = "fail")
           /\ UNCHANGED <<ftvl, buf, nord, before, touched>>
  BY <1>2 DEF BeforeInv, Array, Shown, Text
<1>3. UNCHANGED vars \/ Complete =>
        /\ pc \in {"queued", "read", "code", "count"} \/ (pc \in {"done", "idle"} /\ status = "fail")
        /\ UNCHANGED <<ftvl, buf, nord, before, touched>>
  BY DEF vars, Complete
<1>4. StartRead \/ ReadElement \/ SetArgument \/ Raise =>
        pc \in {"queued", "read", "code"} /\ UNCHANGED <<ftvl, buf, nord, before, touched>>
  BY DEF StartRead, ReadElement, SetArgument, Raise, Fail
<1>5. ASSUME NEW list \in Results \cup {Echo}, Return(list)
      PROVE  pc = "code" /\ UNCHANGED <<ftvl, buf, nord, before, touched>>
  BY <1>5 DEF Return, Fail
<1>6. ASSUME NEW values \in Puts(ftvl), Put(values)
      PROVE  FALSE
  BY <1>6 DEF Put
<1>7. ASSUME SetNord \/ SetLimit \/ WriteElement \/ Succeed
      PROVE  FALSE
  BY <1>7 DEF SetNord, SetLimit, WriteElement, Succeed
<1> QED
  BY <1>1, <1>2, <1>3, <1>4, <1>5, <1>6, <1>7 DEF Next, Stopped

LEMMA ArgStep == Types /\ ReadInv /\ ArgInv /\ [Next]_vars => ArgInv'
<1> SUFFICES ASSUME Types, ReadInv, ArgInv, [Next]_vars, pc' = "code", touched' = "no",
                    ftvl' = "STRING" => nord' > 0
             PROVE  nord' <= Len(arg') /\ \A i \in 1 .. nord' : arg'[i] = Shown(buf[i])'
  BY DEF ArgInv
<1>1. CASE SetArgument
  <2>1. pc = "read" /\ touched = "no" /\ UNCHANGED <<ftvl, buf, nord>> /\ at >= ReadLimit
    BY <1>1 DEF SetArgument
  <2>2. at <= Len(copy) /\ (ftvl = "STRING" => Len(copy) = nord)
    BY <2>1 DEF ReadInv
  <2>3. nord <= at /\ at \in 0 .. NELM /\ nord \in 0 .. NELM
    BY <2>1, WaveformAssumption DEF ReadLimit, Types
  <2>4. copy # <<>>
    <3>1. CASE ftvl = "STRING"
      BY <2>1, <2>2, <2>3, <3>1 DEF Types
    <3>2. CASE ftvl # "STRING"
      BY <2>1, <2>2, <3>2, WaveformAssumption DEF ReadLimit, Types
    <3> QED
      BY <3>1, <3>2
  <2>5. arg' = copy
    BY <1>1, <2>4 DEF SetArgument
  <2>6. ASSUME NEW i \in 1 .. nord
        PROVE  copy[i] = Shown(buf[i])
    BY <2>1, <2>3 DEF ReadInv
  <2> QED
    BY <2>1, <2>2, <2>3, <2>5, <2>6, ShownKept DEF Types
<1>2. CASE UNCHANGED vars
  BY <1>2 DEF vars, ArgInv, Shown, Text
<1>3. ASSUME NEW values \in Puts(ftvl), Put(values)
      PROVE  FALSE
  BY <1>3 DEF Put
<1>4. ASSUME \/ FirstPass \/ StartRead \/ ReadElement \/ Raise \/ SetNord \/ SetLimit \/ WriteElement \/ Succeed \/ Complete
             \/ \E list \in Results \cup {Echo} : Return(list)
      PROVE  FALSE
  BY <1>4 DEF FirstPass, StartRead, ReadElement, Raise, Fail, SetNord, SetLimit, WriteElement, Succeed, Complete, Return
<1> QED
  BY <1>1, <1>2, <1>3, <1>4 DEF Next, Stopped

-----------------------------------------------------------------------------
(* The result.                                                               *)

LEMMA IsWrittenKept ==
  ASSUME NEW i, IsWritten(i), ftvl' = ftvl, buf'[i] = buf[i], found'[i] = found[i], copy'[i] = copy[i]
  PROVE  IsWritten(i)'
BY DEF IsWritten, Cut, Text

\* At the end of the copy NORD still counts the elements copied.
LEMMA WriteEnds ==
  ASSUME Types, nord = Lesser(Len(copy), NELM), ftvl # "STRING" => limit = nord
  PROVE  WriteLimit = nord /\ nord <= Len(copy) /\ nord <= NELM
<1>1. Len(copy) \in Nat /\ NELM \in Nat
  BY WaveformAssumption DEF Types
<1> QED
  BY <1>1, LesserBound DEF WriteLimit

LEMMA WriteStep == Types /\ WriteInv /\ [Next]_vars => WriteInv'
<1> SUFFICES ASSUME Types, WriteInv, [Next]_vars, touched' # "late" PROVE WriteInv'
  BY DEF WriteInv
<1>1. ASSUME NEW values \in Puts(ftvl), Put(values)
      PROVE  WriteInv'
  BY <1>1 DEF Put, WriteInv
<1>2. CASE SetNord
  <2>1. /\ pc' \in {"limit", "write"} /\ (pc' = "write" => ftvl' = "STRING")
        /\ nord' = Lesser(Len(copy'), NELM) /\ at' = 0 /\ found' = buf'
        /\ nord' \in Nat
    BY <1>2, LesserBound, WaveformAssumption DEF SetNord, Types
  <2> QED
    BY <2>1 DEF WriteInv
<1>11. CASE SetLimit
  <2>1. /\ pc = "limit" /\ pc' = "write" /\ limit' = nord /\ touched' = touched
        /\ UNCHANGED <<ftvl, buf, nord, copy, found, at>>
    BY <1>11 DEF SetLimit
  <2>2. ASSUME NEW i, IsWritten(i)
        PROVE  IsWritten(i)'
    BY <2>1, <2>2, IsWrittenKept
  <2>3. /\ nord = Lesser(Len(copy), NELM) /\ at <= nord
        /\ \A i \in 1 .. at : IsWritten(i)
        /\ \A i \in at + 1 .. NELM : buf[i] = found[i]
    BY <2>1 DEF WriteInv
  <2>4. \A i \in 1 .. at' : IsWritten(i)'
    BY <2>1, <2>2, <2>3
  <2>5. \A i \in at' + 1 .. NELM : buf'[i] = found'[i]
    BY <2>1, <2>3
  <2> QED
    BY <2>1, <2>3, <2>4, <2>5 DEF WriteInv
<1>3. CASE WriteElement /\ pc' = "write"
  <2>1. /\ pc = "write" /\ touched # "late" /\ at < WriteLimit /\ at < Len(copy) /\ at' = at + 1
        /\ buf' = [buf EXCEPT ![at + 1] = IF ftvl = "STRING" THEN Written(@, copy[at + 1]) ELSE copy[at + 1]]
        /\ UNCHANGED <<ftvl, nord, copy, found, limit>>
    BY <1>3 DEF WriteElement
  <2>2. /\ nord = Lesser(Len(copy), NELM) /\ (ftvl # "STRING" => limit = nord) /\ \A i \in 1 .. at : IsWritten(i)
        /\ \A i \in at + 1 .. NELM : buf[i] = found[i]
    BY <2>1 DEF WriteInv
  <2>3. /\ at + 1 <= nord /\ nord <= NELM /\ at \in Nat /\ nord \in Nat /\ at + 1 \in 1 .. NELM
        /\ at + 1 \in 1 .. Len(copy) /\ NELM \in Nat
    BY <2>1, <2>2, WriteEnds, WaveformAssumption DEF Types
  <2>4. \A i \in 1 .. NELM : i # at + 1 => buf'[i] = buf[i]
    BY <2>1 DEF Types
  <2>5. ASSUME NEW i \in 1 .. at
        PROVE  IsWritten(i)'
    BY <2>1, <2>2, <2>3, <2>4, IsWrittenKept
  <2>6. ASSUME NEW i, i = at + 1
        PROVE  IsWritten(i)'
    <3>1. buf[i] = found[i] /\ buf[i] \in Stored(ftvl) /\ copy[i] \in Items(ftvl)
      BY <2>2, <2>3, <2>6 DEF Types
    <3>2. buf'[i] = IF ftvl = "STRING" THEN Written(found[i], copy[i]) ELSE copy[i]
      BY <2>1, <2>3, <2>6, <3>1 DEF Types
    <3>3. CASE ftvl # "STRING"
      BY <2>1, <3>2, <3>3 DEF IsWritten
    <3>4. CASE ftvl = "STRING"
      <4>1. found[i] \in Cells /\ copy[i] \in Seq(Char)
        BY <3>1, <3>4 DEF Stored, Items
      <4>2. Text(buf'[i]) = Text(Written(found[i], copy[i]))
        BY <3>2, <3>4
      <4>3. \/ Text(buf'[i]) = Cut(copy[i])
            \/ /\ Len(Text(found[i])) > Len(Cut(copy[i]))
               /\ Text(buf'[i]) = Cut(copy[i]) \o SubSeq(Text(found[i]), Len(Cut(copy[i])) + 1, Len(Text(found[i])))
        BY <4>1, <4>2, WrittenShows
      <4>4. Text(buf[i])' = Text(buf'[i]) /\ Text(found[i])' = Text(found[i]) /\ Cut(copy[i])' = Cut(copy[i])
        BY <2>1 DEF Text, Cut
      <4> QED
        BY <2>1, <3>4, <4>3, <4>4 DEF IsWritten
    <3> QED
      BY <3>3, <3>4
  <2>7. \A i \in 1 .. at + 1 : IsWritten(i)'
    BY <2>3, <2>5, <2>6
  <2>8. \A i \in at + 2 .. NELM : buf'[i] = found'[i]
    BY <2>1, <2>2, <2>3, <2>4
  <2>9. \A i \in 1 .. at' : IsWritten(i)'
    BY <2>1, <2>7
  <2> QED
    BY <1>3, <2>1, <2>2, <2>3, <2>8, <2>9 DEF WriteInv
<1>4. CASE Succeed
  <2>1. /\ pc = "write" /\ touched # "late" /\ at >= WriteLimit /\ pc' = "done"
        /\ UNCHANGED <<ftvl, buf, nord, copy, found>>
    BY <1>4 DEF Succeed
  <2>2. /\ nord = Lesser(Len(copy), NELM) /\ (ftvl # "STRING" => limit = nord)
        /\ at <= nord /\ \A i \in 1 .. at : IsWritten(i)
    BY <2>1 DEF WriteInv
  <2>3. at = nord
    BY <2>1, <2>2, WriteEnds DEF Types
  <2>4. ASSUME NEW i \in 1 .. nord
        PROVE  IsWritten(i)'
    BY <2>1, <2>2, <2>3, IsWrittenKept
  <2>5. \A i \in 1 .. nord' : IsWritten(i)'
    BY <2>1, <2>4
  <2> QED
    BY <2>1, <2>2, <2>5 DEF WriteInv
<1>5. CASE Complete \/ UNCHANGED vars
  <2>1. /\ pc' = pc \/ (pc = "done" /\ pc' = "idle")
        /\ UNCHANGED <<ftvl, buf, nord, copy, found, at, limit, status, touched>>
    BY <1>5 DEF Complete, vars
  <2>2. ASSUME NEW i, IsWritten(i)
        PROVE  IsWritten(i)'
    BY <2>1, <2>2, IsWrittenKept
  <2>3. \A i \in 1 .. at' : (\A j \in 1 .. at : IsWritten(j)) => IsWritten(i)'
    BY <2>1, <2>2
  <2>4. \A i \in 1 .. nord' : (\A j \in 1 .. nord : IsWritten(j)) => IsWritten(i)'
    BY <2>1, <2>2
  <2> QED
    BY <2>1, <2>3, <2>4 DEF WriteInv
<1>6. CASE pc' \in {"queued", "read", "code", "count", "undefined"} \/ (pc' = "done" /\ status' = "fail")
  BY <1>6 DEF WriteInv
<1>7. ASSUME NEW list \in Results \cup {Echo}, Return(list)
      PROVE  pc' = "count" \/ (pc' = "done" /\ status' = "fail")
  BY <1>7 DEF Return, Fail
<1>8. FirstPass \/ StartRead \/ ReadElement \/ SetArgument =>
        pc' \in {"queued", "read", "code", "undefined"}
  BY DEF FirstPass, StartRead, ReadElement, SetArgument
<1>9. Raise => pc' = "done" /\ status' = "fail"
  BY DEF Raise, Fail
<1>10. WriteElement => pc' \in {"write", "undefined"}
  BY DEF WriteElement
<1> QED
  BY <1>1, <1>2, <1>3, <1>4, <1>5, <1>6, <1>7, <1>8, <1>9, <1>10, <1>11 DEF Next, Stopped

LEMMA EchoStep == Types /\ BeforeInv /\ ArgInv /\ EchoInv /\ [Next]_vars => EchoInv'
<1> SUFFICES ASSUME Types, BeforeInv, ArgInv, EchoInv, [Next]_vars,
                    echoed', touched' = "no", ftvl' = "STRING" => before' # <<>>
             PROVE  EchoInv'
  BY DEF EchoInv
<1>1. ASSUME NEW list \in Results \cup {Echo}, Return(list), pc' = "count"
      PROVE  EchoInv'
  <2>1. /\ pc = "code" /\ touched = "no" /\ list = Echo /\ ftvl' = ftvl /\ before' = before
        /\ copy' = [i \in DOMAIN Convert(list) |-> Value(Convert(list)[i])]
    BY <1>1 DEF Return, Fail
  <2>2. copy' = arg
    BY <2>1, EchoValues DEF Types
  <2>3. before = Array /\ Len(before) = nord /\ \A i \in 1 .. nord : before[i] = Shown(buf[i])
    BY <2>1, ArrayType DEF BeforeInv
  <2>4. ftvl = "STRING" => nord > 0
    BY <2>1, <2>3 DEF Types
  <2>5. nord <= Len(arg) /\ \A i \in 1 .. nord : arg[i] = Shown(buf[i])
    BY <2>1, <2>4 DEF ArgInv
  <2> QED
    BY <1>1, <2>1, <2>2, <2>3, <2>5 DEF EchoInv
<1>2. CASE SetNord
  <2>1. pc = "count" /\ pc' \in {"limit", "write"} /\ found' = buf /\ UNCHANGED <<ftvl, before, copy, echoed, touched>>
    BY <1>2 DEF SetNord
  <2>2. before = Array
    BY <2>1 DEF BeforeInv
  <2>3. \A i \in 1 .. Len(before) : before[i] = Shown(buf[i])
    BY <2>2, ArrayType
  <2>4. ASSUME NEW i
        PROVE  Shown(found[i])' = Shown(buf[i])
    BY <2>1 DEF Shown, Text
  <2> QED
    BY <2>1, <2>3, <2>4 DEF EchoInv
<1>3. CASE /\ pc \in {"limit", "write"} \/ (pc \in {"done", "idle"} /\ status = "ok")
           /\ UNCHANGED <<ftvl, before, copy, found, echoed, touched>>
  <2>1. ASSUME NEW i
        PROVE  Shown(found[i])' = Shown(found[i])
    BY <1>3 DEF Shown, Text
  <2> QED
    BY <1>3, <2>1 DEF EchoInv
<1>4. CASE ~(pc' \in {"count", "limit", "write"} \/ (pc' \in {"done", "idle"} /\ status' = "ok"))
  BY <1>4 DEF EchoInv
<1>5. ASSUME NEW list \in Results \cup {Echo}, Return(list)
      PROVE  pc' = "count" \/ (pc' = "done" /\ status' = "fail")
  BY <1>5 DEF Return, Fail
<1>6. ASSUME NEW values \in Puts(ftvl), Put(values)
      PROVE  FALSE
  BY <1>6 DEF Put
<1>7. FirstPass \/ StartRead \/ ReadElement \/ SetArgument =>
        pc' \in {"queued", "read", "code", "undefined"}
  BY DEF FirstPass, StartRead, ReadElement, SetArgument
<1>8. Raise => pc' = "done" /\ status' = "fail"
  BY DEF Raise, Fail
<1>9. SetLimit \/ WriteElement \/ Succeed =>
        pc \in {"limit", "write"} /\ UNCHANGED <<ftvl, before, copy, found, echoed, touched>>
  BY DEF SetLimit, WriteElement, Succeed
<1>10. Complete => pc = "done" /\ pc' = "idle" /\ status' = status
                   /\ UNCHANGED <<ftvl, before, copy, found, echoed, touched>>
  BY DEF Complete
<1>11. CASE UNCHANGED vars
  BY <1>11 DEF vars, EchoInv, Shown, Text
<1> QED
  BY <1>1, <1>2, <1>3, <1>4, <1>5, <1>6, <1>7, <1>8, <1>9, <1>10, <1>11 DEF Next, Stopped

LEMMA UndefinedStep ==
  Types /\ ReadInv /\ WriteInv /\ UndefinedNeedsPut /\ [Next]_vars => UndefinedNeedsPut'
<1> SUFFICES ASSUME Types, ReadInv, WriteInv, UndefinedNeedsPut, [Next]_vars, pc' = "undefined", touched' = "no"
             PROVE  FALSE
  BY DEF UndefinedNeedsPut
<1>1. CASE ReadElement
  <2>1. pc = "read" /\ touched = "no" /\ ftvl = "STRING" /\ at < nord /\ ~(at < Len(copy))
    BY <1>1 DEF ReadElement, ReadLimit
  <2> QED
    BY <2>1 DEF ReadInv, Types
<1>2. CASE WriteElement
  <2>1. pc = "write" /\ touched = "no" /\ at < WriteLimit /\ ~(at < Len(copy))
    BY <1>2 DEF WriteElement
  <2>2. WriteLimit <= Len(copy) /\ WriteLimit \in Nat /\ Len(copy) \in Nat
    BY <2>1, WriteEnds, Limits DEF WriteInv, Types
  <2> QED
    BY <2>1, <2>2 DEF Types
<1>3. CASE UNCHANGED vars
  BY <1>3 DEF vars, UndefinedNeedsPut
<1>4. ASSUME NEW values \in Puts(ftvl), Put(values)
      PROVE  FALSE
  BY <1>4 DEF Put
<1>5. ASSUME \/ FirstPass \/ StartRead \/ SetArgument \/ Raise \/ SetNord \/ SetLimit \/ Succeed \/ Complete
             \/ \E list \in Results \cup {Echo} : Return(list)
      PROVE  FALSE
  BY <1>5 DEF FirstPass, StartRead, SetArgument, Raise, Fail, SetNord, SetLimit, Succeed, Complete, Return
<1> QED
  BY <1>1, <1>2, <1>3, <1>4, <1>5 DEF Next, Stopped

LEMMA NextInv == IInv /\ [Next]_vars => IInv'
BY TypesStep, ReadStep, BeforeStep, ArgStep, WriteStep, EchoStep, UndefinedStep DEF IInv

-----------------------------------------------------------------------------
(* The theorems.                                                             *)

LEMMA PrefixByElements ==
  ASSUME NEW S, NEW s \in Seq(S), NEW t \in Seq(S), Len(s) <= Len(t),
         \A i \in 1 .. Len(s) : s[i] = t[i]
  PROVE  IsPrefix(s, t)
<1> DEFINE u == SubSeq(t, 1, Len(s))
<1>1. \A i \in 1 .. Len(s) : t[i] \in S
  OBVIOUS
<1>2. u \in Seq(S) /\ Len(u) = Len(s) /\ \A i \in 1 .. Len(s) : u[i] = t[i]
  BY <1>1, SubSeqProperties
<1>3. SubSeq(s, 1, Len(s)) = s
  BY SubSeqFull
<1> HIDE DEF u
<1>4. u = s
  BY <1>2, SeqEqual
<1> QED
  BY <1>3, <1>4 DEF IsPrefix, u

\* The inductive invariant: what each of the two loops has copied (pydev_waveform.cpp:181-202,
\* 82-103, 216-225), and that until NORD is written only a client changes the array.
THEOREM Invariance == Spec => []IInv
<1>1. Init => IInv
  BY InitInv
<1>2. IInv /\ [Next]_vars => IInv'
  BY NextInv
<1> QED
  BY <1>1, <1>2, PTL DEF Spec

\* Every element of the buffer is a cell of Size characters, or a number that fits the FTVL, and
\* NORD and the loops stay within NELM (pydev_waveform.cpp:82-103, 181-202).
THEOREM TypeCorrect == Spec => []TypeOK
<1>1. Types => TypeOK
  <2> SUFFICES ASSUME Types PROVE TypeOK
    OBVIOUS
  <2>1. \A c \in Cells : c \in Seq(Char \cup {NUL}) /\ Len(c) = Size
    BY WaveformAssumption DEF Cells
  <2>2. \A i \in 1 .. NELM : buf[i] \in Elements
    BY <2>1 DEF Types, Stored, Elements
  <2> QED
    BY <2>2 DEF Types, TypeOK
<1> QED
  BY <1>1, Invariance, PTL DEF IInv

\* After a pass that succeeded the record shows the converted list, each string as far as its
\* cell holds it and then, at most, the tail of what the cell showed before; after one that
\* failed the array is what it was (pydev_waveform.cpp:82-103, 216-225).
THEOREM RestAlwaysShown == Spec => []ArrayAtRest
<1>1. WriteInv /\ BeforeInv => ArrayAtRest
  BY DEF WriteInv, BeforeInv, ArrayAtRest, AtRest, IsWritten, Cut
<1> QED
  BY <1>1, Invariance, PTL DEF IInv

\* The code is evaluated with the record's own array as the first elements of its argument
\* (pydev_waveform.cpp:181-202).
THEOREM ArgumentAlwaysShown == Spec => []ArgumentShown
<1>1. Types /\ ArgInv => ArgumentShown
  <2> SUFFICES ASSUME Types, ArgInv, pc = "code", touched = "no", ftvl = "STRING" => nord > 0
               PROVE  IsPrefix(Array, arg)
    BY DEF ArgumentShown
  <2>1. Array \in Seq(Items(ftvl)) /\ Len(Array) = nord /\ \A i \in 1 .. nord : Array[i] = Shown(buf[i])
    BY ArrayType
  <2>2. arg \in Seq(Items(ftvl)) /\ nord <= Len(arg) /\ \A i \in 1 .. nord : arg[i] = Shown(buf[i])
    BY DEF Types, ArgInv
  <2> QED
    BY <2>1, <2>2, PrefixByElements
<1> QED
  BY <1>1, Invariance, PTL DEF IInv

\* An argument that the code returns as it is survives the conversion to Python, back to a
\* vector and into the buffer: no element is lost, and no character, for what is in a cell fits
\* it again (pydev_waveform.cpp:181-200, 216-225).
THEOREM EchoAlwaysKeepsArray == Spec => []EchoKeepsArray
<1>1. Types /\ WriteInv /\ EchoInv => EchoKeepsArray
  <2> SUFFICES ASSUME Types, WriteInv, EchoInv, pc = "idle", status = "ok", echoed, touched = "no",
                      ftvl = "STRING" => before # <<>>
               PROVE  IsPrefix(before, Array)
    BY DEF EchoKeepsArray, AtRest
  <2>1. /\ Len(before) <= Len(copy) /\ Len(before) <= NELM
        /\ \A i \in 1 .. Len(before) : before[i] = copy[i] /\ before[i] = Shown(found[i])
    BY DEF EchoInv, Types
  <2>2. nord = Lesser(Len(copy), NELM) /\ \A i \in 1 .. nord : IsWritten(i)
    BY DEF WriteInv
  <2>3. Len(before) <= nord /\ nord <= NELM /\ Len(before) \in Nat /\ nord \in Nat
    BY <2>1, <2>2, WaveformAssumption DEF Lesser, Types
  <2>4. Array \in Seq(Items(ftvl)) /\ Len(Array) = nord /\ \A i \in 1 .. nord : Array[i] = Shown(buf[i])
    BY ArrayType
  <2>5. ASSUME NEW i \in 1 .. Len(before)
        PROVE  before[i] = Array[i]
    <3>1. i \in 1 .. nord /\ i \in 1 .. NELM
      BY <2>3, WaveformAssumption
    <3>2. Array[i] = Shown(buf[i]) /\ IsWritten(i) /\ before[i] = copy[i] /\ before[i] = Shown(found[i])
      BY <2>1, <2>2, <2>4, <3>1
    <3>3. CASE ftvl # "STRING"
      BY <3>2, <3>3 DEF IsWritten, Shown
    <3>4. CASE ftvl = "STRING"
      <4>1. found[i] \in Cells
        BY <3>1, <3>4 DEF Types, Stored
      <4>2. copy[i] = Text(found[i]) /\ Array[i] = Text(buf[i])
        BY <3>2, <3>4 DEF Shown
      <4>3. Cut(copy[i]) = Text(found[i])
        BY <4>1, <4>2, TextOfCell, CutFits
      <4>4. Len(Text(found[i])) \in Nat
        BY <4>1, TextOfCell
      <4>5. \/ Text(buf[i]) = Cut(copy[i])
            \/ Len(Text(found[i])) > Len(Cut(copy[i]))
        BY <3>2, <3>4 DEF IsWritten
      <4>6. Text(buf[i]) = Text(found[i])
        BY <4>3, <4>4, <4>5
      <4> QED
        BY <3>2, <4>2, <4>6
    <3> QED
      BY <3>3, <3>4
  <2>6. before \in Seq(Items(ftvl))
    BY DEF Types
  <2> QED
    BY <2>3, <2>4, <2>5, <2>6, PrefixByElements
<1> QED
  BY <1>1, Invariance, PTL DEF IInv

\* No loop leaves its vector unless a client's put changed NORD during the pass
\* (pydev_waveform.cpp:85, 192).
THEOREM UndefinedAlwaysNeedsPut == Spec => []UndefinedNeedsPut
BY Invariance, PTL DEF IInv

=============================================================================

------------------------------- MODULE Macros -------------------------------
(***************************************************************************)
(* The macros of a record's code: how processRecordCb finds the fields     *)
(* that the code in INP, OUT or CALC names (getMacros, src/src/util.cpp),  *)
(* gives each its argument and writes the argument's name in place of the  *)
(* field's (replaceMacro), one macro after the other.  The text is a       *)
(* sequence of characters that clients type while the record is idle.      *)
(* A field is a word of capitals; pydevVAL is Prefix \o VAL.               *)
(***************************************************************************)
EXTENDS Integers, Sequences

CONSTANTS Upper, Lower, Digits, Others,  \* the characters, by class
          Fields,        \* the fields that the device support knows
          Misnamed,      \* those whose argument gets the name of another field
          MaxFieldLen,   \* MAX_FIELD_LEN
          Prefix,        \* "pydev"
          MaxLen         \* bounds the length of the text

Alpha == Upper \cup Lower
Alnum == Alpha \cup Digits
Chars == Alnum \cup Others
Text == Seq(Chars)

ASSUME MacrosAssumption ==
  /\ Alnum \cap Others = {} /\ Upper \cap Lower = {} /\ Alpha \cap Digits = {}
  /\ "%" \in Others /\ "none" \notin Chars
  /\ MaxFieldLen \in Nat \ {0} /\ MaxLen \in Nat
  /\ Fields \subseteq Seq(Upper) \ {<<>>} /\ \A f \in Fields : Len(f) <= MaxFieldLen
  /\ Misnamed \subseteq Fields
  /\ Prefix \in Seq(Lower) \ {<<>>}

VARIABLES
  text,       \* the code in the record's field
  looping,    \* processRecordCb is in its loop over the macros
  todo,       \* the macros that the loop has still to look at
  rewritten,  \* the code as rewritten so far
  args        \* the names of the arguments set so far

macroVars == <<text, looping, todo, rewritten, args>>

-----------------------------------------------------------------------------
(* getMacros.                                                                *)

Flush(s) ==
  [token |-> <<>>,
   fields |-> IF s.token # <<>> /\ Len(s.token) <= MaxFieldLen
                THEN Append(s.fields, s.token) ELSE s.fields]

ScanChar_BugNoPrevious(s, previous, c) ==
  CASE c \in Upper -> [s EXCEPT !.token = Append(@, c)]
    [] c \in Lower -> [s EXCEPT !.token = <<>>]
    [] OTHER -> Flush(s)

\* One character: a token starts at a capital that follows no letter, and lower case voids it.
ScanChar(s, previous, c) ==
  CASE c \in Upper -> IF previous \notin Alpha \/ s.token # <<>>
                        THEN [s EXCEPT !.token = Append(@, c)] ELSE s
    [] c \in Lower -> [s EXCEPT !.token = <<>>]
    [] OTHER -> Flush(s)

getMacros(t) ==
  LET before(i) == IF i = 1 THEN "none" ELSE t[i - 1]
      state[i \in 0 .. Len(t)] ==
        IF i = 0 THEN [token |-> <<>>, fields |-> <<>>]
        ELSE ScanChar(state[i - 1], before(i), t[i])
  IN Flush(state[Len(t)]).fields

-----------------------------------------------------------------------------
(* replaceMacro.                                                             *)

Starts(v, w) == Len(w) <= Len(v) /\ SubSeq(v, 1, Len(w)) = w
After(v, w) == SubSeq(v, Len(w) + 1, Len(v))

\* The word w at the start of v, with no letter or digit behind it; free says the same of what
\* precedes, which does not matter right after a replacement.
Stands(v, w, free) == free /\ Starts(v, w) /\ (v = w \/ v[Len(w) + 1] \notin Alnum)

Enclosed(w) == <<"%">> \o w \o <<"%">>

replaceMacro_BugNoNext(t, s, new) ==
  LET rest[v \in Text] == [free \in BOOLEAN |->
        IF v = <<>> THEN <<>>
        ELSE IF free /\ Starts(v, s) THEN new \o rest[After(v, s)][TRUE]
        ELSE IF Starts(v, Enclosed(s)) THEN new \o rest[After(v, Enclosed(s))][TRUE]
        ELSE <<Head(v)>> \o rest[Tail(v)][Head(v) \notin Alnum]]
  IN rest[t][TRUE]

\* From left to right; what has been written is not looked at again.
replaceMacro(t, s, new) ==
  LET rest[v \in Text] == [free \in BOOLEAN |->
        IF v = <<>> THEN <<>>
        ELSE IF Stands(v, s, free) THEN new \o rest[After(v, s)][TRUE]
        ELSE IF Starts(v, Enclosed(s)) THEN new \o rest[After(v, Enclosed(s))][TRUE]
        ELSE <<Head(v)>> \o rest[Tail(v)][Head(v) \notin Alnum]]
  IN rest[t][TRUE]

Name(f) == Prefix \o f

\* The key of args: pydev_bi.cpp and pydev_bo.cpp set pydevEGU for ZNAM and pydevHOPR for ONAM.
Argument(f) == IF f \in Misnamed THEN <<"other">> \o f ELSE Name(f)

-----------------------------------------------------------------------------
MacroInit ==
  /\ text = <<>>
  /\ looping = FALSE
  /\ todo = <<>>
  /\ rewritten = <<>>
  /\ args = {}

\* A client, or the database, gives the record its code.
Type(c) ==
  /\ ~looping /\ rewritten = <<>>
  /\ Len(text) < MaxLen
  /\ text' = Append(text, c)
  /\ UNCHANGED <<looping, todo, rewritten, args>>

\* Each processing of the record starts from the text again.
StartLoop ==
  /\ ~looping
  /\ looping' = TRUE
  /\ todo' = getMacros(text)
  /\ rewritten' = text
  /\ args' = {}
  /\ UNCHANGED text

Replace_BugOnce ==
  LET f == Head(todo) IN
  /\ looping /\ todo # <<>>
  /\ todo' = Tail(todo)
  /\ IF f \in Fields /\ args = {}
       THEN args' = args \cup {Argument(f)} /\ rewritten' = replaceMacro(rewritten, f, Name(f))
       ELSE UNCHANGED <<args, rewritten>>
  /\ UNCHANGED <<text, looping>>

\* A macro that is no field of the record is passed over.
Replace ==
  LET f == Head(todo) IN
  /\ looping /\ todo # <<>>
  /\ todo' = Tail(todo)
  /\ IF f \in Fields
       THEN args' = args \cup {Argument(f)} /\ rewritten' = replaceMacro(rewritten, f, Name(f))
       ELSE UNCHANGED <<args, rewritten>>
  /\ UNCHANGED <<text, looping>>

\* The code goes on to be compiled and evaluated.
EndLoop ==
  /\ looping /\ todo = <<>>
  /\ looping' = FALSE
  /\ UNCHANGED <<text, todo, rewritten, args>>

MacroNext == (\E c \in Chars : Type(c)) \/ StartLoop \/ Replace \/ EndLoop

MacroSpec == MacroInit /\ [][MacroNext]_macroVars

-----------------------------------------------------------------------------
(* Properties.                                                               *)

\* What is typed, found and written are texts, and every argument is that of a field.
MacroTypeOK ==
  /\ text \in Text
  /\ looping \in BOOLEAN
  /\ todo \in Seq(Text)
  /\ rewritten \in Text
  /\ args \subseteq {Argument(f) : f \in Fields}

Done == ~looping /\ rewritten # <<>>

\* The stretches of t between characters that are not of the class.
Split(t, class) ==
  LET pieces[v \in Text] ==
        IF v = <<>> THEN <<<<>>>>
        ELSE LET behind == pieces[Tail(v)] IN
             IF Head(v) \in class THEN <<<<Head(v)>> \o Head(behind)>> \o Tail(behind)
             ELSE <<<<>>>> \o behind
  IN pieces[t]

IsMacro(w) == w \in Seq(Upper) \ {<<>>} /\ Len(w) <= MaxFieldLen

\* Those of the words that are macros, in their order.
OnlyMacros(words) ==
  LET rest[s \in Seq(Text)] ==
        IF s = <<>> THEN <<>>
        ELSE (IF IsMacro(Head(s)) THEN <<Head(s)>> ELSE <<>>) \o rest[Tail(s)]
  IN rest[words]

\* The scanner of one character at a time finds, in their order, exactly the words of the text that
\* consist of capitals and are no longer than a field's name: README.md:124, "stand-alone
\* upper-case words" (util.cpp:13-43).
MacrosFound == getMacros(text) = OnlyMacros(Split(text, Alpha))

\* The fields that a replacement would take at the start of v.
Hits(v, free, fields) == {f \in fields : Stands(v, f, free) \/ Starts(v, Enclosed(f))}

\* All these fields at once, from left to right: what README.md:124 and 182 describe.
AtOnce(t, atStart, fields) ==
  LET rest[v \in Text] == [free \in BOOLEAN |->
        LET hits == Hits(v, free, fields)
            hit == CHOOSE f \in hits : TRUE
        IN IF v = <<>> THEN <<>>
           ELSE IF hits = {} THEN <<Head(v)>> \o rest[Tail(v)][Head(v) \notin Alnum]
           ELSE Name(hit) \o rest[After(v, IF Starts(v, hit) THEN hit ELSE Enclosed(hit))][TRUE]]
  IN rest[t][atStart]

\* Another field's word right behind, or right before, an enclosed field: %VAL%A%, A%VAL%.
Touching(t) ==
  \E i \in 1 .. Len(t) : \E f, g \in Fields :
    LET v == SubSeq(t, i, Len(t)) IN
    f # g /\ (Starts(v, Enclosed(f) \o g) \/ Starts(v, f \o Enclosed(g)))

\* Replacing one macro after the other comes to the same as replacing all at once: no replacement
\* reads, or runs into, what an earlier one has written, and none is forgotten.  The exception is two
\* fields that touch: the first replacement may join its name to the other field, which then is no
\* word of its own and stays, although test_util.cpp:103 counts two macros in %VAL%A%
\* (util.cpp:45-81, pydev_longin.cpp:88-99).
FieldsReplaced == Done /\ ~Touching(text) => rewritten = AtOnce(text, TRUE, Fields)

\* In code without % signs every word that is no field stays, and no two words are joined: the words
\* of the new code are those of the old, in their order, with the fields' renamed.  To the scanner an
\* underscore ends a word: the Python name MAX_VAL is taken apart (util.cpp:58, 61).
NamesKept ==
  Done /\ (\A i \in DOMAIN text : text[i] # "%") =>
    LET old == Split(text, Alnum)
        Renamed(w) == IF w \in Fields THEN Name(w) ELSE w
    IN Split(rewritten, Alnum) = [i \in DOMAIN old |-> Renamed(old[i])]

\* README.md:182: the fields can be used like "built-in Python variables": each name that the
\* rewriting puts into the code has its argument.  README.md:188 has ZNAM and ONAM for bi and bo.
NamesBound ==
  Done => \A f \in Fields :
    LET Has(t) == \E i \in DOMAIN Split(t, Alnum) : Split(t, Alnum)[i] = Name(f)
    IN Has(rewritten) /\ ~Has(text) => Name(f) \in args
=============================================================================

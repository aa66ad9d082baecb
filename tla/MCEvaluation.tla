---------------------------- MODULE MCEvaluation ----------------------------
(* Three records: r1 is a string waveform that may be empty, r2 a bi whose   *)
(* code reads ZNAM, for which it sets EGU, and r3 a longin that reads VAL    *)
(* and EGU.                                                                  *)
EXTENDS Evaluation, TLC

CONSTANTS r1, r2, r3, VAL, ZNAM, EGU

UsesOf == [r \in Records |-> IF r = r1 THEN {VAL} ELSE IF r = r2 THEN {ZNAM} ELSE {VAL, EGU}]
ArgumentOf == [r \in Records |-> [n \in Names |-> IF r = r2 /\ n = ZNAM THEN EGU ELSE n]]
ArraysOf == [r \in Records |-> IF r = r1 THEN {VAL} ELSE {}]
Symmetric == Permutations(Workers) \cup Permutations(Codes \ Bad)
=============================================================================

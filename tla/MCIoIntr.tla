------------------------------ MODULE MCIoIntr ------------------------------
(* Instances of IoIntr: two records of one device support and, where the    *)
(* instance has a third record, that one of another.                        *)
EXTENDS IoIntr, TLC

CONSTANTS a1, a2, b1, A, B

TypeOfRecord == [r \in Records |-> IF r = b1 THEN B ELSE A]
=============================================================================

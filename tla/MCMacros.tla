------------------------------ MODULE MCMacros ------------------------------
(* Fields of one letter and of two, the longest, one the start of another;  *)
(* p stands for pydev.  In a bi or bo record B stands for ZNAM and ONAM.    *)
EXTENDS Macros

FieldNames == {<<"A">>, <<"B">>, <<"A", "B">>}
Pydev == <<"p">>
ZnamAndOnam == {<<"B">>}
=============================================================================

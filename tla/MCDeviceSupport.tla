-------------------------- MODULE MCDeviceSupport --------------------------
(* Instances of DeviceSupport.  Results has a value of every kind that the  *)
(* getters tell apart: a boolean, a small, a negative and a large integer,  *)
(* a fraction, a numeric and another string, and None.  Its texts, and      *)
(* those of booleans, are shorter and longer than the buffers.              *)
EXTENDS DeviceSupport

AllTypes ==
  {"ai", "ao", "bi", "bo", "longin", "longout", "mbbi", "mbbo",
   "lsi", "lso", "stringin", "stringout"}

V(t, n, s) == [type |-> t, n |-> n, text |-> s]
AllResults ==
  {V("BOOL", 1, <<>>), V("LONG", 3, <<"3">>), V("LONG", -1, <<"-", "1">>), V("LONG", 9, <<"9">>),
   V("DOUBLE", -192, <<"-", "1", ".", "5">>), V("STRING", 256, <<"2">>),
   V("TEXT", 0, <<"t", "e", "x", "t", "s">>), None}

Characters == {"T", "r", "u", "e", "F", "a", "l", "s", "b", "t", "x", "-", ".", "1", "2", "3", "5", "9"}

\* Two states of one value, a large one, and one that only a shifted RVAL reaches.
SomeStates == {<<>>, <<4, 3, 9, 3>>}

AllTexts == {<<>>, <<"a">>, <<"a", "b">>}
=============================================================================

----------------------------- MODULE MCWaveform -----------------------------
(* Instances of Waveform: lists that are empty, shorter and longer than the  *)
(* array, of mixed types, and with strings shorter and longer than a cell.   *)
EXTENDS Waveform

E(t, n, s) == [type |-> t, n |-> n, s |-> s]
One == E("LONG", 1, <<"1">>)
Big == E("LONG", 5, <<"5">>)
Half == E("DOUBLE", 3, <<"1", ".", "5">>)
Yes == E("BOOL", 1, <<"1">>)
Short == E("TEXT", 0, <<"a">>)
Long == E("TEXT", 0, <<"b", "c", "d">>)
Digit == E("STRING", 2, <<"1">>)
Bytes == E("OTHER", 0, <<>>)

AllResults ==
  {<<>>, <<One>>, <<Big, One, One>>, <<Yes>>, <<Half, One>>, <<Bytes>>,
   <<Short>>, <<Long, Short>>, <<Digit>>, <<Short, Long, Short>>}

Characters == {"1", "5", ".", "a", "b", "c", "d", "f", "x", "y", "z"}

AllPuts(t) == IF t = "STRING" THEN {<< <<"x", "y">> >>, << <<>>, <<"z">> >>} ELSE {<<2>>, <<-3, 1>>}
AllForeign == {<< <<"f">> >>}
=============================================================================

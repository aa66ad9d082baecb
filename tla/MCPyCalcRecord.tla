--------------------------- MODULE MCPyCalcRecord ---------------------------
(* An array input, a scalar input and an array output of two elements; the  *)
(* links deliver arrays that are empty, shorter and longer.  Results has a  *)
(* scalar of each kind, one beyond the width, one that does not convert,    *)
(* lists that are empty, too long, or fail in the middle, and None.         *)
EXTENDS PyCalcRecord

Elements == <<2, 1>>
Sources == {<<>>, <<1>>, <<2, 1, 2>>}
PutElements == {<<3>>, <<3, 4>>}

V(k, s) == [kind |-> k, vals |-> s]
AllResults ==
  {Nothing, V("DOUBLE", <<>>), V("LONG", <<9>>), V("DOUBLE", <<9>>), V("LONG", <<1, 2, 3>>),
   V("STRING", <<Bad>>), V("STRING", <<2, Bad>>)}
=============================================================================

SPECIFICATION EvaluationSpec
CONSTANTS
  Codes = {a, b, broken}
  Bad = {broken}
  Null = Null
  Empty = Empty
  r1 = r1
  r2 = r2
  r3 = r3
  VAL = VAL
  ZNAM = ZNAM
  EGU = EGU
  Workers = {w1, w2}
  Records = {r1, r2, r3}
  Names = {VAL, ZNAM, EGU}
  Uses <- UsesOf
  Argument <- ArgumentOf
  Arrays <- ArraysOf
  NoRecord = NoRecord
  Nobody = Nobody
  Cached = r1
SYMMETRY Symmetric
INVARIANTS RunsWhatItRead NoLeak OwnArgsUntilYield OnlySharedNamesClash

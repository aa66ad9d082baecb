SPECIFICATION CacheSpec
CONSTANTS
  Codes = {a, broken}
  Bad = {broken}
  Null = Null
  Empty = Empty
INVARIANTS ValidCodeRuns

SPECIFICATION Spec
CONSTANTS
  Kinds = {"LONG", "DOUBLE", "STRING"}
  NELM = 2
  Size = 3
  Width = 3
  Unit = 2
  Char <- Characters
  NUL = NUL
  Results <- AllResults
  Puts <- AllPuts
  Foreign <- AllForeign
  MaxPass = 2
INVARIANTS ArrayAtRest ArgumentShown EchoKeepsArray UndefinedNeedsPut

\* With scanIoRequest, whose behaviours include those of scanIoImmediate.
SPECIFICATION FairSpec
CONSTANTS
  a1 = a1
  a2 = a2
  b1 = b1
  A = A
  B = B
  Records = {a1, a2, b1}
  Types = {A, B}
  TypeOf <- TypeOfRecord
  NoType = NoType
  Immediate = FALSE
  MaxPush = 2
INVARIANTS FreshAtRest
PROPERTIES Delivered

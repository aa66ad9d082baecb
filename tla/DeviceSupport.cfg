SPECIFICATION Spec
CONSTANTS
  Types <- AllTypes
  Unit = 128
  Width = 4
  EnumWidth = 3
  Char <- Characters
  Slopes = {0, 1, 2}
  Offsets = {0, 128}
  Smoothings = {FALSE, TRUE}
  States <- SomeStates
  Shifts = {1, 2}
  Sizv = 4
  StringSize = 3
  PutValues = {0, 1, 5}
  PutTexts <- AllTexts
  Results <- AllResults
  MaxPass = 3
INVARIANTS ResultShown FailureKeepsValue EchoKeepsValue

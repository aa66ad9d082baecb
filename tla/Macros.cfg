SPECIFICATION MacroSpec
CONSTANTS
  Upper = {"A", "B"}
  Lower = {"p"}
  Digits = {"1"}
  Others = {"%", "_"}
  Fields <- FieldNames
  Misnamed = {}
  MaxFieldLen = 2
  Prefix <- Pydev
  MaxLen = 6
INVARIANTS MacrosFound FieldsReplaced NamesKept

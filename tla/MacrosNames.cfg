SPECIFICATION MacroSpec
CONSTANTS
  Upper = {"A", "B"}
  Lower = {"p"}
  Digits = {"1"}
  Others = {"%", "_"}
  Fields <- FieldNames
  Misnamed <- ZnamAndOnam
  MaxFieldLen = 2
  Prefix <- Pydev
  MaxLen = 3
INVARIANTS NamesBound

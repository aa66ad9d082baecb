SPECIFICATION Spec
CONSTANTS
  N = 2
  Mea <- Elements
  Mevl = 2
  Constant = 5
  Offers <- Sources
  Puts <- PutElements
  Results <- AllResults
  Bad = Bad
  Width = 4
  MaxPass = 2
INVARIANTS ArgumentsShown ResultShown FailureCutsArray OutFollowsVal

\* The callback queue has room for one of the two records, and the pool may shut down: with both
\* records stranded nothing need ever happen again.
SPECIFICATION FairSpec
CONSTANTS
  Records = {dev, calc}
  Workers = {w1}
  PyCalc = {calc}
  NoRecord = NoRecord
  CbQueueSize = 1
  MaxLock = 0
  MayClose = TRUE
CHECK_DEADLOCK FALSE
INVARIANTS TypeOK OneToken FailureShown NoStaleAlarm DropsBounded
PROPERTIES CycleSpec Completes PutReprocesses

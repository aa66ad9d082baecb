SPECIFICATION FairSpec
CONSTANTS
  Workers = {w1}
  PyThreads = {p1}
  Records = {r1, r2}
  Listed = {r1}
  Main = Main
  Scan = Scan
  Callback = Callback
  Nobody = Nobody
  NoTask = NoTask
INVARIANTS LocksAreShort FinalizedAlone
PROPERTIES PushesReturn RecordsComplete ExitReturns

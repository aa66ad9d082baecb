\* Two workers, two calls of schedule(), one of which may block for ever; shutdown at any
\* moment.
SPECIFICATION FairSpec
CONSTANTS
  Workers = {w1, w2}
  Tasks = {t1, t2}
  Blocking = {t1}
  NoTask = NoTask
  Nobody = Nobody
INVARIANTS TypeOK ExactlyOnce NoLostWakeup AtMostOneLateStart
PROPERTIES PoolSpec EventuallyStarted ShutdownReturns

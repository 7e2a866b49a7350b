\* Two workers, one task that cannot be filled, one crash: progress under fairness.
SPECIFICATION FairSpec
CONSTANTS
  Task = {t1}
  Worker = {w1, w2}
  DueIn <- MCDueIn
  Lease = 1
  RetryDelay = 1
  MaxPath = 1
  Fillable = {}
  LastStamp = 3
  PersistUnavailable = FALSE
  MaxCrashes = 1
PROPERTIES
  EventuallyEvaluated

\* Two workers claim one task whose lease is longer than the evaluation.
SPECIFICATION Spec
CONSTANTS
  Task = {t1}
  Worker = {w1, w2}
  DueIn <- MCDueIn
  Lease = 2
  RetryDelay = 1
  MaxPath = 1
  Fillable = {t1}
  LastStamp = 3
  PersistUnavailable = FALSE
  MaxCrashes = 0
INVARIANT LeaseIsExclusive

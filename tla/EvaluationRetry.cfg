\* One worker that dies once, between storing an evaluation and complete_task.
SPECIFICATION FairSpec
CONSTANTS
  Task = {t1}
  Worker = {w1}
  DueIn <- MCDueIn
  Lease = 1
  RetryDelay = 1
  MaxPath = 1
  Fillable = {t1}
  LastStamp = 2
  PersistUnavailable = FALSE
  MaxCrashes = 1
PROPERTIES
  StoredTaskCompletes

\* Three workers race for one task while its bars arrive; one of them dies.
SPECIFICATION Spec
CONSTANTS
  Task = {t1}
  Worker = {w1, w2, w3}
  DueIn <- MCDueIn
  Lease = 1
  RetryDelay = 1
  MaxPath = 2
  Fillable = {t1}
  LastStamp = 4
  PersistUnavailable = TRUE
  MaxCrashes = 1
SYMMETRY WorkerSymmetry
INVARIANTS
  TypeOK
  CompletedHasEvaluation
  NeverEvaluatedEarly
  EvaluationsComeFromBars
PROPERTIES
  TasksAreNeverReset
  ImplementsFacts

\* Two runs over the same bars, which the provider may revise, and a restart.
SPECIFICATION FairSpec
CONSTANTS
  Run = {r1, r2}
  NumBars = 2
  Content = {"first", "revised"}
  NoBar = "none"
  Lookback = 2
  Decide <- MCDecide
  NoEvent = NoEvent
  FetchMayFail = TRUE
  MaxRestarts = 1
INVARIANTS
  TypeOK
  SignalsComeFromStoredBars
  CompletedMeansComplete
  StoredSignalsAreCounted
PROPERTIES
  StopIsNotLost
  ImplementsContract
  StartedRunsEnd

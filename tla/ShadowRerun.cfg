\* Two runs over the same bars of a provider that never revises or fails.
SPECIFICATION Spec
CONSTANTS
  Run = {r1, r2}
  NumBars = 2
  Content = {"first"}
  NoBar = "none"
  Lookback = 2
  Decide <- MCDecide
  NoEvent = NoEvent
  FetchMayFail = FALSE
  MaxRestarts = 0
PROPERTY SameSignalIsDeduplicated

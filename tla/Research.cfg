\* Two registries over one version registry, four strategies, two calls of run_bars.
SPECIFICATION MCSpec
CONSTANTS
  Registry = {"r1", "r2"}
  Class = {"BaselineRules", "Momentum", "RallyFade", "VolumePullback"}
  Name = {"baseline", "momentum", "rally", "pullback"}
  Version = {"v1", "v2"}
  Code = {"c1"}
  NameOf <- MCNameOf
  Defaults <- MCDefaults
  Schema <- ShippedSchema
  Payload <- MCPayload
  NoParams = NoParams
  NoVersion = NoVersion
  Absent = Absent
  Lookback = 3
  NoVolume = NoVolume
  NoCandidate = NoCandidate
  LastTime = 4
  Clocks = {2, 4}
  Requests <- MCRequests
  Composers <- MCComposers
  Lists <- MCLists
  MaxRuns = 2
  NoRunner = NoRunner
  DayLength = 9
  MorningStart = 1
  MorningEnd = 3
  AfternoonStart = 5
  AfternoonEnd = 7
  TradingDays = {0, 2}
  LastTick = 26
  Events = {0, 1, 2, 3, 4, 6, 7, 8, 10}
  Horizons = {1, 2, 3}
  Barriers <- MCBarriers
  Bars <- MCBars
  Nothing = Nothing
  NoBar = NoBar
  NoTask = NoTask
  PaperSignal = {"a", "b", "c", "d", "e", "f"}
  ActionOf <- MCActionOf
  DefaultQuantity = 100
CHECK_DEADLOCK FALSE
INVARIANTS
  RegisteredIsFrozen
  StoredSignalsAreFrozen
  ReplayIsIdempotent
  FailuresHaveCauses
  PoliciesDifferOnConflictsOnly
  DueIsNextSession
  LabelFitsExcursions
  LongerHorizonAgrees
  PositionIsItsFills
PROPERTIES

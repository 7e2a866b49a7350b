\* Three invocations, two exporters, two collectors, two calls to a provider,
\* four orders.
SPECIFICATION MCSpec
CONSTANTS
  Empty = Empty
  NoTime = NoTime
  Unparsable = Unparsable
  Commands = 3
  Requests <- MCRequests
  Directory = {"artifacts", "elsewhere"}
  Garbled = Garbled
  NoFile = NoFile
  NotFound = NotFound
  FlushEvery = 2
  MaxEmits = 4
  MaxProcesses = 2
  Metric = {"persist_failure"}
  Label = {"none", "x", "y"}
  Unlabelled = "none"
  NoSample = NoSample
  Rules <- MCRules
  Severity = {"P1", "P2"}
  Handler = {"log"}
  Every = "all"
  MaxCount = 2
  MaxCollectors = 2
  MaxFired = 2
  MaxHandlers = 2
  LastNow = 2
  Period = 1
  Answers <- MCAnswers
  Calls <- MCCalls
  MaxCalls = 2
  NoColumn = NoColumn
  NoValue = NoValue
  Word = Word
  Symbol = {"300346"}
  InitialCash = 6
  SlotsPerDay = 2
  LotSize = 2
  OrderId = {i1, i2, i3, i4}
  Quantity = {0, 1, 2, 4}
  Price = {1, 2}
  Fee = {0, 1}
  MaxFee = 1
  Volume = {0, 2}
  Caller = {"serial", "overlapping"}
SYMMETRY OrderSymmetry
CHECK_DEADLOCK FALSE
INVARIANTS
  ResumeIsJustified
  LoneRunLeavesItsManifest
  ChainIsComplete
  ReadingsAddUp
  AlertsReachTheirHandlers
  FirstReadIsKept
  TypeOK
  LedgerMatchesBookedFills
  AcceptedSalesAreCovered
  OverdraftIsOneFee
  NoSharesStayLocked

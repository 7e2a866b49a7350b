\* Two bindings, two symbols, five times; one universe changes during the run.
SPECIFICATION Spec
CONSTANTS
  LastTime = 4
  FromTime = 1
  Symbol = {1, 2}
  Bindings = 2
  UniverseId = {"u", "v"}
  UniverseOf <- MCUniverseOf
  Assignments <- MCAssignments
  Publications <- MCPublications
  Inputs <- MCInputs
  NoBar = "none"
  Lookback = 2
  Decide <- MCDecide
CHECK_DEADLOCK FALSE
INVARIANTS
  TypeOK
  SlotsFollowTheirUniverse
  DecisionsUseThePastOnly
  DistinctStrategiesDoNotMeet
  FinishedRunIsComplete
PROPERTY
  ImplementsContract

\* A universe whose only version is published or takes effect after the run began.
SPECIFICATION Spec
CONSTANTS
  LastTime = 4
  FromTime = 1
  Symbol = {1, 2}
  Bindings = 2
  UniverseId = {"u", "v"}
  UniverseOf <- MCUniverseOf
  Assignments <- MCAssignments
  Publications <- MCPublications
  Inputs <- MCInputs
  NoBar = "none"
  Lookback = 2
  Decide <- MCDecide
CHECK_DEADLOCK FALSE
INVARIANT UniversesAreInEffect

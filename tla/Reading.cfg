\* Bounds: Horizon, Started, Focuses and the batches of MCReading.
SPECIFICATION MCSpec
CONSTANTS
  None = None
  Fails = Fails
  MaxLimit = 2
  Horizon = 3
  Owner <- MCOwner
  Adapter <- MCAdapter
  Kinds <- MCKinds
  EnabledBy <- MCEnabledBy
  Batches <- MCBatches
  Raws <- MCRaws
  Started <- MCStarted
  Focuses <- MCFocuses
  Queries <- MCQueries
  Ref = {"a", "b", "c", "d"}
  Questions <- MCQuestions
\* Nothing is collected after the horizon, and a plan is asked for once.
CHECK_DEADLOCK FALSE
INVARIANTS
  TypeOK
  AnIdNamesOneClaim
  CurrentIsEarned
  
  PlanIsComplete
  ConfigurationSuits
PROPERTIES
  GateHolds

\* Bounds: Horizon, Started, Focuses and the batches of MCReading; the entities of
\* the weather alone, and no plan is asked for.
SPECIFICATION MCSpec
CONSTANTS
  None = None
  Fails = Fails
  MaxLimit = 2
  Horizon = 3
  Owner <- MCOwner
  Adapter <- MCAdapter
  Kinds <- MCKinds
  EnabledBy <- MCEnabledBy
  Batches <- MCBatches
  Raws <- MCStarted
  Started <- MCStarted
  Focuses <- MCWeather
  Queries <- MCQueries
  Ref = {"a", "b", "c", "d"}
  Questions <- MCNoQuestions
CHECK_DEADLOCK FALSE
INVARIANT
  EstimateIsWithdrawn

SPECIFICATION MCSpec
CONSTANTS
  None = None
  Fails = Fails
  NoThread = NoThread
  main = main
  worker = worker
  Thread = {main, worker}
  Main = main
  Entity = {"local", "weather"}
  Cycles = {"local"}
  Thresholds <- MCThresholds
  Owner <- MCOwner
  Kinds <- MCKinds
  Topology <- MCTopology
  Batches <- MCBatches
INVARIANTS
  TypeOK
  ReadableIsRecorded
  HealthFollowsTelemetry
PROPERTY
  OrderlyStopAddsNoLag

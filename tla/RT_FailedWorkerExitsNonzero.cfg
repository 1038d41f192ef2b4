SPECIFICATION Spec
CONSTANTS
  estimate = estimate
  radar = radar
  situation = situation
  NWorkers = 2
  Source <- MCSource
  Collector <- MCCollector
  Configs <- MCConfigs
INVARIANT FailedWorkerExitsNonzero

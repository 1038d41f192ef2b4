SPECIFICATION FairSpec
CONSTANTS
  estimate = estimate
  radar = radar
  situation = situation
  NWorkers = 1
  Source <- MCOneSource
  Collector <- MCOneCollector
  Configs <- MCFullConfig
PROPERTIES
  StopIsHonoured
  FailureIsFatal

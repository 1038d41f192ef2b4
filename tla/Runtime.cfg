SPECIFICATION Spec
CONSTANTS
  estimate = estimate
  radar = radar
  situation = situation
  NWorkers = 2
  Source <- MCSource
  Collector <- MCCollector
  Configs <- MCConfigs
INVARIANTS
  TypeOK
  SealedSnapshotIsCurrent
  SealedWorldIsWhole
  ServedClaimsAreRequalified
  BlameIsDeserved
PROPERTY
  LifecycleIsFinal

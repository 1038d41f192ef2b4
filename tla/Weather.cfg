\* The clock stops at its bound and the last process is not followed by another.
CHECK_DEADLOCK FALSE
SPECIFICATION Spec
CONSTANTS
  None = None
  Fails = Fails
  MaxAge = 1
  Ahead = 0
  PointsAge = 2
  Horizon = 4
  Boots = 2
  Configs <- MCConfigs
  Interval <- MCInterval
  Patience <- MCPatience
  Answers <- MCAnswers
INVARIANTS
  TypeOK
  EstimateRestsOnThisProcess
  EstimateFollowsSources
  SurfaceIsYoung
  NobodyStarves

\* The last process is not followed by another.
CHECK_DEADLOCK FALSE
SPECIFICATION Spec
CONSTANTS
  None = None
  Fails = Fails
  Boots = 2
  Configs <- MCConfigs
  Answers <- MCAnswers
INVARIANTS
  TypeOK
  SituationFollowsSources
  CurrentMeansAllAnswered
  EventsAreOfThisProcess
  ClosuresCountOnce
PROPERTY
  DueIsCollected

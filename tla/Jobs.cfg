SPECIFICATION FairSpec
CONSTANTS
  Kinds <- EveryKind
  MaxJobs = 2
  MaxCrashes = 1
INVARIANT TypeOK
INVARIANT OutcomeAgrees
INVARIANT RunningIsOwned
PROPERTY JobsEnd

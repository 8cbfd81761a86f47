SPECIFICATION MCSpec
CONSTANTS
  Clients = {c1, c2}
  Duration = 1
  MaxDay = 1
  MaxRuns = 2
  MaxGrants = 2
  MaxLosses = 1
  ChallengersKept = 2
  MaxModels = 3
  MaxSessions = 5
  MaxRestarts = 1
INVARIANTS EvalInv GrantedOnEvidence ChallengerInv
PROPERTY RunsFinish
CHECK_DEADLOCK FALSE

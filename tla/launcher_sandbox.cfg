CONSTANTS
  Runs = {r1, r2}
  ExitCodes = {0, 3}
  MaxWait = 1
  Configs <- AllConfigs
SPECIFICATION FairSpec
INVARIANTS TypeOK HostSurvives TraceeIsConfined ZeroIsEarned TrippedOnlyByOverlap
PROPERTIES NetworkWaitEnds ParentFollowsTracer

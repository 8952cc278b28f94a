CONSTANTS
  Tracee = tracee
  Procs = {tracee, c1}
  ExitCodes = {0, 3}
  MaxCpu = 0
  MaxRss = 0
  ExternalKills = TRUE
  TickMs = 2
  Configs <- ProcessConfigs
SPECIFICATION Spec
INVARIANTS TypeOK SuccessIsGenuine CleanMeansPermitted KilledGroupIsStill LoopHasTracee
PROPERTY KeepsContract

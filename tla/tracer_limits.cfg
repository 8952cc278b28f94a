CONSTANTS
  Tracee = tracee
  Procs = {tracee}
  ExitCodes = {0, 3}
  MaxCpu = 2
  MaxRss = 1
  ExternalKills = FALSE
  TickMs = 2
  Configs <- LimitConfigs
SPECIFICATION Spec
INVARIANTS CleanWithinLimits 
PROPERTY KeepsContract

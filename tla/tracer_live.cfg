CONSTANTS
  Tracee = tracee
  Procs = {tracee, c1}
  ExitCodes = {0}
  MaxCpu = 1
  MaxRss = 0
  ExternalKills = FALSE
  TickMs = 1
  Configs <- LiveConfigs
SPECIFICATION FairSpec
PROPERTIES TimeLimitEndsRun TraceeEndsRun 

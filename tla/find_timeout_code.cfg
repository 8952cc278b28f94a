CONSTANTS
  Tracee = tracee
  Procs = {tracee}
  ExitCodes = {0}
  MaxCpu = 0
  MaxRss = 0
  ExternalKills = FALSE
  TickMs = 2
  Configs <- TimerOnly
SPECIFICATION Spec
INVARIANT TimeoutHasItsCode

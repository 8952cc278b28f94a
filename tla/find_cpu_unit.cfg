CONSTANTS
  Tracee = tracee
  Procs = {tracee}
  ExitCodes = {0}
  MaxCpu = 4
  MaxRss = 0
  ExternalKills = FALSE
  TickMs = 2
  Configs <- CpuOnly
SPECIFICATION Spec
PROPERTY CpuCheckIsInMilliseconds

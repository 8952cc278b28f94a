CONSTANTS
  Tracee = tracee
  Procs = {tracee, c1, c2}
  ExitCodes = {0}
  MaxCpu = 0
  MaxRss = 0
  ExternalKills = FALSE
  TickMs = 2
  Configs <- TreeConfigs
SPECIFICATION Spec
SYMMETRY ChildSymmetry
INVARIANTS ForbiddenIsTheEnd PtraceFailsOnlyAfterKill

\* A descendant that holds a pipe can keep RunProcess waiting for ever.
CHECK_DEADLOCK FALSE
CONSTANTS
  Tracee = tracee
  Procs = {tracee, c1}
  ExitCodes = {3}
  MaxCpu = 1
  MaxRss = 2
  ExternalKills = FALSE
  Pipes = {out}
  MaxLines = 1
  Configs <- LegacyConfigs
SPECIFICATION FairSpec
INVARIANTS TypeOK ReturnIsComplete ForbiddenIsTheEnd AbortIsJustified TraceeDoesNotSurvive
PROPERTIES TimeLimitEndsProgram IdleLimitEndsProgram UsageEndsProgram

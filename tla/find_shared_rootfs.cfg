CONSTANTS
  Runs = {r1, r2}
  ExitCodes = {0}
  MaxWait = 0
  Configs <- RootFSOnly
SPECIFICATION Spec
INVARIANT OldRootLivesAtPutold

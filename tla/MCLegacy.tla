------------------------------ MODULE MCLegacy ------------------------------
(* Small instances of LegacyRunner.                                        *)
EXTENDS LegacyRunner

NoLimits ==
  [AllowCreateProcesses |-> FALSE, MultiThreadedProcess |-> FALSE,
   TimeLimit |-> 0, MemoryLimit |-> 0, IdleLimit |-> 0, StoreFile |-> FALSE]

\* Each option on its own; the limits on usage together.
LegacyConfigs ==
  {[NoLimits EXCEPT !.MultiThreadedProcess = TRUE],
   [NoLimits EXCEPT !.TimeLimit = 1],
   [NoLimits EXCEPT !.StoreFile = TRUE, !.IdleLimit = 2, !.MemoryLimit = 1]}
=============================================================================

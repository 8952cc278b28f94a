------------------------------ MODULE MCTracer ------------------------------
(* Small instances of Tracer: the configurations each run explores.        *)
EXTENDS Tracer, TLC

NoLimits ==
  [RootFS |-> TRUE, AllowCreateProcesses |-> FALSE, AllowMultiThreading |-> FALSE,
   PropagateExitCode |-> TRUE,
   CPUTimeLimit |-> -1, RealTimeLimit |-> -1, MemoryLimit |-> -1,
   MaxPtraceIterations |-> -1]

\* What a process may do, with and without a real time limit.
ProcessConfigs ==
  {[NoLimits EXCEPT !.AllowCreateProcesses = a, !.AllowMultiThreading = m,
                    !.PropagateExitCode = x, !.RealTimeLimit = r] :
     a \in BOOLEAN, m \in BOOLEAN, x \in BOOLEAN, r \in {-1, 1}}

\* Every combination of limits, the boundary 0 among them, with and without a
\* root filesystem.
LimitConfigs ==
  {[NoLimits EXCEPT !.RootFS = f, !.PropagateExitCode = x, !.CPUTimeLimit = c,
                    !.MemoryLimit = m, !.RealTimeLimit = r,
                    !.MaxPtraceIterations = i] :
     f \in BOOLEAN, x \in BOOLEAN, c \in {-1, 0, 1}, m \in {-1, 0, 1}, r \in {-1, 1}, i \in {-1, 3}}

\* One kind of process creation allowed: children that create children.
TreeConfigs ==
  {[NoLimits EXCEPT !.AllowCreateProcesses = a, !.AllowMultiThreading = ~a] :
     a \in BOOLEAN}

\* A time limit on a tracee that may have threads; one that may create processes
\* and has no limit; a CPU limit on one that must not do either.
LiveConfigs ==
  {[NoLimits EXCEPT !.AllowMultiThreading = TRUE, !.RealTimeLimit = 1],
   [NoLimits EXCEPT !.AllowCreateProcesses = TRUE],
   [NoLimits EXCEPT !.CPUTimeLimit = 1]}

TimerOnly  == {[NoLimits EXCEPT !.RealTimeLimit = 1]}
CpuOnly    == {[NoLimits EXCEPT !.CPUTimeLimit = 2]}
\* The tracee's descendants are interchangeable.
ChildSymmetry == Permutations(Procs \ {Tracee})
=============================================================================

--------------------------- MODULE ContractProofs ---------------------------
(***************************************************************************)
(* Module Tracer implements module RunContract, for every set of processes *)
(* and configurations and all bounds.                                      *)
(***************************************************************************)
EXTENDS TracerProofs

-----------------------------------------------------------------------------
(* The tracee in a step.                                                   *)

\* What the tracee has done, used and come to is what it was.
Rests ==
  /\ leader' = leader /\ did' = did /\ fate' = fate /\ cpu' = cpu /\ rss' = rss
  /\ st'[Tracee] = "unborn" <=> st[Tracee] = "unborn"

\* Every step but a launch.
LEMMA StepOnTracee ==
  ASSUME IInv, [Next]_vars, ~LaunchFails, ~Launch
  PROVE  Rests \/ TreeStep
<1> USE DEF IInv, TypeOK, KernelTypeOK
<1>1. KernelMove /\ Tracee \in Procs /\ current \in Procs
  BY StepIsKernelMove, KernelAssumption DEF KernelAssumption, RunTypeOK
<1>2. CASE UNCHANGED kernelVars
  BY <1>2 DEF kernelVars, treeVars, Rests
<1>3. ASSUME NEW p \in Procs, Collect(p)
      PROVE  Rests
  BY <1>1, <1>3 DEF Collect, Waitable, treeVars, Rests
<1>4. ASSUME NEW p \in Procs, Restart(p)
      PROVE  Rests
  BY <1>1, <1>4 DEF Restart, Stopped, treeVars, Rests
<1>5. CASE ExitTracer
  BY <1>1, <1>5 DEF ExitTracer, treeVars, Rests
<1> QED
  BY <1>1, <1>2, <1>3, <1>4, <1>5 DEF KernelMove

\* Where there is nobody, nobody comes.
LEMMA NobodyStays ==
  ASSUME IInv, [Next]_vars, ~LaunchFails, ~Launch, Inhabited'
  PROVE  Inhabited
<1> USE DEF IInv, TypeOK, KernelTypeOK
<1>1. PICK p \in Procs : st'[p] \notin {"unborn", "reaped"}
  BY DEF Inhabited
<1>2. KernelMove /\ Tracee \in Procs /\ current \in Procs
  BY StepIsKernelMove, KernelAssumption DEF KernelAssumption, RunTypeOK
<1>3. CASE UNCHANGED kernelVars \/ ExitTracer
  BY <1>1, <1>3 DEF kernelVars, ExitTracer, Inhabited
<1>4. CASE TreeStep
  BY <1>1, <1>4
  DEF TreeStep, ThreadStep, Same, Wakes, Live, Reports, Arrives, Begins, Dies, GivesWay, Becomes,
      Inhabited
<1>5. CASE \E q \in Procs : Collect(q) \/ Restart(q)
  BY <1>5 DEF Collect, Waitable, Restart, Stopped, Inhabited
<1> QED
  BY <1>2, <1>3, <1>4, <1>5 DEF KernelMove

\* The tree is not emptied by itself: who gives way to its leader leaves it there.
LEMMA TreeStaysInhabited ==
  ASSUME IInv, TreeStep, Inhabited
  PROVE  Inhabited'
<1> USE DEF IInv, TypeOK, KernelTypeOK
<1>1. PICK p \in Procs : st[p] \notin {"unborn", "reaped"}
  BY DEF Inhabited
<1>2. ASSUME NEW q \in Procs, st[q] \notin {"unborn", "reaped"}, ~GivesWay(q)
      PROVE  Inhabited'
  BY <1>2
  DEF TreeStep, ThreadStep, Same, Wakes, Woken, Reports, Arrives, Begins, Dies, Becomes, Inhabited
<1>3. CASE GivesWay(p)
  <2>1. /\ leader[p] \in Procs /\ leader[leader[p]] = leader[p]
        /\ st[leader[p]] \notin {"unborn", "reaped"}
    BY <1>1, <1>3 DEF GivesWay, TreeInv
  <2> QED
    BY <1>2, <2>1 DEF GivesWay
<1> QED
  BY <1>1, <1>2, <1>3

-----------------------------------------------------------------------------
(* The parts of the abstract state.                                        *)

LEMMA GenuineIsFaultless ==
  ASSUME TypeOK, TreeInv, Genuine
  PROVE  ~Faulty
<1>1. cpu[Tracee] \in Int /\ rss[Tracee] \in Int
  BY KernelAssumption DEF KernelAssumption, TypeOK, KernelTypeOK
<1>2. cfg.MemoryLimit \in Int /\ cfg.CPUTimeLimit \in Int
  BY TracerAssumption DEF TracerAssumption, TypeOK, RunTypeOK, Config
<1>3. LimitError(Tracee) = NoErr
  BY <1>1, <1>2 DEF Genuine, LimitError, Exceeds, TreeInv
<1> QED
  BY <1>3 DEF Genuine, Faulty

LEMMA RestsFaulty ==
  ASSUME [Next]_vars, Rests
  PROVE  Faulty' = Faulty
<1>1. LimitError(Tracee)' = LimitError(Tracee)
  BY ConfigIsFixed DEF Rests, LimitError, Exceeds
<1>2. Faulty' <=> Faulty
  BY <1>1, ConfigIsFixed DEF Rests, Threaded, Faulty
<1> QED
  BY <1>2 DEF Faulty

\* A broken rule stays broken: who is caught alone cannot find company.
LEMMA FaultyStays ==
  ASSUME IInv, TypeOK', TreeInv', [Next]_vars, TreeStep, Faulty
  PROVE  Faulty'
<1> USE KernelAssumption DEF KernelAssumption, IInv
<1>1. cfg' = cfg /\ Permitted' = Permitted
  BY ConfigIsFixed
<1>2. /\ ThreadStep(Tracee) /\ FateStep(Tracee) /\ GrowStep(Tracee) /\ LeaderStep
      /\ leader[Tracee] = Tracee /\ leader'[Tracee] = Tracee
  BY DEF TreeStep, TreeInv
<1>3. st'[Tracee] # "unborn"
  BY <1>2
  DEF ThreadStep, Same, Wakes, Woken, Reports, Arrives, Begins, Dies, GivesWay, Becomes, Faulty
<1>4. CASE ~(did[Tracee] \subseteq Permitted) /\ ~Threaded(Tracee)
  <2>1. st[Tracee] # "running"
    BY <1>4 DEF Caught, Allowed
  <2>2. \A r \in Procs : leader[r] = Tracee => r = Tracee
    BY <1>4, SingleLeads DEF TypeOK
  <2>3. ~Threaded(Tracee)'
    <3>1. CASE leader' = leader
      BY <1>4, <3>1 DEF Threaded
    <3>2. ASSUME NEW c \in Procs, NEW r \in Procs, st[r] = "running",
                 leader' = [leader EXCEPT ![c] = leader[r]]
          PROVE  ~Threaded(Tracee)'
      <4>1. leader[r] # Tracee
        BY <2>1, <2>2, <3>2
      <4> QED
        BY <1>2, <2>2, <3>2, <4>1 DEF Threaded, TypeOK, KernelTypeOK
    <3> QED
      BY <1>2, <3>1, <3>2 DEF LeaderStep
  <2>4. did[Tracee] \subseteq did'[Tracee]
    BY <1>2, <1>4
    DEF ThreadStep, Same, Wakes, Reports, Arrives, Begins, Dies, GivesWay, Becomes
  <2> QED
    BY <1>1, <1>3, <1>4, <2>3, <2>4 DEF Faulty
<1>5. CASE LimitError(Tracee) # NoErr
  <2>1. /\ cpu[Tracee] \in Int /\ rss[Tracee] \in Int
        /\ cpu'[Tracee] \in Int /\ rss'[Tracee] \in Int
    BY DEF TypeOK, KernelTypeOK
  <2>2. cfg.MemoryLimit \in Int /\ cfg.CPUTimeLimit \in Int
    BY TracerAssumption DEF TracerAssumption, TypeOK, RunTypeOK, Config
  <2>3. cpu'[Tracee] >= cpu[Tracee] /\ rss'[Tracee] >= rss[Tracee]
    BY <1>2, <2>1 DEF GrowStep
  <2>4. LimitError(Tracee)' # NoErr
    BY <1>1, <1>2, <1>5, <2>1, <2>2, <2>3 DEF LimitError, Exceeds, NoErr
  <2> QED
    BY <1>3, <2>4 DEF Faulty
<1>6. CASE fate[Tracee] = Signaled
  BY <1>2, <1>3, <1>6 DEF FateStep, NoFate, Signaled, Stop, Faulty
<1> QED
  BY <1>4, <1>5, <1>6 DEF Faulty

\* Only where there is somebody is a rule broken.
LEMMA OnlyTheLivingBreak ==
  ASSUME IInv, [Next]_vars, TreeStep, ~Inhabited
  PROVE  Faulty' = Faulty
<1> USE KernelAssumption DEF KernelAssumption, IInv
<1>1. \A q \in Procs : st[q] \in {"unborn", "reaped"}
  BY DEF Inhabited
<1>2. \A q \in Procs : Same(q)
  BY <1>1
  DEF TreeStep, ThreadStep, Wakes, Live, Reports, Arrives, Begins, Dies, GivesWay, Becomes
<1>3. leader' = leader
  BY <1>1 DEF TreeStep, LeaderStep
<1>4. fate'[Tracee] = fate[Tracee]
  <2>1. FateStep(Tracee)
    BY DEF TreeStep
  <2>2. \A q \in Procs : st[q] \notin Live
    BY <1>1 DEF Live
  <2> QED
    BY <2>1, <2>2 DEF FateStep
<1>5. cpu'[Tracee] = cpu[Tracee] /\ rss'[Tracee] = rss[Tracee]
  <2>1. GrowStep(Tracee)
    BY DEF TreeStep
  <2> QED
    BY <1>1, <2>1 DEF GrowStep
<1>6. leader[Tracee] = Tracee /\ Same(Tracee)
  BY <1>2 DEF TreeInv
<1>7. LimitError(Tracee)' = LimitError(Tracee)
  BY <1>3, <1>5, <1>6, ConfigIsFixed DEF LimitError, Exceeds
<1>8. Faulty' <=> Faulty
  BY <1>3, <1>4, <1>6, <1>7, ConfigIsFixed DEF Same, Threaded, Faulty
<1> QED
  BY <1>8 DEF Faulty

\* Only four steps change the verdict or the report.
LEMMA JudgedStays ==
  ASSUME TypeOK, [Next]_vars, ~LaunchFails, ~(FirstWait /\ pc' = "returned"),
         ~Verdict, ~ExitTracer
  PROVE  Outcome' = Outcome /\ Reported' = Reported
<1>1. /\ Judged' <=> Judged
      /\ Judged => ret' = ret
      /\ pc' = "exited" <=> pc = "exited"
  BY DEF Next, Terminated, vars, runVars, MainStep, Launch, FirstWait, ReturnEarly, BeginTrace,
         Resume, PtraceFails, TraceReturns, OutOfIterations, CloseStopc, Join, TraceLoop,
         WaitOverLimit, WaitGone, WaitStopped, Wait4, Continue, GoStep, Begin, Quit,
         KillProcess, KillGroup, Report, LimitStep, TimeIsUp, CheckCPUTime, CheckMemory, Judged
<1>2. Reported' = Reported
  BY <1>1 DEF Reported, ExitStatus, Judged
<1>3. Outcome' = Outcome
  BY <1>1 DEF Outcome, Clean, Judged
<1> QED
  BY <1>2, <1>3

LEMMA CleanIsFaultless == IInv /\ Clean => ~Faulty
BY GenuineIsFaultless DEF IInv, VerdictIsGenuine, Decided, Clean

-----------------------------------------------------------------------------
(* Steps of the tracer are steps of the contract.                          *)

LEMMA LaunchImplements ==
  ASSUME IInv, Launch
  PROVE  Contract!Begin
<1> USE KernelAssumption DEF KernelAssumption, IInv, TypeOK, KernelTypeOK
<1>1. pc = "launch" /\ pc' = "wait" /\ ~Inhabited
  BY DEF Launch, Prelude, TreeInv, Inhabited
<1>2. Inhabited'
  BY DEF Launch, StartTracee, Inhabited
<1>3. Outcome = "none" /\ Outcome' = "none" /\ Reported' = Reported
  BY <1>1 DEF Outcome, Clean, Judged, Reported
<1>4. Faulty' \in BOOLEAN
  BY DEF Faulty
<1> QED
  BY <1>1, <1>2, <1>3, <1>4 DEF Contract!Begin

LEMMA LaunchFailsImplements ==
  ASSUME IInv, LaunchFails
  PROVE  Contract!GiveUp
<1> USE KernelAssumption DEF KernelAssumption, IInv, TypeOK, KernelTypeOK
<1>1. /\ pc = "launch" /\ pc' = "returned" /\ ret' = Result(-1, "Start")
      /\ ~Inhabited /\ st[Tracee] = "unborn"
  BY DEF LaunchFails, ReturnEarly, Prelude, TreeInv, Inhabited
<1>2. Outcome = "none" /\ Outcome' = "error" /\ Reported' = Reported
  BY <1>1 DEF Outcome, Clean, Judged, Reported, Result
<1>3. Faulty' => Inhabited'
  BY <1>1 DEF LaunchFails, StartTracee, kernelVars, Faulty, Inhabited
<1>4. Faulty' \in BOOLEAN /\ Inhabited' \in BOOLEAN
  BY DEF Faulty, Inhabited
<1> QED
  BY <1>1, <1>2, <1>3, <1>4 DEF Contract!GiveUp

\* The first wait returns, and Run with it.
LEMMA FirstWaitImplements ==
  ASSUME IInv, [Next]_vars, FirstWait, pc' = "returned"
  PROVE  Contract!Judge
<1> USE KernelAssumption DEF KernelAssumption
<1>1. /\ pc = "wait" /\ ret' \in {Result(-1, NoErr), Result(-1, "NoPtrace")}
      /\ Collect(Tracee)
  BY DEF FirstWait, ReturnEarly
<1>2. Outcome = "none" /\ Outcome' = "error" /\ Reported' = Reported
  BY <1>1 DEF Outcome, Clean, Judged, Reported, Result
<1>3. Inhabited
  BY <1>1 DEF Collect, Waitable, Inhabited
<1>4. Rests
  BY <1>1 DEF Collect, Waitable, treeVars, Rests, IInv, TypeOK, KernelTypeOK
<1>6. Faulty' = Faulty
  BY <1>4, RestsFaulty
<1>7. Inhabited' \in BOOLEAN
  BY DEF Inhabited
<1> QED
  BY <1>2, <1>3, <1>6, <1>7 DEF Contract!Judge

LEMMA VerdictImplements ==
  ASSUME IInv, [Next]_vars, Verdict
  PROVE  Contract!Judge
<1>1. pc = "verdict" /\ pc' = "close" /\ UNCHANGED kernelVars
  BY DEF Verdict
<1>2. Outcome = "none" /\ Outcome' \in {"clean", "error"} /\ Reported' = Reported
  BY <1>1 DEF Outcome, Clean, Judged, Reported
<1>3. Faulty' = Faulty
  BY <1>1, RestsFaulty DEF kernelVars, treeVars, Rests
<1>4. Inhabited' = Inhabited /\ Inhabited' \in BOOLEAN
  BY <1>1 DEF Inhabited, kernelVars
<1>5. Outcome' = "clean" => ~Faulty
  <2>1. Outcome' = "clean" => Clean'
    BY DEF Outcome
  <2>2. IInv'
    BY InvStep
  <2>3. Clean' => ~Faulty'
    BY <2>2, CleanIsFaultless, PTL
  <2> QED
    BY <1>3, <2>1, <2>3
<1> QED
  BY <1>2, <1>3, <1>4, <1>5 DEF Contract!Judge

LEMMA ExitImplements ==
  ASSUME IInv, [Next]_vars, ExitTracer
  PROVE  Contract!Report
<1>1. /\ pc = "returned" /\ pc' = "exited" /\ ret' = ret
      /\ st' = [p \in Procs |-> IF st[p] = "unborn" THEN "unborn" ELSE "reaped"]
      /\ UNCHANGED <<status, fate, treeVars>>
  BY DEF ExitTracer
<1>2. ret.code \in -1..255 /\ (ret.code = 0 => ret.err = NoErr)
  BY <1>1 DEF IInv, VerdictIsGenuine, Decided
<1>3. Reported = -1 /\ Reported' = ret.code % 256
  BY <1>1 DEF Reported, ExitStatus
<1>4. Reported' \in 0..255 /\ (Reported' = 0 => ret.code = 0)
  BY <1>2, <1>3
<1>5. Outcome # "none" /\ Outcome' = Outcome
  BY <1>1 DEF Outcome, Clean, Judged
<1>6. ret.code = 0 => Outcome = "clean"
  BY <1>1, <1>2 DEF Outcome, Clean
<1>7. Inhabited' = FALSE
  BY <1>1 DEF Inhabited
<1>8. Faulty' = Faulty
  BY <1>1, RestsFaulty, KernelAssumption DEF KernelAssumption, Rests, treeVars
<1> QED
  BY <1>3, <1>4, <1>5, <1>6, <1>7, <1>8 DEF Contract!Report

\* A step that leaves verdict and report alone.
LEMMA InnerStepImplements ==
  ASSUME IInv, [Next]_vars, ~LaunchFails, ~Launch, ~ExitTracer,
         Outcome' = Outcome, Reported' = Reported
  PROVE  [Contract!Next]_(Contract!contractVars)
<1>1. Rests \/ TreeStep
  BY StepOnTracee
<1>2. Inhabited \in BOOLEAN /\ Inhabited' \in BOOLEAN /\ (Inhabited' => Inhabited)
  BY NobodyStays DEF Inhabited
<1>3. IInv'
  BY InvStep
<1>4. CASE Faulty' = Faulty
  <2>1. CASE Inhabited' = Inhabited
    BY <1>4, <2>1 DEF Contract!contractVars
  <2>2. CASE Inhabited' # Inhabited
    <3>1. Inhabited /\ Inhabited' = FALSE
      BY <1>2, <2>2
    <3> QED
      BY <1>4, <3>1 DEF Contract!Next, Contract!Vanish
  <2> QED
    BY <2>1, <2>2
<1>5. CASE Faulty' # Faulty
  <2>1. TreeStep /\ Inhabited
    BY <1>1, <1>5, RestsFaulty, OnlyTheLivingBreak
  <2>2. Inhabited' = Inhabited
    BY <1>2, <2>1, TreeStaysInhabited
  <2>3. Faulty => Faulty'
    BY <1>3, <2>1, FaultyStays DEF IInv
  <2>4. Faulty' = TRUE
    BY <1>5, <2>3 DEF Faulty
  <2>5. Outcome # "clean"
    <3>1. SUFFICES ASSUME Outcome = "clean" PROVE FALSE
      OBVIOUS
    <3>2. Clean'
      BY <3>1 DEF Outcome
    <3>3. ~Faulty'
      BY <1>3, <3>2, CleanIsFaultless, PTL
    <3> QED
      BY <2>4, <3>3
  <2> QED
    BY <2>1, <2>2, <2>4, <2>5 DEF Contract!Next, Contract!Break
<1> QED
  BY <1>4, <1>5

LEMMA ContractInit == Init => Contract!Init
<1> SUFFICES ASSUME Init PROVE Contract!Init
  OBVIOUS
<1>1. pc = "launch" /\ \A p \in Procs : st[p] = "unborn"
  BY DEF Init, KernelInit
<1>2. Outcome = "none" /\ Reported = -1
  BY <1>1 DEF Outcome, Clean, Judged, Reported
<1>3. Inhabited = FALSE
  BY <1>1 DEF Inhabited
<1>4. Faulty = FALSE
  BY <1>1, KernelAssumption DEF KernelAssumption, Faulty
<1> QED
  BY <1>2, <1>3, <1>4 DEF Contract!Init

LEMMA ContractStep ==
  IInv /\ [Next]_vars => [Contract!Next]_(Contract!contractVars)
<1> SUFFICES ASSUME IInv, [Next]_vars PROVE [Contract!Next]_(Contract!contractVars)
  OBVIOUS
<1>1. CASE Launch
  BY <1>1, LaunchImplements DEF Contract!Next
<1>2. CASE LaunchFails
  BY <1>2, LaunchFailsImplements DEF Contract!Next
<1>3. CASE FirstWait /\ pc' = "returned"
  BY <1>3, FirstWaitImplements DEF Contract!Next
<1>4. CASE Verdict
  BY <1>4, VerdictImplements DEF Contract!Next
<1>5. CASE ExitTracer
  BY <1>5, ExitImplements DEF Contract!Next
<1>6. CASE ~Launch /\ ~LaunchFails /\ ~(FirstWait /\ pc' = "returned") /\ ~Verdict /\ ~ExitTracer
  <2>1. Outcome' = Outcome /\ Reported' = Reported
    BY <1>6, JudgedStays DEF IInv
  <2> QED
    BY <1>6, <2>1, InnerStepImplements
<1> QED
  BY <1>1, <1>2, <1>3, <1>4, <1>5, <1>6

\* A run keeps its contract, whichever of the tracer's three threads and of the
\* tracee's processes moves first (runner.go:157-189, 360-490, main.go:101-108):
\* the verdict is final, a clean one is never overtaken by a broken rule, and
\* exit status 0 stands for it alone.
THEOREM RunKeepsContract == Spec => KeepsContract
<1>1. Init => IInv
  BY InvInit
<1>2. IInv /\ [Next]_vars => IInv'
  BY InvStep
<1>3. Init => Contract!Init
  BY ContractInit
<1>4. IInv /\ [Next]_vars => [Contract!Next]_(Contract!contractVars)
  BY ContractStep
<1> QED
  BY <1>1, <1>2, <1>3, <1>4, PTL DEF Spec, KeepsContract, Contract!Spec
=============================================================================

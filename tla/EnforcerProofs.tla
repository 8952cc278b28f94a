--------------------------- MODULE EnforcerProofs ---------------------------
(***************************************************************************)
(* The two goroutines and what they may do to a run: whom they silence,    *)
(* what they may be quoted for and what they alone can break.  For every   *)
(* set of processes and configurations and all bounds.                     *)
(***************************************************************************)
EXTENDS ContractProofs

-----------------------------------------------------------------------------
(* The killed group.                                                       *)

\* The tracee is silent once kill has sent it its signal, and so are, after the
\* signal to the group, the processes that have always been in it.
GroupInv ==
  /\ \A l \in group : l = Tracee \/ st[l] # "unborn"
  /\ \A g \in Goroutines : go[g] # "off" => st[Tracee] # "unborn"
  /\ \A g \in Goroutines : go[g] \in {"killgroup", "report"} => SilencedGroup(Tracee)
  /\ \A g \in Goroutines : go[g] = "report" => \A l \in group \ strayed : SilencedGroup(l)

\* Nobody is unborn again.
LEMMA BornStays ==
  ASSUME IInv, [Next]_vars, NEW p \in Procs, st[p] # "unborn"
  PROVE  st'[p] # "unborn"
<1> USE KernelAssumption DEF KernelAssumption, IInv, TypeOK, KernelTypeOK
<1>1. KernelMove /\ current \in Procs
  BY StepIsKernelMove DEF RunTypeOK
<1>2. CASE UNCHANGED kernelVars
  BY <1>2 DEF kernelVars
<1>3. ASSUME NEW q \in Procs, Collect(q) \/ Restart(q)
      PROVE  st'[p] # "unborn"
  BY <1>3 DEF Collect, Restart
<1>4. CASE TreeStep
  BY <1>4
  DEF TreeStep, ThreadStep, Same, Wakes, Woken, Reports, Arrives, Begins, Dies, GivesWay, Becomes
<1>5. CASE StartTracee \/ ExitTracer
  BY <1>5 DEF StartTracee, ExitTracer
<1> QED
  BY <1>1, <1>2, <1>3, <1>4, <1>5 DEF KernelMove

\* SIGKILL silences the processes it is sent to.
LEMMA KillAllSilences ==
  ASSUME IInv, NEW S, KillAll(S), NEW l \in Procs, l \in S, st[l] # "unborn"
  PROVE  SilencedGroup(l)'
<1> USE DEF IInv, TypeOK, KernelTypeOK
<1> SUFFICES ASSUME NEW p \in Procs, leader'[p] = l PROVE Silenced(p)'
  BY DEF SilencedGroup
<1>1. /\ leader[p] = l /\ status'[p] = status[p]
      /\ st'[p] = Woken(p) /\ st[p] \in States
  BY DEF KillAll, Kill, treeVars
<1>2. st[p] # "unborn"
  BY <1>1 DEF TreeInv
<1> QED
  BY <1>1, <1>2, WokenIsSilenced

\* What is silent stays silent, whoever takes the step.
LEMMA SilencedByAll ==
  ASSUME IInv, [Next]_vars, NEW l \in Procs, SilencedGroup(l)
  PROVE  SilencedGroup(l)'
<1> USE KernelAssumption DEF KernelAssumption, IInv, TypeOK
<1>1. KernelMove /\ current \in Procs
  BY StepIsKernelMove DEF RunTypeOK
<1>2. CASE UNCHANGED kernelVars
  BY <1>2 DEF kernelVars, treeVars, SilencedGroup, Silenced, AtExitStop, Stopped
<1>3. CASE StartTracee /\ (Launch \/ LaunchFails)
  <2>1. st[Tracee] = "unborn" /\ leader[Tracee] = Tracee
    BY <1>3 DEF Launch, LaunchFails, Prelude, TreeInv
  <2>2. l # Tracee
    BY <2>1 DEF SilencedGroup, Silenced, AtExitStop, Stopped
  <2>3. /\ st' = [st EXCEPT ![Tracee] = "pending"]
        /\ status' = [status EXCEPT ![Tracee] = Stop("TRAP")]
        /\ leader' = leader
    BY <1>3 DEF StartTracee, treeVars
  <2> QED
    BY <2>1, <2>2, <2>3 DEF SilencedGroup, Silenced, AtExitStop, Stopped, KernelTypeOK
<1>4. CASE ExitTracer
  BY <1>4 DEF ExitTracer, treeVars, SilencedGroup, Silenced, AtExitStop, Stopped
<1> QED
  BY <1>1, <1>2, <1>3, <1>4, SilencedStays, CollectTree, RestartTree DEF KernelMove

\* How the group changes: who has always been in it joins it by birth.
LEMMA GroupChanges ==
  ASSUME IInv, [Next]_vars
  PROVE  /\ \A l \in group' : l \in group \/ st'[l] # "unborn"
         /\ \/ group' \ strayed' \subseteq group \ strayed
            \/ \E q \in Procs : st[q] = "running" /\ leader[q] \in group \ strayed
<1> USE DEF IInv, TypeOK, KernelTypeOK
<1>1. ASSUME UNCHANGED <<group, strayed>>
      PROVE  /\ \A l \in group' : l \in group \/ st'[l] # "unborn"
             /\ group' \ strayed' \subseteq group \ strayed
  BY <1>1
<1>2. ASSUME NEW p \in Procs, NEW c \in Procs, Fork(p, c)
      PROVE  /\ \A l \in group' : l \in group \/ st'[l] # "unborn"
             /\ \/ group' \ strayed' \subseteq group \ strayed
                \/ st[p] = "running" /\ leader[p] \in group \ strayed
  <2>1. /\ st' = [st EXCEPT ![p] = "forking", ![c] = "pending"]
        /\ st[p] = "running"
    BY <1>2 DEF Fork
  <2>2. PICK l \in {c, leader[p]} :
          /\ group' = IF l = c /\ leader[p] \in group THEN group \cup {c} ELSE group
          /\ strayed' = IF l = c /\ leader[p] \in strayed THEN strayed \cup {c} ELSE strayed
    BY <1>2 DEF Fork
  <2> QED
    BY <2>1, <2>2
<1>3. ASSUME NEW l \in Procs, LeaveGroup(l) \/ JoinGroup(l)
      PROVE  /\ \A k \in group' : k \in group \/ st'[k] # "unborn"
             /\ group' \ strayed' \subseteq group \ strayed
  <2>1. CASE LeaveGroup(l)
    BY <2>1 DEF LeaveGroup
  <2>2. CASE JoinGroup(l)
    <3>1. PICK p \in Procs : leader[p] = l /\ st[p] = "running"
      BY <2>2 DEF JoinGroup
    <3>2. st[l] # "unborn"
      BY <3>1 DEF TreeInv
    <3> QED
      BY <2>2, <3>2 DEF JoinGroup
  <2> QED
    BY <1>3, <2>1, <2>2
<1>4. ASSUME NEW p \in Procs, ProcessStep(p)
      PROVE  \/ UNCHANGED <<group, strayed>>
             \/ \E c \in Procs : Fork(p, c)
             \/ LeaveGroup(p) \/ JoinGroup(p)
  BY <1>4
  DEF ProcessStep, Interrupt, Exec, BeginExec, EndExec, Exit, ExitGroup, ForkStop, UseCpu,
      UseMemory, Die, ExternalKill, KillAll, treeVars
<1>5. CASE \E p \in Procs : ProcessStep(p)
  BY <1>1, <1>2, <1>3, <1>4, <1>5
<1>6. CASE ~\E p \in Procs : ProcessStep(p)
  <2>1. UNCHANGED <<group, strayed>>
    BY <1>6
    DEF Next, Terminated, vars, runVars, kernelVars, treeVars, MainStep, LaunchFails, Launch,
        FirstWait, BeginTrace, Resume, PtraceFails, OutOfIterations, Verdict, CloseStopc, Join,
        ExitTracer, StartTracee, Restart, Collect, TraceLoop, WaitOverLimit, WaitGone,
        WaitStopped, Wait4, GoStep, Begin, Quit, KillProcess, KillGroup, KillAll, Report,
        LimitStep, TimeIsUp, CheckCPUTime, CheckMemory
  <2> QED
    BY <1>1, <2>1
<1> QED
  BY <1>5, <1>6

\* A goroutine gets to a point of its life from the point before.
LEMMA GoPath ==
  ASSUME TypeOK, [Next]_vars, NEW g \in Goroutines, go'[g] # go[g]
  PROVE  /\ go[g] = "off" => Launch
         /\ go'[g] = "killgroup" => KillProcess(g)
         /\ go'[g] = "report" => KillGroup(g)
BY DEF Next, Terminated, vars, runVars, MainStep, LaunchFails, Launch, FirstWait, BeginTrace,
       Resume, PtraceFails, OutOfIterations, Verdict, CloseStopc, Join, ExitTracer, TraceLoop,
       WaitOverLimit, WaitGone, WaitStopped, Wait4, GoStep, Begin, Quit, KillProcess, KillGroup,
       Report, LimitStep, TimeIsUp, CheckCPUTime, CheckMemory, Move, Blame, TypeOK, RunTypeOK,
       Goroutines

LEMMA GroupStep ==
  ASSUME IInv, GroupInv, [Next]_vars
  PROVE  GroupInv'
<1> USE KernelAssumption DEF KernelAssumption, IInv
<1>1. \A l \in group' : l = Tracee \/ st'[l] # "unborn"
  BY GroupChanges, BornStays DEF GroupInv, TypeOK, KernelTypeOK
<1>2. ASSUME NEW g \in Goroutines, go'[g] # "off"
      PROVE  st'[Tracee] # "unborn"
  <2>1. CASE go[g] # "off"
    BY <2>1, BornStays DEF GroupInv
  <2>2. CASE go[g] = "off"
    BY <1>2, <2>2, GoPath DEF Launch, StartTracee, TypeOK, KernelTypeOK
  <2> QED
    BY <2>1, <2>2
<1>3. ASSUME NEW g \in Goroutines, go'[g] \in {"killgroup", "report"}
      PROVE  SilencedGroup(Tracee)'
  <2>1. CASE go[g] \in {"killgroup", "report"}
    BY <2>1, SilencedByAll DEF GroupInv
  <2>2. CASE go[g] \notin {"killgroup", "report"}
    <3>1. KillProcess(g) \/ KillGroup(g)
      BY <1>3, <2>2, GoPath
    <3>2. KillAll({Tracee}) /\ st[Tracee] # "unborn"
      BY <2>2, <3>1 DEF KillProcess, KillGroup, Move, GroupInv
    <3> QED
      BY <3>2, KillAllSilences
  <2> QED
    BY <2>1, <2>2
<1>4. ASSUME NEW g \in Goroutines, go'[g] = "report", NEW l \in group' \ strayed'
      PROVE  SilencedGroup(l)'
  <2>1. CASE go[g] = "report"
    <3>1. \A q \in Procs : leader[q] \in group \ strayed => st[q] # "running"
      BY <2>1 DEF GroupInv, SilencedGroup, Silenced, AtExitStop, Stopped
    <3>2. l \in group \ strayed /\ l \in Procs
      BY <1>4, <3>1, GroupChanges DEF TypeOK, KernelTypeOK
    <3> QED
      BY <2>1, <3>2, SilencedByAll DEF GroupInv
  <2>2. CASE go[g] # "report"
    <3>1. KillGroup(g)
      BY <1>4, <2>2, GoPath
    <3>2. KillAll(group) /\ group' = group /\ go[g] = "killgroup"
      BY <3>1 DEF KillGroup, KillTargets, KillAll, Move, treeVars
    <3>3. l \in group /\ l \in Procs /\ st[l] # "unborn"
      BY <3>2 DEF GroupInv, TypeOK, KernelTypeOK
    <3> QED
      BY <3>2, <3>3, KillAllSilences
  <2> QED
    BY <2>1, <2>2
<1> QED
  BY <1>1, <1>2, <1>3, <1>4 DEF GroupInv

LEMMA GroupInit == Init => GroupInv
BY DEF Init, KernelInit, GroupInv, Goroutines

\* Once a goroutine has sent both of its signals no thread of the tracee, and
\* none of a process that has always been in its group, executes again
\* (runner.go:35-42): however many of them fork, exec, leave the group, come
\* back to it or are restarted between the two.
THEOREM KilledGroupStaysStill == Spec => []KilledGroupIsStill
<1>1. Init => IInv /\ GroupInv
  BY InvInit, GroupInit
<1>2. IInv /\ GroupInv /\ [Next]_vars => IInv' /\ GroupInv'
  BY InvStep, GroupStep
<1>3. GroupInv => KilledGroupIsStill
  BY DEF GroupInv, SilencedGroup, Silenced, AtExitStop, Stopped, KilledGroupIsStill
<1> QED
  BY <1>1, <1>2, <1>3, PTL DEF Spec

-----------------------------------------------------------------------------
(* What is held stays held.                                                *)

\* Something was killed behind the back of the loop, or is about to be.
Excuse == ExternalKills \/ \E g \in Goroutines : reason[g] # NoErr

HeldInv ==
  /\ pc \in {"launch", "wait", "options"} => current = Tracee
  /\ pc \in {"options", "resume"} => st[current] = "held" \/ Excuse \/ Threaded(current)
  /\ ret.err = "Ptrace" => pc \in Ended /\ (Excuse \/ Threaded(current))
  /\ \A g \in Goroutines : go[g] \in {"kill", "killgroup"} => reason[g] # NoErr

\* A reason is never taken back.
LEMMA ExcuseStays ==
  ASSUME TypeOK, [Next]_vars, Excuse
  PROVE  Excuse'
BY DEF Next, Terminated, vars, runVars, MainStep, LaunchFails, Launch, FirstWait, ReturnEarly,
       BeginTrace, Resume, PtraceFails, TraceReturns, OutOfIterations, Verdict, CloseStopc, Join,
       ExitTracer, TraceLoop, WaitOverLimit, WaitGone, WaitStopped, Wait4, Continue, GoStep,
       Begin, Quit, KillProcess, KillGroup, Report, LimitStep, TimeIsUp, CheckCPUTime,
       CheckMemory, Blame, Excuse, TypeOK, RunTypeOK, Goroutines, NoErr

\* Only SIGKILL takes a single thread out of a stop.
LEMMA HeldInTree ==
  ASSUME IInv, NEW q \in Procs, ProcessStep(q), ~ExternalKills,
         NEW p \in Procs, st[p] = "held", ~Threaded(p)
  PROVE  st'[p] = "held"
<1> USE DEF IInv, TypeOK, KernelTypeOK
<1>1. CASE Interrupt(q) \/ Exec(q) \/ Exit(q)
  BY <1>1 DEF Interrupt, Exec, Exit, StopAt
<1>2. CASE BeginExec(q) \/ ExitGroup(q)
  <2>1. p # q /\ leader[p] # leader[q]
    BY <1>2 DEF BeginExec, ExitGroup, Threaded
  <2> QED
    BY <1>2, <2>1 DEF BeginExec, ExitGroup
<1>3. CASE EndExec(q)
  <2>1. p # q /\ leader[leader[q]] = leader[q]
    BY <1>3 DEF EndExec, TreeInv
  <2>2. p # leader[q]
    BY <2>1 DEF Threaded
  <2> QED
    BY <1>3, <2>1, <2>2 DEF EndExec
<1>4. CASE \E c \in Procs : Fork(q, c)
  BY <1>4 DEF Fork
<1>5. CASE ForkStop(q) \/ LeaveGroup(q) \/ JoinGroup(q) \/ UseCpu(q) \/ UseMemory(q) \/ Die(q)
  BY <1>5 DEF ForkStop, LeaveGroup, JoinGroup, UseCpu, UseMemory, Die
<1> QED
  BY <1>1, <1>2, <1>3, <1>4, <1>5 DEF ProcessStep, ExternalKill

\* So do the tracer's restart and its end; the goroutines do it for a reason.
LEMMA HeldStays ==
  ASSUME IInv, HeldInv, [Next]_vars, ~Excuse', ~BeginTrace, ~Resume, ~ExitTracer,
         NEW p \in Procs, st[p] = "held", ~Threaded(p)
  PROVE  st'[p] = "held"
<1> USE KernelAssumption DEF KernelAssumption, IInv, TypeOK, KernelTypeOK
<1>1. ~Excuse
  BY ExcuseStays
<1>2. CASE Launch \/ LaunchFails
  <2>1. p # Tracee
    BY <1>2 DEF Launch, LaunchFails, Prelude
  <2> QED
    BY <1>2, <2>1 DEF Launch, LaunchFails, StartTracee, kernelVars
<1>3. ASSUME NEW q \in Procs, Collect(q)
      PROVE  st'[p] = "held"
  BY <1>3 DEF Collect, Waitable
<1>4. ASSUME NEW q \in Procs, ProcessStep(q)
      PROVE  st'[p] = "held"
  BY <1>1, <1>4, HeldInTree DEF Excuse
<1>5. CASE UNCHANGED kernelVars
  BY <1>5 DEF kernelVars
<1>6. CASE \E g \in Goroutines : GoStep(g)
  BY <1>1, <1>5, <1>6
  DEF GoStep, Begin, Quit, KillProcess, KillGroup, Report, Move, HeldInv, Excuse
<1>7. CASE MainStep
  BY <1>2, <1>3, <1>5, <1>7
  DEF MainStep, FirstWait, PtraceFails, OutOfIterations, Verdict, CloseStopc, Join
<1>8. CASE \E q \in Procs : TraceLoop(q)
  BY <1>3, <1>8 DEF TraceLoop, WaitOverLimit, WaitGone, WaitStopped, Wait4
<1>9. CASE LimitStep
  BY <1>5, <1>9 DEF LimitStep, TimeIsUp, CheckCPUTime, CheckMemory
<1> QED
  BY <1>4, <1>5, <1>6, <1>7, <1>8, <1>9 DEF Next, Terminated, vars

LEMMA HeldStep ==
  ASSUME IInv, HeldInv, [Next]_vars
  PROVE  HeldInv'
<1> USE KernelAssumption DEF KernelAssumption, IInv, TypeOK, KernelTypeOK
<1>1. \A g \in Goroutines : go'[g] \in {"kill", "killgroup"} => reason'[g] # NoErr
  BY DEF Next, Terminated, vars, runVars, MainStep, LaunchFails, Launch, FirstWait, ReturnEarly,
         BeginTrace, Resume, PtraceFails, TraceReturns, OutOfIterations, Verdict, CloseStopc,
         Join, ExitTracer, TraceLoop, WaitOverLimit, WaitGone, WaitStopped, Wait4, Continue,
         GoStep, Begin, Quit, KillProcess, KillGroup, Report, LimitStep, TimeIsUp, CheckCPUTime,
         CheckMemory, Move, Blame, HeldInv, RunTypeOK, Goroutines, NoErr
<1>2. \A p \in Procs : Threaded(p) => Threaded(p)'
  BY InvStep, AllowedStays
<1>3. Excuse => Excuse'
  BY ExcuseStays
<1>4. pc \in Ended => pc' \in Ended
  BY MainPath
<1>5. ASSUME pc' = pc, current' = current, ret' = ret
      PROVE  HeldInv'
  <2>1. pc' \in {"options", "resume"} => ~ExitTracer /\ ~BeginTrace /\ ~Resume
    BY <1>5 DEF ExitTracer, BeginTrace, Resume
  <2>2. pc' \in {"options", "resume"} =>
          st'[current] = "held" \/ Excuse' \/ Threaded(current)'
    BY <1>2, <1>3, <1>5, <2>1, HeldStays DEF HeldInv, RunTypeOK
  <2>3. ret'.err = "Ptrace" => pc' \in Ended /\ (Excuse' \/ Threaded(current)')
    BY <1>2, <1>3, <1>5 DEF HeldInv, RunTypeOK
  <2> QED
    BY <1>1, <1>5, <2>2, <2>3 DEF HeldInv, Threaded
<1>6. ASSUME pc' \notin {"launch", "wait", "options", "resume"}, ret'.err # "Ptrace"
      PROVE  HeldInv'
  BY <1>1, <1>6 DEF HeldInv
<1>7. CASE Launch
  BY <1>1, <1>7 DEF Launch, HeldInv, Ended
<1>8. CASE FirstWait
  <2>1. pc = "wait" /\ current' = current /\ current = Tracee
    BY <1>8 DEF FirstWait, HeldInv
  <2>2. pc' \in {"options", "returned"} /\ ret'.err # "Ptrace"
    BY <1>8 DEF FirstWait, ReturnEarly, Result, HeldInv, NoErr, Ended
  <2>3. pc' = "options" => st'[Tracee] = "held"
    BY <1>8 DEF FirstWait, ReturnEarly, Collect, Waitable
  <2> QED
    BY <1>1, <2>1, <2>2, <2>3 DEF HeldInv
<1>9. CASE PtraceFails
  <2>1. /\ pc \in {"options", "resume"} /\ pc' = "verdict" /\ current' = current
        /\ st[current] # "held"
    BY <1>9 DEF PtraceFails, TraceReturns, Stopped, HeldInv
  <2>2. Excuse' \/ Threaded(current)'
    BY <1>2, <1>3, <2>1 DEF HeldInv, RunTypeOK
  <2> QED
    BY <1>1, <2>1, <2>2 DEF HeldInv, Threaded, Ended
<1>10. ASSUME NEW p \in Procs, TraceLoop(p)
       PROVE  HeldInv'
  <2>1. ret.err # "Ptrace"
    BY <1>10 DEF TraceLoop, WaitOverLimit, WaitGone, WaitStopped, Wait4, HeldInv, Ended
  <2>2. ret'.err # "Ptrace"
    BY <1>10, <2>1, LimitErrorType
    DEF TraceLoop, WaitOverLimit, WaitGone, WaitStopped, TraceReturns, Continue, Result,
        StopError, NoErr
  <2>3. pc' \in {"loop", "resume", "verdict"}
    BY <1>10
    DEF TraceLoop, WaitOverLimit, WaitGone, WaitStopped, Wait4, TraceReturns, Continue
  <2>4. pc' = "resume" => current' = p /\ st'[p] = "held"
    BY <1>10
    DEF TraceLoop, WaitOverLimit, WaitGone, WaitStopped, Wait4, TraceReturns, Continue, Collect
  <2> QED
    BY <1>1, <2>2, <2>3, <2>4 DEF HeldInv
<1>11. CASE LaunchFails \/ BeginTrace \/ Resume \/ OutOfIterations
  BY <1>6, <1>11
  DEF LaunchFails, ReturnEarly, BeginTrace, Resume, OutOfIterations, TraceReturns, Result,
      HeldInv, Ended
<1>12. CASE Verdict
  <2>1. /\ pc = "verdict" /\ pc' = "close" /\ current' = current
        /\ ret'.err = "Ptrace" => ret.err = "Ptrace"
    BY <1>12 DEF Verdict, Result, RunTypeOK, TracerErrors, NoErr
  <2>2. ret'.err = "Ptrace" => Excuse' \/ Threaded(current)'
    BY <1>2, <1>3, <2>1 DEF HeldInv, RunTypeOK
  <2> QED
    BY <1>1, <2>1, <2>2 DEF HeldInv, Threaded, Ended
<1>13. CASE CloseStopc \/ Join \/ ExitTracer
  <2>1. /\ current' = current /\ ret' = ret
        /\ pc' \notin {"launch", "wait", "options", "resume"} /\ pc' \in Ended
    BY <1>13 DEF CloseStopc, Join, ExitTracer, Ended
  <2>2. ret'.err = "Ptrace" => Excuse' \/ Threaded(current)'
    BY <1>2, <1>3, <2>1 DEF HeldInv, RunTypeOK
  <2> QED
    BY <1>1, <2>1, <2>2 DEF HeldInv, Threaded
<1>14. CASE UNCHANGED <<pc, current, ret>>
  BY <1>5, <1>14
<1> QED
  BY <1>7, <1>8, <1>9, <1>10, <1>11, <1>12, <1>13, <1>14
  DEF Next, Terminated, vars, runVars, MainStep, GoStep, Begin, Quit, KillProcess, KillGroup,
      Report, LimitStep, TimeIsUp, CheckCPUTime, CheckMemory

LEMMA HeldInit == Init => HeldInv
BY DEF Init, HeldInv, Result, Goroutines, NoErr

\* The tracer does not break its own run: ptrace fails only when a goroutine
\* has been given a reason to kill, something else sends SIGKILL, or another
\* thread of the process, by exit_group or execve, has taken the thread out of
\* its stop (runner.go:344-368, 485-488).
THEOREM TracerBreaksNoRun == Spec => []PtraceFailsOnlyAfterKill
<1>1. Init => IInv /\ HeldInv
  BY InvInit, HeldInit
<1>2. IInv /\ HeldInv /\ [Next]_vars => IInv' /\ HeldInv'
  BY InvStep, HeldStep
<1>3. HeldInv => PtraceFailsOnlyAfterKill
  BY DEF HeldInv, Excuse, PtraceFailsOnlyAfterKill
<1> QED
  BY <1>1, <1>2, <1>3, PTL DEF Spec

-----------------------------------------------------------------------------
(* Blame.                                                                  *)

\* The limits the limiter enforces.
Limited == cfg.CPUTimeLimit > 0 \/ cfg.MemoryLimit > 0

\* What stands behind error e when it is found.
Evidence(e) ==
  /\ e = "MemoryLimit" => \E p \in Procs : Exceeds(rss[p], cfg.MemoryLimit)
  /\ e = "CPUTimeLimit" => \E p \in Procs : Exceeds(cpu[p], cfg.CPUTimeLimit)
  /\ e = "RealTimeLimit" => cfg.RealTimeLimit > 0
  /\ e \in {"checkedCPUTime", "checkedMemory", "statUnreadable"} => Limited
  /\ OwnProc /\ e = "checkedCPUTime" => Exceeds(cpu[Tracee] \div TickMs, cfg.CPUTimeLimit)
  /\ OwnProc /\ e = "statUnreadable" => st[Tracee] \in {"dead", "reaped"} \/ Threaded(Tracee)

Killing == {"kill", "killgroup", "report", "finished"}

\* Every error in the hands of the run has its evidence, and time's up is said
\* by the timer alone.
BlameInv ==
  /\ go["timer"] # "off" => cfg.RealTimeLimit > 0
  /\ go["limiter"] # "off" => Limited
  /\ \A g \in Goroutines : Evidence(reason[g])
  /\ Evidence(errc)
  /\ Evidence(ret.err)
  /\ \A g \in Goroutines : reason[g] = "RealTimeLimit" => g = "timer" /\ go[g] \in Killing
  /\ errc = "RealTimeLimit" \/ ret.err = "RealTimeLimit" => go["timer"] = "finished"

\* Nobody uses less than before.
LEMMA UsageGrows ==
  ASSUME IInv, [Next]_vars, NEW p \in Procs
  PROVE  cpu'[p] >= cpu[p] /\ rss'[p] >= rss[p]
<1> USE KernelAssumption DEF KernelAssumption, IInv, TypeOK, KernelTypeOK
<1>1. KernelMove
  BY StepIsKernelMove
<1>2. cpu[p] \in Int /\ rss[p] \in Int
  OBVIOUS
<1>3. CASE cpu' = cpu /\ rss' = rss
  BY <1>2, <1>3
<1>4. CASE TreeStep
  BY <1>2, <1>4 DEF TreeStep, GrowStep
<1> QED
  BY <1>1, <1>3, <1>4
  DEF KernelMove, kernelVars, treeVars, Collect, Restart, StartTracee, ExitTracer

LEMMA DivisionGrows ==
  ASSUME NEW a \in Nat, NEW b \in Nat, a <= b
  PROVE  a \div TickMs <= b \div TickMs /\ a \div TickMs \in Int /\ b \div TickMs \in Int
BY TracerAssumption DEF TracerAssumption

\* Evidence does not go away.
LEMMA EvidenceStays ==
  ASSUME IInv, [Next]_vars, NEW e, Evidence(e)
  PROVE  Evidence(e)'
<1> USE KernelAssumption DEF KernelAssumption, IInv
<1>1. cfg' = cfg
  BY ConfigIsFixed
<1>2. cfg.MemoryLimit \in Int /\ cfg.CPUTimeLimit \in Int
  BY TracerAssumption DEF TracerAssumption, TypeOK, RunTypeOK, Config
<1>3. \A p \in Procs : /\ cpu[p] \in Nat /\ rss[p] \in Nat
                       /\ cpu'[p] \in Nat /\ rss'[p] \in Nat
                       /\ cpu'[p] >= cpu[p] /\ rss'[p] >= rss[p]
  BY UsageGrows, InvStep DEF TypeOK, KernelTypeOK
<1>4. e = "MemoryLimit" => \E p \in Procs : Exceeds(rss'[p], cfg'.MemoryLimit)
  BY <1>1, <1>2, <1>3 DEF Evidence, Exceeds
<1>5. e = "CPUTimeLimit" => \E p \in Procs : Exceeds(cpu'[p], cfg'.CPUTimeLimit)
  BY <1>1, <1>2, <1>3 DEF Evidence, Exceeds
<1>6. OwnProc /\ e = "checkedCPUTime" => Exceeds(cpu'[Tracee] \div TickMs, cfg'.CPUTimeLimit)
  <2>1. /\ cpu[Tracee] \div TickMs <= cpu'[Tracee] \div TickMs
        /\ cpu[Tracee] \div TickMs \in Int /\ cpu'[Tracee] \div TickMs \in Int
    BY <1>3, DivisionGrows
  <2> QED
    BY <1>1, <1>2, <2>1 DEF Evidence, Exceeds
<1>7. ASSUME st[Tracee] \in {"dead", "reaped"} \/ Threaded(Tracee)
      PROVE  st'[Tracee] \in {"dead", "reaped"} \/ Threaded(Tracee)'
  <2>1. Threaded(Tracee) => Threaded(Tracee)'
    BY AllowedStays, InvStep
  <2>2. SUFFICES ASSUME st[Tracee] \in {"dead", "reaped"}, ~Threaded(Tracee)
                 PROVE  st'[Tracee] \in {"dead", "reaped"}
    BY <1>7, <2>1
  <2> USE DEF TypeOK, KernelTypeOK
  <2>3. KernelMove /\ current \in Procs
    BY StepIsKernelMove DEF RunTypeOK
  <2>4. CASE UNCHANGED kernelVars \/ ExitTracer
    BY <2>2, <2>4 DEF kernelVars, ExitTracer
  <2>5. CASE TreeStep
    BY <2>2, <2>5
    DEF TreeStep, ThreadStep, Same, Wakes, Live, Reports, Arrives, Begins, Dies, GivesWay,
        Becomes
  <2>6. CASE \E q \in Procs : Collect(q) \/ Restart(q)
    BY <2>2, <2>6 DEF Collect, Waitable, Restart, Stopped
  <2>7. ~Launch /\ ~LaunchFails
    BY <2>2 DEF Launch, LaunchFails, Prelude
  <2> QED
    BY <2>3, <2>4, <2>5, <2>6, <2>7 DEF KernelMove
<1>8. Limited' = Limited /\ OwnProc' = OwnProc
  BY <1>1 DEF Limited, OwnProc
<1> QED
  BY <1>1, <1>4, <1>5, <1>6, <1>7, <1>8 DEF Evidence

\* What the goroutines find.
LEMMA ReasonHasEvidence ==
  ASSUME IInv, BlameInv, [Next]_vars, NEW g \in Goroutines
  PROVE  /\ Evidence(reason'[g])
         /\ reason'[g] = "RealTimeLimit" => g = "timer" /\ go'[g] \in Killing
<1> USE DEF IInv, BlameInv
<1>1. ASSUME reason'[g] = reason[g], go[g] \in Killing => go'[g] \in Killing
      PROVE  /\ Evidence(reason'[g])
             /\ reason'[g] = "RealTimeLimit" => g = "timer" /\ go'[g] \in Killing
  BY <1>1
<1>2. CASE TimeIsUp
  BY <1>1, <1>2 DEF TimeIsUp, Blame, TypeOK, RunTypeOK, Goroutines, Killing, Evidence
<1>3. CASE CheckCPUTime
  BY <1>1, <1>3 DEF CheckCPUTime, Blame, Move, TypeOK, RunTypeOK, Goroutines, Killing, Evidence
<1>4. CASE CheckMemory
  BY <1>1, <1>4 DEF CheckMemory, Blame, Move, TypeOK, RunTypeOK, Goroutines, Killing, Evidence
<1>5. CASE ~LimitStep
  <2>1. reason' = reason
    BY <1>5
    DEF Next, Terminated, vars, runVars, MainStep, LaunchFails, Launch, FirstWait, ReturnEarly,
        BeginTrace, Resume, PtraceFails, TraceReturns, OutOfIterations, Verdict, CloseStopc, Join,
        ExitTracer, TraceLoop, WaitOverLimit, WaitGone, WaitStopped, Wait4, Continue, GoStep,
        Begin, Quit, KillProcess, KillGroup, Report, LimitStep, TimeIsUp, CheckCPUTime,
        CheckMemory
  <2>2. go[g] \in Killing => go'[g] \in Killing
    <3>1. CASE Launch
      BY <3>1 DEF Launch, WgCounts, Killing
    <3>2. CASE \E h \in Goroutines : GoStep(h)
      BY <3>2 DEF GoStep, Begin, Quit, KillProcess, KillGroup, Report, Move, TypeOK, RunTypeOK,
                  Killing
    <3>3. CASE ~Launch /\ ~\E h \in Goroutines : GoStep(h)
      BY <1>5, <3>3
      DEF Next, Terminated, vars, runVars, MainStep, LaunchFails, FirstWait, BeginTrace, Resume,
          PtraceFails, OutOfIterations, Verdict, CloseStopc, Join, ExitTracer, TraceLoop,
          WaitOverLimit, WaitGone, WaitStopped, Wait4
    <3> QED
      BY <3>1, <3>2, <3>3
  <2> QED
    BY <1>1, <2>1, <2>2
<1> QED
  BY <1>2, <1>3, <1>4, <1>5 DEF LimitStep

\* What is reported, and what Run returns, has been found before.
LEMMA ReportHasEvidence ==
  ASSUME IInv, BlameInv, [Next]_vars
  PROVE  Evidence(errc')
<1>1. CASE errc' \in {errc, NoErr}
  BY <1>1 DEF BlameInv, Evidence, NoErr
<1>2. ASSUME NEW g \in Goroutines, Report(g)
      PROVE  Evidence(errc')
  BY <1>2 DEF Report, BlameInv
<1> QED
  BY <1>1, <1>2
  DEF Next, Terminated, vars, runVars, MainStep, LaunchFails, Launch, FirstWait, ReturnEarly,
      BeginTrace, Resume, PtraceFails, TraceReturns, OutOfIterations, Verdict, CloseStopc, Join,
      ExitTracer, TraceLoop, WaitOverLimit, WaitGone, WaitStopped, Wait4, Continue, GoStep, Begin,
      Quit, KillProcess, KillGroup, Report, LimitStep, TimeIsUp, CheckCPUTime, CheckMemory

LEMMA ResultHasEvidence ==
  ASSUME IInv, BlameInv, [Next]_vars
  PROVE  Evidence(ret'.err)
<1> USE DEF IInv, TypeOK
<1>1. CASE ret'.err = ret.err
  BY <1>1 DEF BlameInv
<1>2. CASE ret'.err \in PlainErrors \cup {NoErr}
  BY <1>2 DEF PlainErrors, NoErr, Evidence
<1>3. CASE LaunchFails \/ FirstWait \/ PtraceFails \/ OutOfIterations
  BY <1>1, <1>2, <1>3
  DEF LaunchFails, FirstWait, ReturnEarly, PtraceFails, OutOfIterations, TraceReturns, Result,
      PlainErrors
<1>4. CASE Verdict
  BY <1>4 DEF Verdict, Result, BlameInv
<1>5. ASSUME NEW p \in Procs, WaitOverLimit(p)
      PROVE  Evidence(ret'.err)
  <2>1. ret'.err = LimitError(p)
    BY <1>5 DEF WaitOverLimit, TraceReturns, Result
  <2> QED
    BY <2>1 DEF LimitError, Evidence, NoErr, KernelTypeOK
<1>6. ASSUME NEW p \in Procs, WaitGone(p) \/ WaitStopped(p)
      PROVE  Evidence(ret'.err)
  <2>1. ret' = ret \/ ret'.err \in PlainErrors \cup {NoErr}
    BY <1>6, StopErrorType
    DEF WaitGone, WaitStopped, TraceReturns, Continue, Result, PlainErrors
  <2> QED
    BY <1>1, <1>2, <2>1
<1> QED
  BY <1>1, <1>3, <1>4, <1>5, <1>6
  DEF Next, Terminated, vars, runVars, MainStep, Launch, BeginTrace, Resume, CloseStopc, Join,
      ExitTracer, TraceLoop, GoStep, Begin, Quit, KillProcess, KillGroup, Report, LimitStep,
      TimeIsUp, CheckCPUTime, CheckMemory

\* Time's up is reported by a timer that has finished.
LEMMA TimeIsReported ==
  ASSUME IInv, BlameInv, [Next]_vars, errc' = "RealTimeLimit" \/ ret'.err = "RealTimeLimit"
  PROVE  go'["timer"] = "finished"
<1> USE DEF IInv, TypeOK, RunTypeOK, Goroutines
<1>1. ASSUME go["timer"] = "finished"
      PROVE  go'["timer"] = "finished"
  <2>1. ~Launch
    BY <1>1 DEF Launch, WgCounts
  <2> QED
    BY <1>1, <2>1
    DEF Next, Terminated, vars, runVars, MainStep, LaunchFails, Launch, FirstWait, ReturnEarly,
        BeginTrace, Resume, PtraceFails, TraceReturns, OutOfIterations, Verdict, CloseStopc, Join,
        ExitTracer, TraceLoop, WaitOverLimit, WaitGone, WaitStopped, Wait4, Continue, GoStep,
        Begin, Quit, KillProcess, KillGroup, Report, LimitStep, TimeIsUp, CheckCPUTime,
        CheckMemory, Move, Blame
<1>2. ASSUME NEW g \in Goroutines, Report(g)
      PROVE  go'["timer"] = "finished"
  <2>1. CASE errc = "RealTimeLimit" \/ ret.err = "RealTimeLimit"
    BY <1>1, <2>1 DEF BlameInv
  <2>2. CASE reason[g] = "RealTimeLimit"
    BY <1>2, <2>2 DEF Report, Move, BlameInv
  <2> QED
    BY <1>2, <2>1, <2>2 DEF Report
<1>3. CASE errc' \in {errc, NoErr} /\ ret'.err \in {errc, ret.err} \cup PlainErrors
                                              \cup {NoErr, "MemoryLimit", "CPUTimeLimit"}
  BY <1>1, <1>3 DEF BlameInv, PlainErrors, NoErr
<1>4. CASE MainStep
  <2>1. errc' \in {errc, NoErr}
    BY <1>4 DEF MainStep, LaunchFails, Launch, FirstWait, BeginTrace, Resume, PtraceFails,
                OutOfIterations, Verdict, CloseStopc, Join, ExitTracer
  <2>2. ret'.err \in {errc, ret.err, NoErr} \cup PlainErrors
    BY <1>4 DEF MainStep, LaunchFails, Launch, FirstWait, ReturnEarly, BeginTrace, Resume,
                PtraceFails, OutOfIterations, TraceReturns, Verdict, CloseStopc, Join,
                ExitTracer, Result, PlainErrors
  <2> QED
    BY <1>3, <2>1, <2>2
<1>5. ASSUME NEW p \in Procs, TraceLoop(p)
      PROVE  go'["timer"] = "finished"
  <2>1. errc' = errc
    BY <1>5 DEF TraceLoop, WaitOverLimit, WaitGone, WaitStopped, Wait4
  <2>2. ret'.err \in {ret.err, NoErr, "MemoryLimit", "CPUTimeLimit"} \cup PlainErrors
    BY <1>5, LimitErrorType, StopErrorType
    DEF TraceLoop, WaitOverLimit, WaitGone, WaitStopped, TraceReturns, Continue, Result,
        PlainErrors
  <2> QED
    BY <1>3, <2>1, <2>2
<1>6. CASE UNCHANGED <<errc, ret>>
  BY <1>3, <1>6
<1> QED
  BY <1>2, <1>4, <1>5, <1>6
  DEF Next, Terminated, vars, runVars, GoStep, Begin, Quit, KillProcess, KillGroup, LimitStep,
      TimeIsUp, CheckCPUTime, CheckMemory

\* Only the goroutines of limits in force exist.
LEMMA EnforcedStep ==
  ASSUME IInv, BlameInv, [Next]_vars
  PROVE  /\ go'["timer"] # "off" => cfg'.RealTimeLimit > 0
         /\ go'["limiter"] # "off" => Limited'
<1>1. cfg' = cfg /\ Limited' = Limited
  BY ConfigIsFixed DEF Limited
<1>2. CASE Launch
  BY <1>1, <1>2 DEF Launch, Enforcers, Goroutines, Limited
<1>3. CASE ~Launch
  <2>1. \A g \in Goroutines : go'[g] # "off" => go[g] # "off"
    BY <1>3, GoPath DEF IInv
  <2> QED
    BY <1>1, <2>1 DEF BlameInv, Goroutines
<1> QED
  BY <1>2, <1>3

LEMMA BlameStep ==
  ASSUME IInv, BlameInv, [Next]_vars
  PROVE  BlameInv'
<1>1. \A e : Evidence(e) => Evidence(e)'
  BY EvidenceStays
<1>2. \A g \in Goroutines : Evidence(reason[g])'
  BY <1>1, ReasonHasEvidence DEF Evidence
<1>3. Evidence(errc)'
  BY <1>1, ReportHasEvidence DEF Evidence
<1>4. Evidence(ret.err)'
  BY <1>1, ResultHasEvidence DEF Evidence
<1> QED
  BY <1>2, <1>3, <1>4, ReasonHasEvidence, TimeIsReported, EnforcedStep DEF BlameInv

LEMMA BlameInit == Init => BlameInv
BY DEF Init, BlameInv, Evidence, Goroutines, Result, NoErr

\* A limit is blamed only if it is in force and has been reached -- by a process
\* for the loop, by time for the timer, by the tracee for a limiter that reads
\* the namespace's own /proc, which fails it only once the tracee's first thread
\* has ended (runner.go:193-257, 375-397, main.go:159-165): also when the reason
\* is found, reported and returned by three different threads at three times.
THEOREM BlameIsAlwaysJustified == Spec => []BlameIsJustified
<1>1. Init => IInv /\ BlameInv
  BY InvInit, BlameInit
<1>2. IInv /\ BlameInv /\ [Next]_vars => IInv' /\ BlameInv'
  BY InvStep, BlameStep
<1>3. BlameInv => BlameIsJustified
  BY DEF BlameInv, Evidence, Limited, BlameIsJustified
<1> QED
  BY <1>1, <1>2, <1>3, PTL DEF Spec
=============================================================================

---------------------------- MODULE LegacyProofs ----------------------------
(***************************************************************************)
(* Theorems about module LegacyRunner, for every set of processes, pipes   *)
(* and configurations and all bounds.                                      *)
(***************************************************************************)
EXTENDS LegacyRunner, KernelProofs, SequenceTheorems

\* The watchers begin with the wait; the idle counter counts while one watches.
WatchInv ==
  /\ pc \in {"start", "started"} => \A g \in Watchers : watch[g] = "off"
  /\ watch["usage"] \in {"off", "ready", "sample"} => idle = 0
  /\ watch["usage"] = "watching" => idle = 0 \/ idle < cfg.IdleLimit

-----------------------------------------------------------------------------
(* Types.                                                                  *)

\* What the threads do by themselves, and what a kill does to them.
TreeMove ==
  \/ \E q \in Procs : ForkWithOutput(q) \/ OtherStep(q)
  \/ KillAll({Tracee})

\* Every step, as the threads of the tree see it.
KernelMove ==
  \/ UNCHANGED kernelVars
  \/ TreeMove
  \/ \E q \in Procs : Collect(q) /\ (WaitStopped(q) \/ st[q] = "dead" \/ FirstWait)
  \/ Continue /\ Restart(waitPid) /\ opts' = TRUE
  \/ pc = "start" /\ StartTracee /\ pc' = "started"
  \/ EndProgram /\ Alive

LEMMA StepIsKernelMove ==
  ASSUME [Next]_vars
  PROVE  KernelMove
<1> USE KernelAssumption DEF KernelAssumption, KernelMove, TreeMove, Alive
<1>1. CASE MainStep
  BY <1>1
  DEF MainStep, SetupFails, Start, PrepareFails, StartWatchers, FirstWait, Continue,
      WaitTraceeExited, WaitNobody, Join, Defer, CallerExits, WaitGone, WaitStopped, Wait
<1>2. CASE TimeIsUp \/ UsageStep
  BY <1>2 DEF TimeIsUp, UsageStep, BeginUsage, FirstSample, Tick
<1>3. CASE \E g \in Watchers : AbortStep(g)
  BY <1>3 DEF AbortStep, KillTracee, ExitProgram, Advance
<1>4. CASE \E f \in Pipes : ReaderStep(f)
  BY <1>4 DEF ReaderStep, ReadLine, ReadEnd, ReadTooLong, ReadClosed
<1>5. CASE \E p \in Procs : ForkWithOutput(p) \/ CloseOutput(p) \/ OtherStep(p)
  BY <1>5 DEF CloseOutput
<1>6. CASE \E p \in Procs, f \in Pipes : Write(p, f)
  BY <1>6 DEF Write
<1>7. CASE UNCHANGED vars
  BY <1>7 DEF vars
<1> QED
  BY <1>1, <1>2, <1>3, <1>4, <1>5, <1>6, <1>7 DEF Next, Terminated

LEMMA KernelStays ==
  ASSUME KernelTypeOK, waitPid \in Procs, KernelMove
  PROVE  KernelTypeOK'
<1>1. CASE UNCHANGED kernelVars
  BY <1>1 DEF kernelVars, treeVars, KernelTypeOK
<1>2. CASE Continue /\ Restart(waitPid) /\ opts' = TRUE
  BY <1>2, RestartType
<1>3. ASSUME NEW q \in Procs, ForkWithOutput(q) \/ OtherStep(q)
      PROVE  ProcessStep(q)
  BY <1>3 DEF ForkWithOutput, OtherStep, ProcessStep
<1> QED
  BY <1>1, <1>2, <1>3, CollectType, ProcessStepType, StartTraceeType, KillAllType, LetGoType
  DEF KernelMove, TreeMove, EndProgram

LEMMA TypeInit == Init => TypeOK /\ WatchInv
<1> SUFFICES ASSUME Init PROVE TypeOK /\ WatchInv
  OBVIOUS
<1>1. KernelTypeOK
  BY KernelInitType DEF Init
<1>2. cfg \in Config
  BY LegacyAssumption DEF LegacyAssumption, Init
<1>3. cfg \in Configs /\ pc = "start" /\ waitPid \in Procs /\ idle \in 0..cfg.IdleLimit
  BY <1>2, KernelAssumption DEF KernelAssumption, Init, Config
<1>4. ret \in [code : -1..255, err : {NoErr} \cup Errors]
  BY DEF Init, Result
<1>5. watch \in [Watchers -> {"off"}] /\ cause \in [Watchers -> {NoErr}]
  BY DEF Init
<1>6. ptB \in 0..MaxCpu
  BY KernelAssumption DEF KernelAssumption, Init
<1>7. reader \in [Pipes -> {"reading"}] /\ open \in [Procs -> BOOLEAN]
  BY DEF Init
<1>8. pipe \in [Pipes -> Seq({"line", "long"})] /\ \A f \in Pipes : Len(pipe[f]) <= MaxLines
  BY LegacyAssumption DEF LegacyAssumption, Init
<1> QED
  BY <1>1, <1>3, <1>4, <1>5, <1>6, <1>7, <1>8 DEF Init, TypeOK, WatchInv, Watchers

LEMMA LimitIsNatural ==
  ASSUME cfg \in Configs
  PROVE  cfg.IdleLimit \in Nat
BY LegacyAssumption DEF LegacyAssumption, Config

\* The steps of RunProcess.
LEMMA MainStepType ==
  ASSUME TypeOK, WatchInv, KernelTypeOK', MainStep
  PROVE  TypeOK' /\ WatchInv'
<1> USE DEF TypeOK, WatchInv
<1>1. CASE SetupFails \/ Start \/ PrepareFails
  BY <1>1 DEF SetupFails, Start, PrepareFails, Return, Result, Errors
<1>2. CASE StartWatchers
  BY <1>2 DEF StartWatchers, Watchers
<1>3. CASE FirstWait \/ Continue \/ Join \/ Defer
  BY <1>3 DEF FirstWait, Continue, Join, Defer
<1>4. CASE WaitTraceeExited
  <2>1. Final(Tracee).code \in -1..255
    BY FinalType, KernelAssumption DEF KernelAssumption
  <2> QED
    BY <1>4, <2>1 DEF WaitTraceeExited, Wait, Result
<1>5. CASE WaitNobody
  BY <1>5 DEF WaitNobody, Return, Result, Errors
<1>6. CASE CallerExits
  BY <1>6 DEF CallerExits, EndProgram
<1>7. ASSUME NEW p \in Procs, WaitGone(p) \/ WaitStopped(p)
      PROVE  TypeOK' /\ WatchInv'
  BY <1>7 DEF WaitGone, WaitStopped, Wait, Return, Result, StopError, Errors, NoErr
<1> QED
  BY <1>1, <1>2, <1>3, <1>4, <1>5, <1>6, <1>7 DEF MainStep

LEMMA WatcherStepType ==
  ASSUME TypeOK, WatchInv, KernelTypeOK',
         TimeIsUp \/ UsageStep \/ \E g \in Watchers : AbortStep(g)
  PROVE  TypeOK' /\ WatchInv'
<1> USE LimitIsNatural DEF TypeOK, WatchInv, Watchers
<1>1. CASE TimeIsUp
  BY <1>1 DEF TimeIsUp, Blame, Causes
<1>2. CASE BeginUsage
  BY <1>2 DEF BeginUsage, Advance
<1>3. CASE FirstSample
  BY <1>3, KernelAssumption
  DEF KernelAssumption, FirstSample, Advance, Blame, Causes, KernelTypeOK
<1>4. CASE Tick
  <2>1. cfg' = cfg /\ idle' \in 0..cfg.IdleLimit
    BY <1>4 DEF Tick, IdleAfter
  <2>2. ptB' \in 0..MaxCpu
    BY <1>4, KernelAssumption DEF KernelAssumption, Tick, KernelTypeOK
  <2>3. cause' \in [Watchers -> {NoErr} \cup Causes]
    BY <1>4 DEF Tick, Blame, Causes
  <2>4. \/ watch' = [watch EXCEPT !["usage"] = "kill"]
        \/ watch' = watch /\ (idle' = 0 \/ idle' < cfg.IdleLimit)
    BY <1>4, <2>1 DEF Tick, Blame, IdleAfter, IdleReached, NoErr
  <2>5. watch["usage"] = "watching"
    BY <1>4 DEF Tick
  <2> QED
    BY <1>4, <2>1, <2>2, <2>3, <2>4, <2>5 DEF Tick
<1>5. ASSUME NEW g \in Watchers, KillTracee(g)
      PROVE  TypeOK' /\ WatchInv'
  BY <1>5 DEF KillTracee, Advance
<1>6. ASSUME NEW g \in Watchers, ExitProgram(g)
      PROVE  TypeOK' /\ WatchInv'
  BY <1>6 DEF ExitProgram, EndProgram, Advance, Result, Errors
<1> QED
  BY <1>1, <1>2, <1>3, <1>4, <1>5, <1>6 DEF UsageStep, AbortStep

LEMMA OutputStepType ==
  ASSUME TypeOK, WatchInv, KernelTypeOK',
         \/ \E f \in Pipes : ReaderStep(f)
         \/ \E p \in Procs : ForkWithOutput(p) \/ CloseOutput(p) \/ OtherStep(p)
         \/ \E p \in Procs, f \in Pipes : Write(p, f)
  PROVE  TypeOK' /\ WatchInv'
<1> USE DEF TypeOK, WatchInv
<1>1. ASSUME NEW f \in Pipes, ReadLine(f)
      PROVE  TypeOK' /\ WatchInv'
  <2>1. pipe[f] \in Seq({"line", "long"}) /\ pipe[f] # <<>> /\ Len(pipe[f]) <= MaxLines
    BY <1>1 DEF ReadLine
  <2>2. Tail(pipe[f]) \in Seq({"line", "long"}) /\ Len(Tail(pipe[f])) <= MaxLines
    BY <2>1, HeadTailProperties, LegacyAssumption DEF LegacyAssumption
  <2> QED
    BY <1>1, <2>2 DEF ReadLine
<1>2. ASSUME NEW f \in Pipes, ReadEnd(f)
      PROVE  TypeOK' /\ WatchInv'
  BY <1>2 DEF ReadEnd
<1>3. ASSUME NEW f \in Pipes, ReadTooLong(f) \/ ReadClosed(f)
      PROVE  TypeOK' /\ WatchInv'
  BY <1>3 DEF ReadTooLong, ReadClosed, EndProgram, Result, Errors
<1>4. ASSUME NEW p \in Procs, ForkWithOutput(p) \/ CloseOutput(p)
      PROVE  TypeOK' /\ WatchInv'
  <2>1. \E c \in Procs, b \in BOOLEAN : open' = [open EXCEPT ![c] = b]
    BY <1>4 DEF ForkWithOutput, CloseOutput, KernelTypeOK
  <2>2. open' \in [Procs -> BOOLEAN]
    BY <2>1
  <2>3. UNCHANGED <<cfg, pc, waitPid, ret, watch, cause, idle, ptB, reader, pipe>>
    BY <1>4 DEF ForkWithOutput, CloseOutput
  <2> QED
    BY <2>2, <2>3
<1>5. ASSUME NEW p \in Procs, OtherStep(p)
      PROVE  TypeOK' /\ WatchInv'
  BY <1>5 DEF OtherStep, legacyVars
<1>6. ASSUME NEW p \in Procs, NEW f \in Pipes, Write(p, f)
      PROVE  TypeOK' /\ WatchInv'
  <2>1. PICK l \in {"line", "long"} : pipe' = [pipe EXCEPT ![f] = Append(@, l)]
    BY <1>6 DEF Write
  <2>2. /\ Append(pipe[f], l) \in Seq({"line", "long"})
        /\ Len(Append(pipe[f], l)) <= MaxLines
    BY <1>6, LegacyAssumption DEF LegacyAssumption, Write
  <2> QED
    BY <1>6, <2>1, <2>2 DEF Write
<1> QED
  BY <1>1, <1>2, <1>3, <1>4, <1>5, <1>6 DEF ReaderStep

LEMMA TypeStep == TypeOK /\ WatchInv /\ [Next]_vars => TypeOK' /\ WatchInv'
<1> SUFFICES ASSUME TypeOK, WatchInv, [Next]_vars PROVE TypeOK' /\ WatchInv'
  OBVIOUS
<1>1. KernelTypeOK'
  BY StepIsKernelMove, KernelStays DEF TypeOK
<1>2. CASE UNCHANGED vars
  BY <1>1, <1>2 DEF TypeOK, WatchInv, vars, legacyVars
<1> QED
  BY <1>1, <1>2, MainStepType, WatcherStepType, OutputStepType DEF Next, Terminated

\* Every variable keeps its type: in particular the idle counter never passes
\* its limit (exec.go:340-362) and the pipes their bound.
THEOREM TypeCorrect == Spec => []TypeOK
<1>1. Init => TypeOK /\ WatchInv
  BY TypeInit
<1>2. TypeOK /\ WatchInv /\ [Next]_vars => TypeOK' /\ WatchInv'
  BY TypeStep
<1> QED
  BY <1>1, <1>2, PTL DEF Spec

-----------------------------------------------------------------------------
(* The inductive invariant.                                                *)

Ended == {"defer", "returned", "exited"}

\* Until the loop has restarted the tracee nothing runs.
Prelude ==
  pc \in {"start", "started", "wait"} =>
    /\ \A p \in Procs : did[p] = {} /\ st[p] \notin {"running", "forking", "execing"}
    /\ waitPid = Tracee
    /\ pc = "start" => st[Tracee] = "unborn"

\* What p may have done and still run: the exception is an execve that takes
\* the place of the stop p is restarted from.
Allowed(p) == Permitted \cup (IF Threaded(p) THEN {"EXEC"} ELSE {})

\* A thread that did something forbidden is on its way to a stop the loop does
\* not tolerate, has reached it, or has been told to end.
Caught(p) ==
  ~(did[p] \subseteq Allowed(p)) =>
    \/ st[p] = "forking" /\ StopError(status[p].kind) # NoErr
    \/ st[p] = "pending" /\ (status[p].kind = "EXIT" \/ StopError(status[p].kind) # NoErr)
    \/ st[p] = "held" /\ (status[p].kind = "EXIT" \/ pc \in Ended)
    \/ st[p] \in {"dying", "dead", "reaped"}

\* What the loop is about to restart is where it left it, or is ending, or has
\* executed a new image meanwhile.
ResumeInv ==
  pc = "cont" =>
    \/ st[waitPid] \in {"held", "dying", "dead", "reaped"}
    \/ /\ st[waitPid] = "pending"
       /\ \/ status[waitPid].kind = "EXIT"
          \/ did[waitPid] \subseteq Allowed(waitPid)

\* Nothing of the tracee executes another instruction.
Quiet == st[Tracee] = "unborn" \/ SilencedGroup(Tracee)

\* A watcher that is about to end the program has a cause and has killed the
\* tracee; RunProcess returns without one, or after its deferred kill.
KillInv ==
  /\ ret.err # "abort"
  /\ \A g \in Watchers :
       /\ watch[g] \in {"kill", "exit"} => cause[g] # NoErr
       /\ watch[g] = "finished" => cause[g] = NoErr
       /\ watch[g] = "exit" => Quiet
  /\ pc = "returned" => Quiet

\* The causes of the two watchers.
BlameInv ==
  /\ watch["time"] # "off" => cfg.TimeLimit > 0
  /\ cause["time"] \in {NoErr, "time"}
  /\ cause["usage"] # "time"
  /\ watch["usage"] \in {"off", "ready", "sample", "watching"} => cause["usage"] = NoErr
  /\ AbortIsJustified

\* A reader is done when nothing is left to read and nobody can write; the loop
\* ends without an error when it has reaped the tracee, and RunProcess when the
\* readers are done as well.
OutputInv ==
  /\ \A f \in Pipes : reader[f] = "done" => AtEnd(f)
  /\ pc = "join" \/ (pc \in Ended /\ ret.err = NoErr) =>
       st[Tracee] = "reaped" /\ status[Tracee] = Exited(ret.code)
  /\ pc \in Ended /\ ret.err = NoErr => \A f \in Pipes : reader[f] = "done"

LivingInv ==
  /\ TreeInv
  /\ ResumeInv
  /\ \A p \in Procs : Caught(p)
  /\ KillInv

\* What becomes of the processes after the program is not followed.
IInv ==
  /\ TypeOK
  /\ WatchInv
  /\ Prelude
  /\ BlameInv
  /\ OutputInv
  /\ TraceeDoesNotSurvive
  /\ Alive => LivingInv

-----------------------------------------------------------------------------
(* How the program moves.                                                  *)

LEMMA ConfigIsFixed ==
  ASSUME [Next]_vars
  PROVE  cfg' = cfg /\ Permitted' = Permitted /\ \A k : StopError(k)' = StopError(k)
<1>1. cfg' = cfg
  BY DEF Next, Terminated, vars, legacyVars, MainStep, SetupFails, Start, PrepareFails,
      StartWatchers, FirstWait, Continue, WaitTraceeExited, WaitGone, WaitStopped, WaitNobody,
      Wait, Return, Join, Defer, CallerExits, EndProgram, TimeIsUp, UsageStep, BeginUsage,
      FirstSample, Tick, AbortStep, KillTracee, ExitProgram, ReaderStep, ReadLine, ReadEnd,
      ReadTooLong, ReadClosed, ForkWithOutput, CloseOutput, Write, OtherStep
<1> QED
  BY <1>1 DEF Permitted, StopError

LEMMA StopErrorIsForbidden ==
  \A k \in {"FORK", "CLONE", "EXEC"} : k \notin Permitted => StopError(k) # NoErr
BY DEF StopError, Permitted, NoErr

LEMMA EndIsFinal ==
  ASSUME [Next]_vars, ~Alive
  PROVE  UNCHANGED vars
BY DEF Next, Terminated, vars, legacyVars, MainStep, SetupFails, Start, PrepareFails,
    StartWatchers, FirstWait, Continue, WaitTraceeExited, WaitGone, WaitStopped, WaitNobody,
    Wait, Return, Join, Defer, CallerExits, EndProgram, TimeIsUp, UsageStep, BeginUsage,
    FirstSample, Tick, AbortStep, KillTracee, ExitProgram, ReaderStep, ReadLine, ReadEnd,
    ReadTooLong, ReadClosed, ForkWithOutput, CloseOutput, Write, OtherStep, UsageStep, Advance,
    Alive

\* Where RunProcess goes, and what the others leave alone.
LEMMA MainPath ==
  ASSUME [Next]_vars
  PROVE  /\ pc' \in {"start", "started", "wait"} =>
              (pc' = pc \/ Start \/ StartWatchers) /\ waitPid' = waitPid
         /\ pc \in Ended => pc' \in Ended
         /\ pc' = "cont" => \/ pc = "cont" /\ waitPid' = waitPid
                            \/ FirstWait
                            \/ \E p \in Procs : WaitGone(p) \/ WaitStopped(p)
         /\ pc' = "returned" => pc = "returned" \/ SetupFails \/ Defer
         /\ pc' = "exited" => pc = "exited" \/ EndProgram
<1> USE DEF Ended
<1>1. CASE MainStep
  BY <1>1
  DEF MainStep, SetupFails, Start, PrepareFails, StartWatchers, FirstWait, Continue, Wait,
      WaitTraceeExited, WaitGone, WaitStopped, WaitNobody, Return, Join, Defer, CallerExits,
      EndProgram
<1>2. CASE TimeIsUp \/ UsageStep
  BY <1>2 DEF TimeIsUp, UsageStep, BeginUsage, FirstSample, Tick
<1>3. CASE \E g \in Watchers : AbortStep(g)
  BY <1>3 DEF AbortStep, KillTracee, ExitProgram, EndProgram
<1>4. CASE \E f \in Pipes : ReaderStep(f)
  BY <1>4 DEF ReaderStep, ReadLine, ReadEnd, ReadTooLong, ReadClosed, EndProgram
<1>5. CASE \E p \in Procs : ForkWithOutput(p) \/ CloseOutput(p) \/ OtherStep(p)
  BY <1>5 DEF ForkWithOutput, CloseOutput, OtherStep, legacyVars
<1>6. CASE UNCHANGED vars \/ \E p \in Procs, f \in Pipes : Write(p, f)
  BY <1>6 DEF Write, vars, legacyVars
<1> QED
  BY <1>1, <1>2, <1>3, <1>4, <1>5, <1>6 DEF Next, Terminated

LEMMA TreeMoveIsTreeStep ==
  ASSUME KernelTypeOK, TreeInv, TreeMove
  PROVE  TreeStep
<1>1. ASSUME NEW p \in Procs, ForkWithOutput(p) \/ OtherStep(p)
      PROVE  ProcessStep(p)
  BY <1>1 DEF ForkWithOutput, OtherStep, ProcessStep
<1> QED
  BY <1>1, ProcessIsTreeStep, KillAllIsTreeStep DEF TreeMove

LEMMA TreeInvStep ==
  ASSUME IInv, TypeOK', [Next]_vars, Alive'
  PROVE  TreeInv'
<1> USE KernelAssumption DEF KernelAssumption, IInv, TypeOK
<1>1. TreeInv /\ KernelMove
  BY StepIsKernelMove, EndIsFinal DEF LivingInv, Alive, vars, legacyVars
<1>2. CASE UNCHANGED kernelVars
  BY <1>1, <1>2
  DEF kernelVars, treeVars, TreeInv, Threaded, Silenced, AtExitStop, Stopped
<1>3. CASE TreeMove
  BY <1>1, <1>3, TreeMoveIsTreeStep, TreeStepInv
<1>4. CASE \E q \in Procs : Collect(q)
  BY <1>1, <1>4, CollectTree
<1>5. CASE Restart(waitPid)
  BY <1>1, <1>5, RestartTree
<1>6. CASE pc = "start" /\ StartTracee
  BY <1>1, <1>6, StartTraceeTree DEF Prelude
<1>7. ~EndProgram
  BY DEF EndProgram, Alive
<1> QED
  BY <1>1, <1>2, <1>3, <1>4, <1>5, <1>6, <1>7 DEF KernelMove

LEMMA AllowedStays ==
  ASSUME IInv, [Next]_vars, Alive, NEW p \in Procs
  PROVE  Allowed(p) \subseteq Allowed(p)' /\ (Threaded(p) => Threaded(p)')
<1>1. TreeInv /\ KernelTypeOK
  BY DEF IInv, LivingInv, TypeOK
<1>2. leader' = leader \/ LeaderStep
  BY <1>1, StepIsKernelMove, TreeMoveIsTreeStep
  DEF IInv, KernelMove, kernelVars, treeVars, TreeStep, Collect, Restart, StartTracee,
      EndProgram, LetGo
<1>3. Threaded(p) => Threaded(p)'
  BY <1>1, <1>2, ThreadedStays DEF LeaderStep
<1> QED
  BY <1>3, ConfigIsFixed DEF Allowed

-----------------------------------------------------------------------------
(* What is forbidden.                                                      *)

\* Where nothing runs, nothing begins to run but by the tracer.
LEMMA PreludeStep ==
  ASSUME IInv, [Next]_vars
  PROVE  Prelude'
<1> USE KernelAssumption DEF KernelAssumption, IInv, TypeOK, KernelTypeOK
<1> SUFFICES ASSUME pc' \in {"start", "started", "wait"}
             PROVE  /\ \A p \in Procs : /\ did'[p] = {}
                                        /\ st'[p] \notin {"running", "forking", "execing"}
                    /\ waitPid' = Tracee
                    /\ pc' = "start" => st'[Tracee] = "unborn"
  BY DEF Prelude
<1>1. (pc' = pc \/ Start \/ StartWatchers) /\ waitPid' = waitPid
  BY MainPath
<1>2. /\ pc \in {"start", "started", "wait"}
      /\ \A p \in Procs : did[p] = {} /\ st[p] \notin {"running", "forking", "execing"}
      /\ waitPid' = Tracee
  BY <1>1 DEF Start, StartWatchers, Prelude
<1>3. CASE Start
  BY <1>2, <1>3 DEF Start, StartTracee, treeVars
<1>4. CASE StartWatchers
  BY <1>2, <1>4 DEF StartWatchers, kernelVars, treeVars
<1>5. CASE pc' = pc
  <2>1. KernelMove /\ KernelTypeOK /\ TreeInv
    BY <1>2, StepIsKernelMove DEF LivingInv, Alive
  <2>2. CASE UNCHANGED kernelVars
    BY <1>2, <1>5, <2>2 DEF kernelVars, treeVars, Prelude
  <2>3. CASE TreeMove
    <3>1. TreeStep
      BY <2>1, <2>3, TreeMoveIsTreeStep
    <3>2. \A p \in Procs : Same(p) \/ Wakes(p) \/ Dies(p)
      BY <1>2, <3>1 DEF TreeStep, ThreadStep, Reports, Arrives, Begins, GivesWay, Becomes
    <3> QED
      BY <1>2, <1>5, <3>2
      DEF Same, Wakes, Woken, Live, AtExitStop, Stopped, Dies, Prelude
  <2>4. ASSUME NEW q \in Procs, Collect(q)
        PROVE  /\ \A p \in Procs : /\ did'[p] = {}
                                   /\ st'[p] \notin {"running", "forking", "execing"}
               /\ pc' = "start" => st'[Tracee] = "unborn"
    BY <1>2, <1>5, <2>4 DEF Collect, Waitable, treeVars, Prelude
  <2>5. ~(StartTracee /\ pc = "start" /\ pc' = "started") /\ ~Continue /\ ~EndProgram
    BY <1>2, <1>5 DEF Continue, EndProgram
  <2> QED
    BY <1>2, <2>1, <2>2, <2>3, <2>4, <2>5 DEF KernelMove
<1> QED
  BY <1>1, <1>3, <1>4, <1>5

\* A step of the tree.
LEMMA CaughtInTree ==
  ASSUME IInv, TypeOK', [Next]_vars, Alive, TreeMove, NEW q \in Procs
  PROVE  Caught(q)'
<1> USE DEF IInv, LivingInv
<1>1. /\ Permitted' = Permitted /\ \A k : StopError(k)' = StopError(k)
      /\ Allowed(q) \subseteq Allowed(q)'
      /\ pc \in Ended => pc' \in Ended
  BY ConfigIsFixed, AllowedStays, MainPath
<1>2. ThreadStep(q) /\ Caught(q)
  BY TreeMoveIsTreeStep DEF TreeStep, TypeOK
<1>3. CASE did[q] \subseteq Allowed(q) /\ did'[q] = did[q]
  BY <1>1, <1>3 DEF Caught
<1>4. CASE Same(q) /\ ~(did[q] \subseteq Allowed(q))
  BY <1>1, <1>2, <1>4 DEF Same, Caught
<1>5. CASE Wakes(q)
  BY <1>5 DEF Wakes, Woken, Caught
<1>6. CASE Reports(q)
  <2>1. did[q] \subseteq Allowed(q)
    BY <1>2, <1>6 DEF Reports, Caught
  <2>2. CASE st'[q] = "pending" /\ did'[q] = did[q] \cup {"EXEC"} /\ status'[q] = Stop("EXEC")
    <3>1. CASE "EXEC" \in Permitted
      BY <1>1, <2>1, <2>2, <3>1 DEF Allowed, Caught
    <3>2. CASE "EXEC" \notin Permitted
      BY <1>1, <2>2, <3>2, StopErrorIsForbidden DEF Caught, Stop
    <3> QED
      BY <3>1, <3>2
  <2>3. ASSUME NEW k \in {"FORK", "CLONE"},
               st'[q] = "forking" /\ did'[q] = did[q] \cup {k} /\ status'[q] = Stop(k)
        PROVE  Caught(q)'
    <3>1. CASE k \in Permitted
      BY <1>1, <2>1, <2>3, <3>1 DEF Allowed, Caught
    <3>2. CASE k \notin Permitted
      BY <1>1, <2>3, <3>2, StopErrorIsForbidden DEF Caught, Stop
    <3> QED
      BY <3>1, <3>2
  <2> QED
    BY <1>3, <1>6, <2>1, <2>2, <2>3 DEF Reports
<1>7. CASE Arrives(q)
  BY <1>1, <1>2, <1>7 DEF Arrives, Caught
<1>8. CASE Begins(q)
  BY <1>3, <1>8 DEF Begins, TreeInv
<1>9. CASE Dies(q)
  BY <1>9 DEF Dies, AtExit, Caught
<1>10. CASE GivesWay(q)
  BY <1>10 DEF GivesWay, Caught
<1>11. CASE Becomes(q)
  <2>1. PICK r \in Procs : /\ st[r] = "execing" /\ leader[r] = q
                           /\ did'[q] = did[r] \cup {"EXEC"}
    BY <1>11 DEF Becomes
  <2>2. did[r] \subseteq Allowed(r)
    BY <2>1 DEF Caught
  <2>3. did'[q] \subseteq Allowed(q)
    BY <1>11, <2>1, <2>2 DEF Becomes, Allowed
  <2> QED
    BY <1>1, <2>3 DEF Caught
<1> QED
  BY <1>2, <1>3, <1>4, <1>5, <1>6, <1>7, <1>8, <1>9, <1>10, <1>11 DEF ThreadStep, Same

LEMMA CaughtStep ==
  ASSUME IInv, TypeOK', [Next]_vars, Alive, Alive', NEW q \in Procs
  PROVE  Caught(q)'
<1> USE DEF IInv, LivingInv
<1>1. /\ Permitted' = Permitted /\ \A k : StopError(k)' = StopError(k)
      /\ Allowed(q) \subseteq Allowed(q)' /\ Caught(q)
      /\ pc \in Ended => pc' \in Ended
  BY ConfigIsFixed, AllowedStays, MainPath
<1>2. KernelMove
  BY StepIsKernelMove
<1>3. ASSUME Same(q)
      PROVE  Caught(q)'
  BY <1>1, <1>3 DEF Same, Caught
<1>4. CASE UNCHANGED kernelVars
  BY <1>3, <1>4 DEF kernelVars, treeVars, Same
<1>5. CASE pc \in {"start", "started", "wait"} /\ did' = did
  BY <1>1, <1>5 DEF Prelude, Caught
<1>6. CASE pc = "start" /\ StartTracee
  BY <1>5, <1>6 DEF StartTracee, treeVars
<1>7. ASSUME NEW p \in Procs, Collect(p), WaitStopped(p) \/ st[p] = "dead" \/ FirstWait
      PROVE  Caught(q)'
  <2>1. /\ st' = [st EXCEPT ![p] = IF @ = "dead" THEN "reaped" ELSE "held"]
        /\ status' = [status EXCEPT ![p] = IF st[p] = "dead" THEN Final(p) ELSE @]
        /\ did' = did /\ Waitable(p)
    BY <1>7 DEF Collect, treeVars
  <2>2. CASE q # p
    BY <1>3, <2>1, <2>2 DEF Same, TypeOK, KernelTypeOK
  <2>3. CASE q = p /\ st[p] = "dead"
    BY <2>1, <2>3 DEF Caught, TypeOK, KernelTypeOK
  <2>4. CASE FirstWait
    BY <1>5, <2>1, <2>4 DEF FirstWait
  <2>5. CASE q = p /\ st[p] = "pending" /\ WaitStopped(p)
    <3>1. st'[q] = "held" /\ status'[q] = status[q] /\ did'[q] = did[q]
      BY <2>1, <2>5 DEF TypeOK, KernelTypeOK
    <3>2. StopError(status[q].kind) # NoErr => pc' = "defer"
      BY <2>5 DEF WaitStopped, Return
    <3> QED
      BY <1>1, <2>5, <3>1, <3>2 DEF Caught, Ended
  <2> QED
    BY <1>7, <2>1, <2>2, <2>3, <2>4, <2>5 DEF Waitable
<1>8. CASE Continue /\ Restart(waitPid)
  <2>1. /\ st' = [st EXCEPT ![waitPid] = IF AtExitStop(waitPid) THEN "dead" ELSE "running"]
        /\ status' = status /\ did' = did /\ Stopped(waitPid) /\ waitPid \in Procs
        /\ pc = "cont"
    BY <1>8 DEF Restart, Continue, treeVars, TypeOK
  <2>2. CASE q # waitPid
    BY <1>3, <2>1, <2>2 DEF Same, TypeOK, KernelTypeOK
  <2>3. CASE q = waitPid /\ AtExitStop(waitPid)
    BY <2>1, <2>3 DEF Caught, TypeOK, KernelTypeOK
  <2>4. CASE q = waitPid /\ ~AtExitStop(waitPid)
    <3>1. did[q] \subseteq Allowed(q)
      BY <1>1, <2>1, <2>4 DEF Caught, ResumeInv, AtExitStop, Stopped, Ended
    <3> QED
      BY <1>1, <2>1, <3>1 DEF Caught
  <2> QED
    BY <2>2, <2>3, <2>4
<1>9. ~EndProgram
  BY DEF EndProgram, Alive
<1> QED
  BY <1>2, <1>4, <1>6, <1>7, <1>8, <1>9, CaughtInTree DEF KernelMove

LEMMA ResumeStep ==
  ASSUME IInv, TypeOK', [Next]_vars, Alive
  PROVE  ResumeInv'
<1> SUFFICES ASSUME pc' = "cont"
             PROVE  \/ st'[waitPid'] \in {"held", "dying", "dead", "reaped"}
                    \/ /\ st'[waitPid'] = "pending"
                       /\ \/ status'[waitPid'].kind = "EXIT"
                          \/ did'[waitPid'] \subseteq Allowed(waitPid)'
  BY DEF ResumeInv
<1> USE DEF IInv, LivingInv
<1>1. CASE \E p \in Procs : WaitGone(p) \/ WaitStopped(p)
  <2>1. PICK p \in Procs : waitPid' = p /\ Collect(p)
    BY <1>1 DEF WaitGone, WaitStopped, Wait
  <2> QED
    BY <2>1 DEF Collect, TypeOK, KernelTypeOK
<1>2. CASE FirstWait
  <2>1. Collect(Tracee) /\ waitPid' = waitPid /\ pc = "wait"
    BY <1>2 DEF FirstWait
  <2>2. CASE waitPid = Tracee
    BY <2>1, <2>2 DEF Collect, TypeOK, KernelTypeOK
  <2> QED
    BY <2>1, <2>2, KernelAssumption DEF Prelude
<1>3. CASE pc = "cont" /\ waitPid' = waitPid
  <2>1. Allowed(waitPid) \subseteq Allowed(waitPid)' /\ waitPid \in Procs
    BY <1>3, AllowedStays DEF Allowed, TypeOK
  <2>2. UNCHANGED kernelVars \/ TreeStep \/ \E q \in Procs : Collect(q)
    BY <1>3, StepIsKernelMove, TreeMoveIsTreeStep DEF KernelMove, Continue, EndProgram, TypeOK
  <2>3. CASE UNCHANGED kernelVars
    BY <1>3, <2>1, <2>3 DEF kernelVars, treeVars, ResumeInv
  <2>4. CASE \E q \in Procs : Collect(q)
    BY <1>3, <2>1, <2>4 DEF Collect, Waitable, treeVars, TypeOK, KernelTypeOK, ResumeInv
  <2>5. CASE TreeStep
    <3>1. ThreadStep(waitPid)
      BY <2>1, <2>5 DEF TreeStep
    <3>2. CASE Same(waitPid)
      BY <1>3, <2>1, <3>2 DEF Same, ResumeInv
    <3>3. CASE Wakes(waitPid) \/ Dies(waitPid)
      BY <1>3, <3>3 DEF Wakes, Woken, Dies, AtExit
    <3>4. CASE Becomes(waitPid)
      <4>1. PICK r \in Procs : /\ st[r] = "execing" /\ leader[r] = waitPid
                               /\ did'[waitPid] = did[r] \cup {"EXEC"}
        BY <3>4 DEF Becomes
      <4>2. did[r] \subseteq Allowed(r)
        BY <4>1 DEF Caught
      <4>3. did'[waitPid] \subseteq Allowed(waitPid)
        BY <3>4, <4>1, <4>2 DEF Becomes, Allowed
      <4>4. did'[waitPid] \subseteq Allowed(waitPid)'
        BY <2>1, <4>3
      <4> QED
        BY <1>3, <3>4, <4>4 DEF Becomes
    <3> QED
      BY <1>3, <3>1, <3>2, <3>3, <3>4
      DEF ThreadStep, Reports, Arrives, Begins, GivesWay, ResumeInv
  <2> QED
    BY <2>2, <2>3, <2>4, <2>5
<1> QED
  BY <1>1, <1>2, <1>3, MainPath

-----------------------------------------------------------------------------
(* Who ends the program, and over what.                                    *)

\* A reaped tracee stays what it was when it was reaped: none of its threads
\* is left to execute in its place.
LEMMA ReapedStays ==
  ASSUME IInv, [Next]_vars, Alive, st[Tracee] = "reaped"
  PROVE  st'[Tracee] = "reaped" /\ status'[Tracee] = status[Tracee]
<1> USE KernelAssumption DEF KernelAssumption, IInv, LivingInv, TypeOK, KernelTypeOK
<1>1. pc # "start" /\ KernelMove
  BY StepIsKernelMove DEF Prelude
<1>2. CASE UNCHANGED kernelVars
  BY <1>2 DEF kernelVars
<1>3. CASE TreeMove
  <2>1. \A r \in Procs : leader[r] = Tracee => st[r] = "reaped"
    BY DEF TreeInv
  <2>2. ThreadStep(Tracee)
    BY <1>3, TreeMoveIsTreeStep DEF TreeStep
  <2>3. Same(Tracee)
    BY <2>1, <2>2 DEF ThreadStep, Wakes, Live, Reports, Arrives, Begins, Dies, GivesWay, Becomes
  <2> QED
    BY <2>3 DEF Same
<1>4. ASSUME NEW q \in Procs, Collect(q)
      PROVE  st'[Tracee] = "reaped" /\ status'[Tracee] = status[Tracee]
  BY <1>4 DEF Collect, Waitable
<1>5. CASE Restart(waitPid)
  BY <1>5 DEF Restart, Stopped
<1>6. CASE EndProgram
  BY <1>6 DEF EndProgram, LetGo, AtExitStop, Stopped, Woken, Live
<1> QED
  BY <1>1, <1>2, <1>3, <1>4, <1>5, <1>6 DEF KernelMove

LEMMA BlameStep ==
  ASSUME IInv, [Next]_vars
  PROVE  BlameInv'
<1> USE DEF IInv, BlameInv, AbortIsJustified, TypeOK, Watchers
<1>1. cfg' = cfg /\ (st[Tracee] = "reaped" => st'[Tracee] = "reaped")
  BY ConfigIsFixed, ReapedStays, EndIsFinal DEF vars, kernelVars
<1>2. CASE UNCHANGED <<watch, cause, idle>>
  BY <1>1, <1>2
<1>3. CASE StartWatchers
  BY <1>1, <1>3 DEF StartWatchers, Timed, WatchInv, kernelVars
<1>4. CASE TimeIsUp
  BY <1>1, <1>4 DEF TimeIsUp, Blame, NoErr
<1>5. CASE BeginUsage
  BY <1>1, <1>5 DEF BeginUsage, Advance
<1>6. CASE FirstSample
  BY <1>1, <1>6 DEF FirstSample, Advance, Blame, Unreadable, kernelVars, NoErr
<1>7. CASE Tick
  <2>1. watch["usage"] = "watching" /\ cause["usage"] = NoErr /\ UNCHANGED kernelVars
    BY <1>7 DEF Tick
  <2>2. \A g \in Watchers : g # "usage" => watch'[g] = watch[g] /\ cause'[g] = cause[g]
    BY <1>7 DEF Tick, Blame
  <2>3. CASE Unreadable
    BY <1>1, <1>7, <2>1, <2>2, <2>3 DEF Tick, Blame, Unreadable, NoErr, kernelVars
  <2>4. CASE ~Unreadable
    <3>1. \/ watch' = watch /\ cause' = cause
          \/ /\ watch'["usage"] = "kill"
             /\ \/ cause'["usage"] = "store" /\ cfg.StoreFile
                \/ cause'["usage"] = "idle" /\ cfg.IdleLimit > 0 /\ idle' >= cfg.IdleLimit
                \/ cause'["usage"] = "memory" /\ cfg.MemoryLimit > 0
      BY <1>7, <2>4 DEF Tick, Blame, IdleReached, OverMemory, NoErr
    <3> QED
      BY <1>1, <2>1, <2>2, <3>1 DEF NoErr
  <2> QED
    BY <2>3, <2>4
<1>8. ASSUME NEW g \in Watchers, AbortStep(g)
      PROVE  BlameInv'
  BY <1>1, <1>8 DEF AbortStep, KillTracee, ExitProgram, Advance
<1> QED
  BY <1>2, <1>3, <1>4, <1>5, <1>6, <1>7, <1>8
  DEF Next, Terminated, vars, legacyVars, MainStep, SetupFails, Start, PrepareFails, FirstWait,
      Continue, WaitTraceeExited, WaitGone, WaitStopped, WaitNobody, Wait, Return, Join, Defer,
      CallerExits, EndProgram, UsageStep, ReaderStep, ReadLine, ReadEnd, ReadTooLong,
      ReadClosed, ForkWithOutput, CloseOutput, Write, OtherStep

-----------------------------------------------------------------------------
(* The end of the tracee.                                                  *)

\* What is quiet stays so, while the program lives.
LEMMA QuietStays ==
  ASSUME IInv, [Next]_vars, Alive, Alive', Quiet, pc # "start"
  PROVE  Quiet'
<1> USE KernelAssumption DEF KernelAssumption, IInv, LivingInv, TypeOK
<1>1. KernelMove /\ ~EndProgram
  BY StepIsKernelMove DEF EndProgram, Alive
<1>2. CASE st[Tracee] = "unborn"
  <2>1. \A p \in Procs : st[p] = "unborn"
    BY <1>2 DEF TreeInv
  <2>2. CASE UNCHANGED kernelVars
    BY <1>2, <2>2 DEF kernelVars, Quiet
  <2>3. CASE TreeMove
    <3>1. ThreadStep(Tracee)
      BY <2>3, TreeMoveIsTreeStep DEF TreeStep
    <3>2. st'[Tracee] = "unborn"
      BY <2>1, <3>1
      DEF ThreadStep, Same, Wakes, Live, Reports, Arrives, Begins, Dies, GivesWay, Becomes
    <3> QED
      BY <3>2 DEF Quiet
  <2>4. ~(\E q \in Procs : Collect(q)) /\ ~Restart(waitPid)
    BY <2>1 DEF Collect, Waitable, Restart, Stopped
  <2> QED
    BY <1>1, <2>2, <2>3, <2>4 DEF KernelMove
<1>3. CASE SilencedGroup(Tracee)
  <2>1. CASE UNCHANGED kernelVars
    BY <1>3, <2>1
    DEF kernelVars, treeVars, SilencedGroup, Silenced, AtExitStop, Stopped, Quiet
  <2>2. CASE TreeMove
    BY <1>3, <2>2, TreeMoveIsTreeStep, SilencedStays DEF Quiet
  <2>3. CASE \E q \in Procs : Collect(q)
    BY <1>3, <2>3, CollectTree DEF Quiet
  <2>4. CASE Restart(waitPid)
    BY <1>3, <2>4, RestartTree DEF Quiet
  <2> QED
    BY <1>1, <2>1, <2>2, <2>3, <2>4 DEF KernelMove
<1> QED
  BY <1>2, <1>3 DEF Quiet

LEMMA KilledIsQuiet ==
  ASSUME KernelTypeOK, TreeInv, KillAll({Tracee})
  PROVE  Quiet'
<1>1. /\ st' = Kill({Tracee}) /\ status' = status /\ leader' = leader
  BY DEF KillAll, treeVars
<1>2. leader[Tracee] = Tracee /\ Tracee \in Procs
  BY KernelAssumption DEF KernelAssumption, TreeInv
<1>3. CASE st[Tracee] = "unborn"
  <2>1. st'[Tracee] = "unborn"
    BY <1>1, <1>2, <1>3 DEF Kill, Woken, AtExitStop, Stopped, Live
  <2> QED
    BY <2>1 DEF Quiet
<1>4. CASE st[Tracee] # "unborn"
  <2>1. ASSUME NEW p \in Procs, leader'[p] = Tracee
        PROVE  Silenced(p)'
    <3>1. st[p] # "unborn"
      BY <1>1, <1>4, <2>1 DEF TreeInv
    <3>2. st[p] \in States /\ st'[p] = Woken(p) /\ status'[p] = status[p]
      BY <1>1, <2>1 DEF Kill, KernelTypeOK
    <3> QED
      BY <3>1, <3>2, WokenIsSilenced
  <2> QED
    BY <2>1 DEF SilencedGroup, Quiet
<1> QED
  BY <1>3, <1>4

\* The watchers: each ends the program over a cause, after it has killed.
LEMMA WatchersKill ==
  ASSUME IInv, [Next]_vars, Alive, Alive', NEW g \in Watchers
  PROVE  /\ watch'[g] \in {"kill", "exit"} => cause'[g] # NoErr
         /\ watch'[g] = "finished" => cause'[g] = NoErr
         /\ watch'[g] = "exit" => Quiet'
<1> USE DEF IInv, LivingInv, KillInv, BlameInv, TypeOK, Watchers
<1>1. watch[g] = "exit" => Quiet /\ pc # "start" /\ Quiet'
  BY QuietStays DEF WatchInv
<1>2. CASE UNCHANGED <<watch, cause>>
  BY <1>1, <1>2
<1>3. CASE StartWatchers
  BY <1>3 DEF StartWatchers
<1>4. CASE TimeIsUp
  BY <1>1, <1>4 DEF TimeIsUp, Blame, NoErr
<1>5. CASE BeginUsage
  BY <1>1, <1>5 DEF BeginUsage, Advance
<1>6. CASE FirstSample
  BY <1>1, <1>6 DEF FirstSample, Advance, Blame, NoErr
<1>7. CASE Tick
  <2>1. \/ watch' = watch /\ cause' = cause
        \/ \E e : Blame("usage", e) /\ e # NoErr
    BY <1>7 DEF Tick, NoErr
  <2> QED
    BY <1>1, <2>1 DEF Blame
<1>8. ASSUME NEW h \in Watchers, KillTracee(h)
      PROVE  /\ watch'[g] \in {"kill", "exit"} => cause'[g] # NoErr
             /\ watch'[g] = "finished" => cause'[g] = NoErr
             /\ watch'[g] = "exit" => Quiet'
  BY <1>8, KilledIsQuiet DEF KillTracee, Advance
<1>9. ~EndProgram
  BY DEF EndProgram, Alive
<1> QED
  BY <1>2, <1>3, <1>4, <1>5, <1>6, <1>7, <1>8, <1>9
  DEF Next, Terminated, vars, legacyVars, MainStep, SetupFails, Start, PrepareFails, FirstWait,
      Continue, WaitTraceeExited, WaitGone, WaitStopped, WaitNobody, Wait, Return, Join, Defer,
      CallerExits, UsageStep, AbortStep, ExitProgram, ReaderStep, ReadLine, ReadEnd,
      ReadTooLong, ReadClosed, ForkWithOutput, CloseOutput, Write, OtherStep

LEMMA KillStep ==
  ASSUME IInv, [Next]_vars, Alive, Alive'
  PROVE  KillInv'
<1> USE DEF IInv, LivingInv, KillInv, TypeOK
<1>1. ~EndProgram
  BY DEF EndProgram, Alive
<1>2. ret'.err # "abort"
  BY <1>1
  DEF Next, Terminated, vars, legacyVars, MainStep, SetupFails, Start, PrepareFails,
      StartWatchers, FirstWait, Continue, WaitTraceeExited, WaitGone, WaitStopped, WaitNobody,
      Wait, Return, Result, Join, Defer, CallerExits, TimeIsUp, UsageStep, BeginUsage,
      FirstSample, Tick, AbortStep, KillTracee, ExitProgram, ReaderStep, ReadLine, ReadEnd,
      ReadTooLong, ReadClosed, ForkWithOutput, CloseOutput, Write, OtherStep, StopError, NoErr
<1>3. ASSUME pc' = "returned"
      PROVE  Quiet'
  <2>1. CASE pc = "returned"
    BY <2>1, QuietStays
  <2>2. CASE SetupFails
    BY <2>2 DEF SetupFails, kernelVars, Prelude, Quiet
  <2>3. CASE Defer
    BY <2>3, KilledIsQuiet DEF Defer
  <2> QED
    BY <1>3, <2>1, <2>2, <2>3, MainPath
<1> QED
  BY <1>2, <1>3, WatchersKill

\* What was quiet when the tracer let go of it does not run on.
LEMMA LetGoIsQuiet ==
  ASSUME KernelTypeOK, TreeInv, Quiet, EndProgram, NEW p \in Procs, leader'[p] = Tracee
  PROVE  st'[p] \in {"unborn", "dying", "dead", "reaped"}
<1>1. PICK S \in DeathSignals : LetGo(S)
  BY DEF EndProgram
<1>2. /\ leader' = leader
      /\ st'[p] = IF AtExitStop(p) THEN "dead"
                  ELSE IF leader[p] \in S THEN Woken(p)
                  ELSE IF Stopped(p) THEN "running"
                  ELSE st[p]
  BY <1>1 DEF LetGo, treeVars
<1>3. st[p] \in {"unborn", "dying", "dead", "reaped"} \/ AtExitStop(p)
  BY <1>2 DEF Quiet, SilencedGroup, Silenced, TreeInv
<1> QED
  BY <1>2, <1>3 DEF Woken, Stopped, Live

LEMMA SurviveStep ==
  ASSUME IInv, [Next]_vars
  PROVE  TraceeDoesNotSurvive'
<1> USE DEF IInv
<1>1. CASE ~Alive
  BY <1>1, EndIsFinal
  DEF vars, legacyVars, kernelVars, treeVars, TraceeDoesNotSurvive, EndedByReader
<1>2. CASE Alive /\ pc' # "exited"
  BY <1>2 DEF TraceeDoesNotSurvive
<1>3. CASE Alive /\ pc' = "exited"
  <2>1. KernelTypeOK /\ TreeInv /\ KillInv /\ EndProgram
    BY <1>3, MainPath DEF LivingInv, TypeOK, Alive
  <2>2. CASE Quiet
    BY <2>1, <2>2, LetGoIsQuiet DEF TraceeDoesNotSurvive
  <2>3. CASE ~Quiet
    <3>1. pc # "returned" /\ \A g \in Watchers : watch[g] # "exit"
      BY <2>1, <2>3 DEF KillInv
    <3>2. \E f \in Pipes : ReadTooLong(f) \/ ReadClosed(f)
      BY <1>3, <3>1
      DEF Alive, Next, Terminated, vars, legacyVars, MainStep, SetupFails, Start, PrepareFails,
          StartWatchers, FirstWait, Continue, WaitTraceeExited, WaitGone, WaitStopped,
          WaitNobody, Wait, Return, Join, Defer, CallerExits, TimeIsUp, UsageStep, BeginUsage,
          FirstSample, Tick, AbortStep, KillTracee, ExitProgram, Advance, ReaderStep, ReadLine,
          ReadEnd, ForkWithOutput, CloseOutput, Write, OtherStep
    <3>3. EndedByReader'
      BY <2>1, <3>2 DEF ReadTooLong, ReadClosed, Result, KillInv, EndedByReader
    <3> QED
      BY <3>3 DEF TraceeDoesNotSurvive
  <2> QED
    BY <2>2, <2>3
<1> QED
  BY <1>1, <1>2, <1>3

-----------------------------------------------------------------------------
(* The output, when RunProcess returns.                                    *)

Gone == {"unborn", "dead", "reaped"}

\* A thread that is gone comes back only where it is started or forked, or
\* where another thread executes in its place.
LEMMA GoneStays ==
  ASSUME IInv, [Next]_vars, Alive, st[Tracee] # "unborn",
         ~\E q \in Procs : ForkWithOutput(q),
         NEW p \in Procs, st[p] \in Gone
  PROVE  st'[p] \in Gone \/ Becomes(p)
<1> USE KernelAssumption
    DEF KernelAssumption, IInv, LivingInv, TypeOK, KernelTypeOK, Gone
<1>1. KernelMove /\ pc # "start"
  BY StepIsKernelMove DEF Prelude
<1>2. CASE UNCHANGED kernelVars
  BY <1>2 DEF kernelVars
<1>3. ASSUME NEW q \in Procs, Collect(q)
      PROVE  st'[p] \in Gone
  BY <1>3 DEF Collect, Waitable
<1>4. CASE TreeMove
  <2>1. ThreadStep(p)
    BY <1>4, TreeMoveIsTreeStep DEF TreeStep
  <2>2. ~Begins(p)
    <3>1. CASE KillAll({Tracee})
      BY <3>1, KillAllEffect DEF Begins, Same, Wakes, Live
    <3>2. ASSUME NEW q \in Procs, OtherStep(q)
          PROVE  ~Begins(p)
      <4> SUFFICES ASSUME st[p] = "unborn" PROVE st'[p] # "pending"
        BY DEF Begins
      <4>1. CASE Interrupt(q) \/ Exec(q) \/ Exit(q) \/ ForkStop(q) \/ UseCpu(q) \/ Die(q)
        BY <4>1 DEF Interrupt, Exec, Exit, StopAt, ForkStop, UseCpu, Die
      <4>2. CASE BeginExec(q) \/ ExitGroup(q)
        BY <4>2 DEF BeginExec, ExitGroup, Woken, AtExitStop, Stopped, Live
      <4>3. CASE EndExec(q)
        <5>1. leader[q] # p /\ q # p
          BY <4>3 DEF EndExec, TreeInv
        <5> QED
          BY <4>3, <5>1 DEF EndExec
      <4>4. CASE ExternalKill(q)
        BY <4>4, KillAllEffect DEF ExternalKill, Same, Wakes, Live
      <4> QED
        BY <3>2, <4>1, <4>2, <4>3, <4>4 DEF OtherStep
    <3> QED
      BY <1>4, <3>1, <3>2 DEF TreeMove
  <2> QED
    BY <2>1, <2>2
    DEF ThreadStep, Same, Wakes, Live, Reports, Arrives, Dies, GivesWay
<1>5. CASE Restart(waitPid)
  BY <1>5 DEF Restart, Stopped
<1>6. CASE EndProgram
  BY <1>6 DEF EndProgram, LetGo, AtExitStop, Stopped, Woken, Live
<1> QED
  BY <1>1, <1>2, <1>3, <1>4, <1>5, <1>6 DEF KernelMove

\* Who is born stays so.
LEMMA TraceeIsBorn ==
  ASSUME IInv, [Next]_vars, Alive, st[Tracee] # "unborn"
  PROVE  st'[Tracee] # "unborn"
<1> USE KernelAssumption
    DEF KernelAssumption, IInv, LivingInv, TypeOK, KernelTypeOK
<1>1. KernelMove
  BY StepIsKernelMove
<1>2. CASE UNCHANGED kernelVars
  BY <1>2 DEF kernelVars
<1>3. CASE TreeMove
  <2>1. ThreadStep(Tracee)
    BY <1>3, TreeMoveIsTreeStep DEF TreeStep
  <2> QED
    BY <2>1 DEF ThreadStep, Same, Wakes, Woken, Reports, Arrives, Begins, Dies, GivesWay, Becomes
<1>4. ASSUME NEW q \in Procs, Collect(q)
      PROVE  st'[Tracee] # "unborn"
  BY <1>4 DEF Collect
<1>5. CASE Restart(waitPid) \/ StartTracee
  BY <1>5 DEF Restart, StartTracee
<1>6. CASE EndProgram
  BY <1>6 DEF EndProgram, LetGo, Woken
<1> QED
  BY <1>1, <1>2, <1>3, <1>4, <1>5, <1>6 DEF KernelMove

LEMMA NobodyHolds ==
  ASSUME IInv, [Next]_vars, Alive, st[Tracee] # "unborn", \A p \in Procs : ~Holds(p)
  PROVE  \A p \in Procs : ~Holds(p)'
<1> USE DEF IInv, LivingInv, TypeOK, KernelTypeOK
<1>1. ASSUME NEW q \in Procs, ForkWithOutput(q), NEW p \in Procs
      PROVE  ~Holds(p)'
  <2>1. PICK c \in Procs :
          Fork(q, c) /\ open' = [open EXCEPT ![c] = leader'[c] = c /\ open[leader[q]]]
    BY <1>1 DEF ForkWithOutput
  <2>2. PICK l \in {c, leader[q]} : leader' = [leader EXCEPT ![c] = l]
    BY <2>1 DEF Fork
  <2>3. /\ st[q] = "running" /\ st[c] = "unborn" /\ q # c
        /\ st' = [st EXCEPT ![q] = "forking", ![c] = "pending"]
    BY <2>1 DEF Fork
  <2>4. ~open[leader[q]] /\ leader[q] # c
    <3>1. ~open[leader[q]]
      BY <2>3 DEF Holds
    <3>2. leader[q] # q => st[leader[q]] # "unborn"
      BY DEF TreeInv
    <3> QED
      BY <2>3, <3>1, <3>2
  <2>5. ~open'[c]
    BY <2>1, <2>4
  <2>6. \A r \in Procs : r # c => open'[r] = open[r] /\ leader'[r] = leader[r]
    BY <2>1, <2>2
  <2>7. CASE p = c
    <3>1. leader'[c] = c \/ leader'[c] = leader[q]
      BY <2>2
    <3>2. ~open'[leader'[c]]
      BY <2>4, <2>5, <2>6, <3>1
    <3> QED
      BY <2>7, <3>2 DEF Holds
  <2>8. CASE p # c
    <3>1. CASE leader[p] = c
      BY <2>3, <2>5, <2>6, <2>8, <3>1 DEF Holds
    <3>2. CASE leader[p] # c
      <4>1. open'[leader'[p]] = open[leader[p]]
        BY <2>6, <2>8, <3>2
      <4>2. CASE p = q
        BY <2>4, <4>1, <4>2 DEF Holds
      <4>3. CASE p # q
        <5>1. st'[p] = st[p]
          BY <2>3, <2>8, <4>3
        <5> QED
          BY <4>1, <5>1 DEF Holds
      <4> QED
        BY <4>2, <4>3
    <3> QED
      BY <3>1, <3>2
  <2> QED
    BY <2>7, <2>8
<1>2. ASSUME ~\E q \in Procs : ForkWithOutput(q), NEW p \in Procs
      PROVE  ~Holds(p)'
  <2>1. \A r \in Procs : open'[r] => open[r]
    BY <1>2
    DEF Next, Terminated, vars, legacyVars, MainStep, SetupFails, Start, PrepareFails,
        StartWatchers, FirstWait, Continue, WaitTraceeExited, WaitGone, WaitStopped, WaitNobody,
        Wait, Join, Defer, CallerExits, TimeIsUp, UsageStep, BeginUsage, FirstSample, Tick,
        AbortStep, KillTracee, ExitProgram, ReaderStep, ReadLine, ReadEnd, ReadTooLong,
        ReadClosed, CloseOutput, Write, OtherStep
  <2>2. leader'[p] = leader[p]
    <3>1. CASE TreeMove
      BY <1>2, <3>1
      DEF TreeMove, OtherStep, Interrupt, Exec, BeginExec, EndExec, Exit, ExitGroup, StopAt,
          ForkStop, UseCpu, Die, ExternalKill, KillAll, treeVars
    <3>2. CASE ~TreeMove
      BY <3>2, StepIsKernelMove
      DEF KernelMove, kernelVars, treeVars, Collect, Restart, StartTracee, EndProgram, LetGo
    <3> QED
      BY <3>1, <3>2
  <2>3. CASE ~open[leader[p]]
    BY <2>1, <2>2, <2>3 DEF Holds
  <2>4. CASE open[leader[p]]
    <3>1. st[p] \in Gone
      BY <2>4 DEF Holds, Gone
    <3>2. ~Becomes(p)
      <4>1. SUFFICES ASSUME NEW r \in Procs, st[r] = "execing", leader[r] = p, leader[p] = p
                     PROVE  FALSE
        BY DEF Becomes
      <4>2. Holds(r)
        BY <2>4, <4>1 DEF Holds
      <4> QED
        BY <4>2
    <3>3. st'[p] \in Gone
      BY <1>2, <3>1, <3>2, GoneStays
    <3> QED
      BY <3>3 DEF Holds, Gone
  <2> QED
    BY <2>3, <2>4
<1> QED
  BY <1>1, <1>2

\* A reader that is done has nothing left to read, and stays so.
LEMMA DoneStays ==
  ASSUME IInv, [Next]_vars, Alive, NEW f \in Pipes
  PROVE  /\ reader[f] = "done" => reader'[f] = "done"
         /\ reader'[f] = "done" => AtEnd(f)'
<1> USE DEF IInv, TypeOK
<1>1. AtEnd(f) => AtEnd(f)'
  <2> SUFFICES ASSUME AtEnd(f) PROVE AtEnd(f)'
    OBVIOUS
  <2>1. st'[Tracee] # "unborn" /\ \A p \in Procs : ~Holds(p)'
    BY NobodyHolds, TraceeIsBorn DEF AtEnd
  <2>2. CASE \E p \in Procs, g \in Pipes : Write(p, g)
    BY <2>2 DEF Write, AtEnd, Holds
  <2>3. CASE \E g \in Pipes : ReadLine(g)
    BY <2>1, <2>3 DEF ReadLine, AtEnd
  <2>4. CASE pipe' = pipe
    BY <2>1, <2>4 DEF AtEnd
  <2> QED
    BY <2>2, <2>3, <2>4
    DEF Next, Terminated, vars, legacyVars, MainStep, SetupFails, Start, PrepareFails,
        StartWatchers, FirstWait, Continue, WaitTraceeExited, WaitGone, WaitStopped, WaitNobody,
        Wait, Join, Defer, CallerExits, TimeIsUp, UsageStep, BeginUsage, FirstSample, Tick,
        AbortStep, KillTracee, ExitProgram, ReaderStep, ReadEnd, ReadTooLong, ReadClosed,
        ForkWithOutput, CloseOutput, OtherStep
<1>2. \/ reader' = reader
      \/ \E g \in Pipes : AtEnd(g) /\ reader' = [reader EXCEPT ![g] = "done"]
  BY DEF Next, Terminated, vars, legacyVars, MainStep, SetupFails, Start, PrepareFails,
      StartWatchers, FirstWait, Continue, WaitTraceeExited, WaitGone, WaitStopped, WaitNobody,
      Wait, Join, Defer, CallerExits, TimeIsUp, UsageStep, BeginUsage, FirstSample, Tick,
      AbortStep, KillTracee, ExitProgram, ReaderStep, ReadLine, ReadEnd, ReadTooLong, ReadClosed,
      ForkWithOutput, CloseOutput, Write, OtherStep
<1>3. /\ reader[f] = "done" => reader'[f] = "done"
      /\ reader'[f] = "done" => reader[f] = "done" \/ AtEnd(f)
  BY <1>2
<1> QED
  BY <1>1, <1>3 DEF OutputInv

\* How RunProcess comes to its end without an error.
LEMMA EndWithoutError ==
  ASSUME TypeOK, [Next]_vars
  PROVE  /\ pc' = "join" => WaitTraceeExited \/ (pc = "join" /\ ret' = ret)
         /\ pc' \in Ended /\ ret'.err = NoErr =>
              \/ pc = "join" /\ ret' = ret /\ OutputCopied
              \/ pc \in Ended /\ ret' = ret
<1> USE DEF Result, NoErr, Errors, Ended
<1>1. CASE MainStep
  BY <1>1 DEF MainStep, SetupFails, Start, PrepareFails, StartWatchers, FirstWait, Continue,
      WaitTraceeExited, WaitGone, WaitStopped, WaitNobody, Return, Join, Defer, CallerExits,
      EndProgram, TypeOK
<1>2. CASE \E g \in Watchers : AbortStep(g)
  BY <1>2 DEF AbortStep, KillTracee, ExitProgram, EndProgram
<1>3. CASE \E f \in Pipes : ReaderStep(f)
  BY <1>3 DEF ReaderStep, ReadLine, ReadEnd, ReadTooLong, ReadClosed, EndProgram
<1>4. CASE UNCHANGED <<pc, ret>>
  BY <1>4
<1> QED
  BY <1>1, <1>2, <1>3, <1>4
  DEF Next, Terminated, vars, legacyVars, TimeIsUp, UsageStep, BeginUsage, FirstSample, Tick,
      ForkWithOutput, CloseOutput, Write, OtherStep

LEMMA OutputStep ==
  ASSUME IInv, [Next]_vars, Alive
  PROVE  OutputInv'
<1> USE DEF IInv
<1>1. \A f \in Pipes : reader'[f] = "done" => AtEnd(f)'
  BY DoneStays
<1>2. ASSUME WaitTraceeExited
      PROVE  st'[Tracee] = "reaped" /\ status'[Tracee] = Exited(ret'.code)
  <2>1. Tracee \in Procs /\ KernelTypeOK
    BY KernelAssumption DEF KernelAssumption, TypeOK
  <2>2. Final(Tracee) \in Statuses /\ Final(Tracee).kind = "EXITED"
    BY <1>2, <2>1, FinalType DEF WaitTraceeExited
  <2>3. Final(Tracee) = Exited(Final(Tracee).code)
    BY <2>2 DEF Statuses, Exited
  <2>4. /\ st' = [st EXCEPT ![Tracee] = IF @ = "dead" THEN "reaped" ELSE "held"]
        /\ status' = [status EXCEPT ![Tracee] = IF st[Tracee] = "dead" THEN Final(Tracee) ELSE @]
        /\ st[Tracee] = "dead" /\ ret'.code = Final(Tracee).code
    BY <1>2 DEF WaitTraceeExited, Wait, Collect, Result
  <2> QED
    BY <2>1, <2>3, <2>4 DEF KernelTypeOK
<1>3. ASSUME pc = "join" \/ (pc \in Ended /\ ret.err = NoErr), ret' = ret
      PROVE  st'[Tracee] = "reaped" /\ status'[Tracee] = Exited(ret'.code)
  BY <1>3, ReapedStays DEF OutputInv
<1>4. pc' = "join" \/ (pc' \in Ended /\ ret'.err = NoErr) =>
        st'[Tracee] = "reaped" /\ status'[Tracee] = Exited(ret'.code)
  BY <1>2, <1>3, EndWithoutError
<1>5. pc' \in Ended /\ ret'.err = NoErr => \A f \in Pipes : reader'[f] = "done"
  BY EndWithoutError, DoneStays DEF OutputInv, OutputCopied
<1> QED
  BY <1>1, <1>4, <1>5 DEF OutputInv

-----------------------------------------------------------------------------
(* The theorems.                                                           *)

LEMMA InvInit == Init => IInv
<1> SUFFICES ASSUME Init PROVE IInv
  OBVIOUS
<1>1. TypeOK /\ WatchInv
  BY TypeInit
<1>2. TreeInv
  BY KernelInitTree DEF Init
<1>3. /\ pc = "start" /\ waitPid = Tracee /\ ret = Result(0, NoErr)
      /\ \A p \in Procs : did[p] = {} /\ st[p] = "unborn"
      /\ \A g \in Watchers : watch[g] = "off" /\ cause[g] = NoErr
      /\ \A f \in Pipes : reader[f] = "reading"
  BY DEF Init, KernelInit
<1>4. Prelude /\ ResumeInv /\ OutputInv /\ TraceeDoesNotSurvive
  BY <1>3, KernelAssumption
  DEF KernelAssumption, Prelude, ResumeInv, OutputInv, Ended, TraceeDoesNotSurvive
<1>5. (\A p \in Procs : Caught(p)) /\ KillInv
  BY <1>3 DEF Caught, KillInv, Result, NoErr
<1>6. BlameInv
  BY <1>3 DEF BlameInv, AbortIsJustified, Watchers, NoErr
<1> QED
  BY <1>1, <1>2, <1>4, <1>5, <1>6 DEF IInv, LivingInv

LEMMA InvStep == IInv /\ [Next]_vars => IInv'
<1> SUFFICES ASSUME IInv, [Next]_vars PROVE IInv'
  OBVIOUS
<1>1. TypeOK' /\ WatchInv'
  BY TypeStep DEF IInv
<1>2. Prelude' /\ BlameInv' /\ TraceeDoesNotSurvive'
  BY PreludeStep, BlameStep, SurviveStep
<1>3. OutputInv'
  <2>1. CASE ~Alive
    <3>1. UNCHANGED vars
      BY <2>1, EndIsFinal
    <3> QED
      BY <3>1 DEF IInv, OutputInv, AtEnd, Holds, vars, legacyVars, kernelVars, treeVars
  <2> QED
    BY <2>1, OutputStep
<1>4. ASSUME Alive'
      PROVE  LivingInv'
  <2>1. Alive
    BY <1>4, EndIsFinal DEF Alive, vars, legacyVars
  <2>2. TreeInv' /\ ResumeInv' /\ KillInv'
    BY <1>1, <1>4, <2>1, TreeInvStep, ResumeStep, KillStep
  <2>3. (\A p \in Procs : Caught(p))'
    BY <1>1, <1>4, <2>1, CaughtStep
  <2> QED
    BY <2>2, <2>3 DEF LivingInv
<1> QED
  BY <1>1, <1>2, <1>3, <1>4 DEF IInv

THEOREM Invariance == Spec => []IInv
BY InvInit, InvStep, PTL DEF Spec

\* While the program lives, a thread that did something forbidden never
\* executes again (exec.go:187-188, 226-247), but for an execve that replaces
\* the stop the loop holds: however many threads and processes there are, and
\* in whatever order their stops and their children's are collected.
THEOREM ForbiddenNeverRuns == Spec => []ForbiddenIsTheEnd
<1>1. IInv => ForbiddenIsTheEnd
  BY DEF IInv, LivingInv, Caught, Allowed, ForbiddenIsTheEnd
<1> QED
  BY <1>1, Invariance, PTL

\* A returning RunProcess and a watcher that ends the program leave no thread
\* of the tracee behind, though it gave up its parent-death signal: the kill of
\* the defer (exec.go:115) and of checkError (exec.go:376-404) has reached all
\* of them, and neither the loop nor an execve has one of them run again.
THEOREM TraceeNeverSurvives == Spec => []TraceeDoesNotSurvive
<1>1. IInv => TraceeDoesNotSurvive
  BY DEF IInv
<1> QED
  BY <1>1, Invariance, PTL

\* A goroutine that ends the program has a reason that still holds when it does
\* (exec.go:304-384), however the ticks fall between the tracee's death and the
\* loop's collecting it.
THEOREM AbortIsAlwaysJustified == Spec => []AbortIsJustified
<1>1. IInv => AbortIsJustified
  BY DEF IInv, BlameInv
<1> QED
  BY <1>1, Invariance, PTL

\* A run that returns without error returns the code of the tracee's own exit
\* and has copied everything that any process wrote into its pipes
\* (exec.go:202-209, 297-301), however many descendants inherited them.
THEOREM ReturnIsAlwaysComplete == Spec => []ReturnIsComplete
<1>1. IInv => ReturnIsComplete
  <2> SUFFICES ASSUME OutputInv, ret.err = NoErr, pc \in Ended
               PROVE  /\ status[Tracee] = Exited(ret.code)
                      /\ \A f \in Pipes : pipe[f] = <<>>
                      /\ \A p \in Procs : ~(open[leader[p]] /\ st[p] = "running")
    BY DEF IInv, ReturnIsComplete, Ended
  <2>1. \A f \in Pipes : AtEnd(f)
    BY DEF OutputInv
  <2>2. \A p \in Procs : ~Holds(p)
    BY <2>1, LegacyAssumption DEF LegacyAssumption, AtEnd
  <2> QED
    BY <2>1, <2>2 DEF OutputInv, AtEnd, Holds
<1> QED
  BY <1>1, Invariance, PTL
=============================================================================

---------------------------- MODULE TracerProofs ----------------------------
(***************************************************************************)
(* Theorems about module Tracer, for every set of processes, every set of  *)
(* configurations and all bounds: type correctness and the safety of a run.*)
(* One inductive invariant, IInv, carries them all.                        *)
(***************************************************************************)
EXTENDS Tracer, KernelProofs

\* The goroutines between their wg.Add and their wg.Done.
Counted == {"waiting", "memory", "kill", "killgroup", "report"}
Count(g) == IF go[g] \in Counted THEN 1 ELSE 0

\* The WaitGroup counts exactly the goroutines that have begun and not ended.
WgCounts ==
  /\ wg = Count("timer") + Count("limiter")
  /\ pc = "launch" => \A g \in Goroutines : go[g] = "off"

Ended == {"verdict", "close", "join", "returned", "exited"}
Decided == {"close", "join", "returned", "exited"}

\* Until the first restart nothing runs.
Prelude ==
  pc \in {"launch", "wait", "options"} =>
    /\ \A p \in Procs : did[p] = {} /\ st[p] \notin {"running", "forking", "execing"}
    /\ pc = "launch" => st[Tracee] = "unborn"
    /\ pc = "wait" => st[Tracee] \notin {"unborn", "reaped"}

\* What p may have done and still run: the exception is an execve that takes
\* the place of the stop p is restarted from.
Allowed(p) == Permitted \cup (IF Threaded(p) THEN {"EXEC"} ELSE {})

\* A thread that did something forbidden is on its way to a stop the loop does
\* not tolerate, has reached it, or has been told to end.
Caught(p) ==
  ~(did[p] \subseteq Allowed(p)) =>
    \/ st[p] = "forking" /\ StopError(status[p].kind) # NoErr
    \/ st[p] = "pending" /\ (status[p].kind = "EXIT" \/ StopError(status[p].kind) # NoErr)
    \/ st[p] = "held" /\ (status[p].kind = "EXIT" \/ pc \in Ended)
    \/ st[p] \in {"dying", "dead", "reaped"}

\* What the loop is about to restart is where it left it, or is ending, or has
\* executed a new image meanwhile.
ResumeInv ==
  pc = "resume" =>
    \/ st[current] \in {"held", "dying", "dead", "reaped"}
    \/ /\ st[current] = "pending"
       /\ \/ status[current].kind = "EXIT"
          \/ did[current] \subseteq Allowed(current)

\* A single thread that did something forbidden does not end by itself.
EndIsForced(p) ==
  ~Threaded(p) /\ ~(did[p] \subseteq Permitted) =>
    /\ fate[p] \in {NoFate, Signaled}
    /\ status[p].kind # "EXITED"
    /\ st[p] \in {"dying", "dead"} \/ status[p].kind = "EXIT" => fate[p] = Signaled

\* What the tracer has in hand when it holds no error.
Genuine ==
  /\ st[Tracee] = "reaped"
  /\ status[Tracee].kind = "EXITED"
  /\ fate[Tracee] # Signaled
  /\ did[Tracee] \subseteq Permitted \/ Threaded(Tracee)
  /\ cfg.MemoryLimit >= 0 => rss[Tracee] < cfg.MemoryLimit
  /\ cfg.CPUTimeLimit >= 0 => cpu[Tracee] < cfg.CPUTimeLimit

VerdictIsGenuine ==
  /\ pc = "verdict" =>
       IF ret.err = NoErr THEN Genuine /\ ret.code = status[Tracee].code
       ELSE ret.code = -1
  /\ pc \in Decided => /\ ret.code \in -1..255
                       /\ ret.err = NoErr /\ ret.code >= 0 =>
                            /\ Genuine
                            /\ ret.code = 0 /\ cfg.PropagateExitCode => status[Tracee].code = 0
                       /\ ret.err # NoErr => ret.code # 0

TraceeIsThere ==
  pc \in {"options", "loop", "resume"} => st[Tracee] \notin {"unborn", "reaped"}

IInv ==
  /\ TypeOK
  /\ WgCounts
  /\ TreeInv
  /\ Prelude
  /\ ResumeInv
  /\ \A p \in Procs : Caught(p)
  /\ \A p \in Procs : EndIsForced(p)
  /\ VerdictIsGenuine
  /\ TraceeIsThere

-----------------------------------------------------------------------------
(* Types.                                                                  *)

LEMMA LimitErrorType ==
  \A p : LimitError(p) \in {NoErr, "MemoryLimit", "CPUTimeLimit"}
BY DEF LimitError

LEMMA StopErrorType ==
  \A k : StopError(k) \in {NoErr} \cup PlainErrors
BY DEF StopError, PlainErrors

LEMMA TracerErrorCodeType ==
  \A e \in TracerErrors : TracerErrorCode(e) \in 1..4
BY DEF TracerErrorCode

LEMMA TypeInit == Init => TypeOK /\ WgCounts
<1> SUFFICES ASSUME Init PROVE TypeOK /\ WgCounts
  OBVIOUS
<1>1. KernelTypeOK
  BY KernelInitType DEF Init
<1>2. RunTypeOK
  <2>1. ret \in [code : Int, err : {NoErr} \cup TracerErrors \cup PlainErrors]
    BY DEF Init, Result
  <2>2. stopc \in BOOLEAN
    BY DEF Init
  <2>3. go \in [Goroutines -> {"off"}] /\ reason \in [Goroutines -> {NoErr}]
    BY DEF Init
  <2> QED
    BY <2>1, <2>2, <2>3, KernelAssumption DEF KernelAssumption, Init, RunTypeOK
<1>3. WgCounts
  BY DEF Init, WgCounts, Count, Counted, Goroutines
<1> QED
  BY <1>1, <1>2, <1>3 DEF TypeOK

\* The steps of Run and of its loop leave the goroutines and their count alone,
\* except Launch, which starts them uncounted.
LEMMA MainStepType ==
  ASSUME TypeOK, WgCounts, MainStep
  PROVE  TypeOK' /\ WgCounts'
<1> USE DEF TypeOK
<1>1. CASE LaunchFails
  <2>1. KernelTypeOK'
    BY <1>1, StartTraceeType DEF LaunchFails, KernelTypeOK, kernelVars, treeVars
  <2> QED
    BY <1>1, <2>1
    DEF LaunchFails, ReturnEarly, Result, RunTypeOK, PlainErrors, WgCounts, Count
<1>2. CASE Launch
  <2>1. KernelTypeOK'
    BY <1>2, StartTraceeType DEF Launch
  <2>2. go' \in [Goroutines -> {"off", "ready"}]
    BY <1>2 DEF Launch
  <2>3. wg = 0
    BY <1>2 DEF Launch, WgCounts, Count, Counted, Goroutines
  <2> QED
    BY <1>2, <2>1, <2>2, <2>3 DEF Launch, RunTypeOK, WgCounts, Count, Counted, Goroutines
<1>3. CASE FirstWait
  BY <1>3, KernelAssumption, CollectType
  DEF FirstWait, ReturnEarly, Result, RunTypeOK, PlainErrors, WgCounts, Count, NoErr
<1>4. CASE BeginTrace
  BY <1>4, KernelAssumption, RestartType DEF BeginTrace, RunTypeOK, WgCounts, Count
<1>5. CASE Resume
  BY <1>5, RestartType DEF Resume, RunTypeOK, KernelTypeOK, WgCounts, Count
<1>6. CASE PtraceFails
  BY <1>6 DEF PtraceFails, TraceReturns, Result, RunTypeOK, KernelTypeOK, kernelVars, treeVars,
              PlainErrors, WgCounts, Count
<1>7. CASE OutOfIterations
  BY <1>7 DEF OutOfIterations, TraceReturns, Result, RunTypeOK, KernelTypeOK, kernelVars, treeVars,
              PlainErrors, WgCounts, Count
<1>8. CASE Verdict
  <2>1. \A e \in {NoErr} \cup TracerErrors \cup PlainErrors : VerdictCode(ret.code, e) \in Int
    BY TracerErrorCodeType DEF VerdictCode, RunTypeOK
  <2>2. ret' \in [code : Int, err : {NoErr} \cup TracerErrors \cup PlainErrors]
    BY <1>8, <2>1 DEF Verdict, Result, RunTypeOK
  <2> QED
    BY <1>8, <2>2 DEF Verdict, RunTypeOK, KernelTypeOK, kernelVars, treeVars, WgCounts, Count
<1>9. CASE CloseStopc
  BY <1>9 DEF CloseStopc, RunTypeOK, KernelTypeOK, kernelVars, treeVars, WgCounts, Count
<1>10. CASE Join
  BY <1>10 DEF Join, RunTypeOK, KernelTypeOK, kernelVars, treeVars, WgCounts, Count
<1>11. CASE ExitTracer
  BY <1>11 DEF ExitTracer, RunTypeOK, KernelTypeOK, treeVars, States, WgCounts, Count
<1> QED
  BY <1>1, <1>2, <1>3, <1>4, <1>5, <1>6, <1>7, <1>8, <1>9, <1>10, <1>11 DEF MainStep

LEMMA TraceLoopType ==
  ASSUME TypeOK, WgCounts, NEW p \in Procs, TraceLoop(p)
  PROVE  TypeOK' /\ WgCounts'
<1> USE DEF TypeOK
<1>1. Wait4(p)
  BY DEF TraceLoop, WaitOverLimit, WaitGone, WaitStopped
<1>2. KernelTypeOK'
  BY <1>1, CollectType DEF Wait4
<1>3. iterations' \in Nat
  BY <1>1 DEF Wait4, RunTypeOK
<1>4. WgCounts'
  BY DEF TraceLoop, WaitOverLimit, WaitGone, WaitStopped, Wait4, TraceReturns, Continue,
         WgCounts, Count
<1>5. CASE WaitOverLimit(p)
  BY <1>2, <1>3, <1>4, <1>5, LimitErrorType
  DEF WaitOverLimit, Wait4, TraceReturns, Result, RunTypeOK, TracerErrors
<1>6. CASE WaitGone(p)
  <2>3. Final(p).code \in Int
    BY FinalType
  <2>4. ret' \in [code : Int, err : {NoErr} \cup TracerErrors \cup PlainErrors]
    BY <1>6, <2>3 DEF WaitGone, TraceReturns, Result, Continue, RunTypeOK, PlainErrors
  <2> QED
    BY <1>2, <1>3, <1>4, <1>6, <2>4
    DEF WaitGone, Wait4, TraceReturns, Continue, RunTypeOK
<1>7. CASE WaitStopped(p)
  BY <1>2, <1>3, <1>4, <1>7, StopErrorType
  DEF WaitStopped, Wait4, TraceReturns, Result, RunTypeOK
<1> QED
  BY <1>5, <1>6, <1>7 DEF TraceLoop

LEMMA GoStepType ==
  ASSUME TypeOK, WgCounts, NEW g \in Goroutines, GoStep(g)
  PROVE  TypeOK' /\ WgCounts'
<1> USE DEF TypeOK, Goroutines
<1>1. CASE Begin(g)
  BY <1>1 DEF Begin, Move, Add, RunTypeOK, KernelTypeOK, kernelVars, treeVars, WgCounts, Count, Counted
<1>2. CASE Quit(g)
  BY <1>2 DEF Quit, Move, Done, RunTypeOK, KernelTypeOK, kernelVars, treeVars, WgCounts, Count, Counted
<1>3. CASE KillProcess(g)
  BY <1>3, KillAllType DEF KillProcess, Move, RunTypeOK, WgCounts, Count, Counted
<1>4. CASE KillGroup(g)
  BY <1>4, KillAllType DEF KillGroup, Move, RunTypeOK, WgCounts, Count, Counted
<1>5. CASE Report(g)
  BY <1>5 DEF Report, Move, Done, RunTypeOK, KernelTypeOK, kernelVars, treeVars, WgCounts, Count, Counted
<1> QED
  BY <1>1, <1>2, <1>3, <1>4, <1>5 DEF GoStep

LEMMA LimitStepType ==
  ASSUME TypeOK, WgCounts, LimitStep
  PROVE  TypeOK' /\ WgCounts'
BY DEF LimitStep, TimeIsUp, CheckCPUTime, CheckMemory, Blame, Move, TypeOK, RunTypeOK,
       KernelTypeOK, kernelVars, treeVars, Goroutines, WgCounts, Count, Counted, TracerErrors

LEMMA TypeStep == TypeOK /\ WgCounts /\ [Next]_vars => TypeOK' /\ WgCounts'
<1> SUFFICES ASSUME TypeOK, WgCounts, [Next]_vars PROVE TypeOK' /\ WgCounts'
  OBVIOUS
<1>1. CASE \E p \in Procs : ProcessStep(p) /\ UNCHANGED runVars
  BY <1>1, ProcessStepType DEF TypeOK, RunTypeOK, runVars, WgCounts, Count
<1>2. CASE UNCHANGED vars
  BY <1>2 DEF TypeOK, RunTypeOK, KernelTypeOK, vars, runVars, kernelVars, treeVars, WgCounts, Count
<1> QED
  BY <1>1, <1>2, MainStepType, TraceLoopType, GoStepType, LimitStepType DEF Next, Terminated

\* Every variable keeps its type and the WaitGroup's counter never leaves 0..2:
\* no order of wg.Add, wg.Done and wg.Wait makes it negative (runner.go:181-188, 241-242).
THEOREM TypeCorrect == Spec => []TypeOK
<1>1. Init => TypeOK /\ WgCounts
  BY TypeInit
<1>2. TypeOK /\ WgCounts /\ [Next]_vars => TypeOK' /\ WgCounts'
  BY TypeStep
<1> QED
  BY <1>1, <1>2, PTL DEF Spec

-----------------------------------------------------------------------------
(* The inductive invariant.                                                *)

LEMMA ConfigIsFixed ==
  ASSUME [Next]_vars
  PROVE  /\ cfg' = cfg
         /\ Permitted' = Permitted
         /\ \A k : StopError(k)' = StopError(k)
<1>1. cfg' = cfg
  BY DEF Next, vars, runVars, MainStep, LaunchFails, Launch, FirstWait, BeginTrace, Resume,
         PtraceFails, OutOfIterations, Verdict, CloseStopc, Join, ExitTracer,
         TraceLoop, WaitOverLimit, WaitGone, WaitStopped, Wait4, GoStep, Begin, Quit,
         KillProcess, KillGroup, Report, LimitStep, TimeIsUp, CheckCPUTime, CheckMemory,
         Terminated
<1> QED
  BY <1>1 DEF Permitted, StopError

LEMMA StopErrorIsForbidden ==
  \A k \in {"FORK", "CLONE", "EXEC"} : k \notin Permitted => StopError(k) # NoErr
BY DEF StopError, Permitted, NoErr

\* Every step, as the threads of the tree see it.
KernelMove ==
  \/ UNCHANGED kernelVars
  \/ TreeStep /\ (UNCHANGED pc /\ UNCHANGED current)
  \/ Collect(Tracee) /\ FirstWait
  \/ \E q \in Procs : Collect(q) /\ TraceLoop(q)
  \/ Restart(Tracee) /\ BeginTrace
  \/ Restart(current) /\ Resume
  \/ StartTracee /\ (Launch \/ LaunchFails)
  \/ ExitTracer

LEMMA StepIsKernelMove ==
  ASSUME TypeOK, TreeInv, [Next]_vars
  PROVE  KernelMove
<1> USE DEF TypeOK, KernelMove
<1>1. CASE MainStep
  BY <1>1
  DEF MainStep, LaunchFails, Launch, FirstWait, BeginTrace, Resume, PtraceFails,
      OutOfIterations, Verdict, CloseStopc, Join
<1>2. ASSUME NEW q \in Procs, TraceLoop(q)
      PROVE  KernelMove
  BY <1>2 DEF TraceLoop, WaitOverLimit, WaitGone, WaitStopped, Wait4
<1>3. CASE \E g \in Goroutines : GoStep(g)
  BY <1>3, KillAllIsTreeStep DEF GoStep, Begin, Quit, KillProcess, KillGroup, Report
<1>4. CASE LimitStep
  BY <1>4 DEF LimitStep, TimeIsUp, CheckCPUTime, CheckMemory
<1>5. CASE \E p \in Procs : ProcessStep(p) /\ UNCHANGED runVars
  BY <1>5, ProcessIsTreeStep DEF runVars
<1>6. CASE UNCHANGED vars
  BY <1>6 DEF vars
<1> QED
  BY <1>1, <1>2, <1>3, <1>4, <1>5, <1>6 DEF Next, Terminated

\* Where the steps of Run and its loop go.
LEMMA MainPath ==
  ASSUME TypeOK, [Next]_vars
  PROVE  /\ pc' \in {"launch", "wait", "options"} => pc' = pc \/ Launch \/ FirstWait
         /\ pc \in Ended => pc' \in Ended
<1> USE DEF Ended
<1>1. CASE MainStep
  BY <1>1
  DEF MainStep, LaunchFails, Launch, FirstWait, ReturnEarly, BeginTrace, Resume, PtraceFails,
      TraceReturns, OutOfIterations, Verdict, CloseStopc, Join, ExitTracer
<1>2. CASE \E p \in Procs : TraceLoop(p)
  BY <1>2 DEF TraceLoop, WaitOverLimit, WaitGone, WaitStopped, Wait4, TraceReturns, Continue
<1>3. CASE \E g \in Goroutines : GoStep(g)
  BY <1>3 DEF GoStep, Begin, Quit, KillProcess, KillGroup, Report
<1>4. CASE LimitStep
  BY <1>4 DEF LimitStep, TimeIsUp, CheckCPUTime, CheckMemory
<1>5. CASE UNCHANGED vars \/ \E p \in Procs : ProcessStep(p) /\ UNCHANGED runVars
  BY <1>5 DEF vars, runVars
<1> QED
  BY <1>1, <1>2, <1>3, <1>4, <1>5 DEF Next, Terminated

LEMMA TreeInvStep ==
  ASSUME TypeOK, TypeOK', TreeInv, Prelude, [Next]_vars
  PROVE  TreeInv'
<1> USE KernelAssumption DEF KernelAssumption, TypeOK
<1>1. KernelMove
  BY StepIsKernelMove
<1>2. CASE UNCHANGED kernelVars
  BY <1>2
  DEF kernelVars, treeVars, TreeInv, Threaded, Silenced, AtExitStop, Stopped
<1>3. CASE TreeStep
  BY <1>3, TreeStepInv
<1>4. CASE \E q \in Procs : Collect(q)
  BY <1>4, CollectTree
<1>5. CASE Restart(Tracee) \/ (Restart(current) /\ current \in Procs)
  BY <1>5, RestartTree
<1>6. CASE StartTracee /\ (Launch \/ LaunchFails)
  BY <1>6, StartTraceeTree DEF Launch, LaunchFails, Prelude
<1>7. CASE ExitTracer
  <2>1. /\ st' = [p \in Procs |-> IF st[p] = "unborn" THEN "unborn" ELSE "reaped"]
        /\ UNCHANGED <<leader, did, fate>>
    BY <1>7 DEF ExitTracer, treeVars
  <2>2. \A p \in Procs : leader[p] \in Procs /\ fate[p] \in Fates
    BY DEF KernelTypeOK, TreeInv
  <2>3. \A p \in Procs : fate[leader[p]] # NoFate => st'[p] = "reaped"
    BY <2>1 DEF TreeInv, Silenced, AtExitStop, Stopped
  <2> QED
    BY <2>1, <2>2, <2>3 DEF TreeInv, Silenced
<1> QED
  BY <1>1, <1>2, <1>3, <1>4, <1>5, <1>6, <1>7 DEF KernelMove, RunTypeOK

\* Where nothing runs, nothing begins to run but by the tracer.
LEMMA PreludeStep ==
  ASSUME TypeOK, TreeInv, Prelude, [Next]_vars
  PROVE  Prelude'
<1> USE KernelAssumption DEF KernelAssumption, TypeOK, KernelTypeOK
<1> SUFFICES ASSUME pc' \in {"launch", "wait", "options"}
             PROVE  /\ \A p \in Procs : /\ did'[p] = {}
                                        /\ st'[p] \notin {"running", "forking", "execing"}
                    /\ pc' = "launch" => st'[Tracee] = "unborn"
                    /\ pc' = "wait" => st'[Tracee] \notin {"unborn", "reaped"}
  BY DEF Prelude
<1>1. pc' = pc \/ Launch \/ FirstWait
  BY MainPath
<1>2. /\ pc \in {"launch", "wait", "options"}
      /\ \A p \in Procs : did[p] = {} /\ st[p] \notin {"running", "forking", "execing"}
  BY <1>1 DEF Launch, FirstWait, Prelude
<1>3. CASE Launch
  BY <1>2, <1>3 DEF Launch, StartTracee, treeVars
<1>4. CASE FirstWait
  BY <1>2, <1>4 DEF FirstWait, ReturnEarly, Collect, treeVars
<1>5. CASE pc' = pc /\ ~Launch /\ ~FirstWait
  <2>1. KernelMove
    BY StepIsKernelMove
  <2>2. UNCHANGED kernelVars \/ TreeStep
    BY <1>2, <1>5, <2>1
    DEF KernelMove, TraceLoop, WaitOverLimit, WaitGone, WaitStopped, Wait4, BeginTrace, Resume,
        LaunchFails, ReturnEarly, ExitTracer
  <2>3. CASE UNCHANGED kernelVars
    BY <1>2, <1>5, <2>3 DEF kernelVars, treeVars, Prelude
  <2>4. CASE TreeStep
    <3>1. \A p \in Procs : Same(p) \/ Wakes(p) \/ Dies(p)
      BY <1>2, <2>4
      DEF TreeStep, ThreadStep, Reports, Arrives, Begins, GivesWay, Becomes
    <3> QED
      BY <1>2, <1>5, <3>1
      DEF Same, Wakes, Woken, Live, AtExitStop, Stopped, Dies, Prelude
  <2> QED
    BY <2>2, <2>3, <2>4
<1> QED
  BY <1>1, <1>3, <1>4, <1>5

LEMMA AllowedStays ==
  ASSUME TypeOK, TypeOK', TreeInv, Prelude, [Next]_vars, NEW p \in Procs
  PROVE  Allowed(p) \subseteq Allowed(p)' /\ (Threaded(p) => Threaded(p)')
<1>1. leader' = leader \/ LeaderStep
  BY StepIsKernelMove
  DEF KernelMove, kernelVars, treeVars, TreeStep, Collect, Restart, StartTracee, ExitTracer
<1>2. Threaded(p) => Threaded(p)'
  BY <1>1, ThreadedStays DEF TypeOK, LeaderStep
<1>3. Permitted' = Permitted
  BY ConfigIsFixed
<1> QED
  BY <1>2, <1>3 DEF Allowed

\* A step of the tree.
LEMMA CaughtInTree ==
  ASSUME IInv, TypeOK', [Next]_vars, TreeStep, UNCHANGED pc, NEW q \in Procs
  PROVE  Caught(q)'
<1> USE DEF IInv
<1>1. /\ Permitted' = Permitted /\ \A k : StopError(k)' = StopError(k)
      /\ Allowed(q) \subseteq Allowed(q)'
  BY ConfigIsFixed, AllowedStays
<1>2. ThreadStep(q) /\ Caught(q)
  BY DEF TreeStep
<1>3. CASE did[q] \subseteq Allowed(q) /\ did'[q] = did[q]
  BY <1>1, <1>3 DEF Caught
<1>4. CASE Same(q) /\ ~(did[q] \subseteq Allowed(q))
  BY <1>1, <1>2, <1>4 DEF Same, Caught
<1>5. CASE Wakes(q)
  BY <1>5 DEF Wakes, Woken, Caught
<1>6. CASE Reports(q)
  <2>1. did[q] \subseteq Allowed(q)
    BY <1>2, <1>6 DEF Reports, Caught
  <2>2. CASE st'[q] = "pending" /\ did'[q] = did[q] \cup {"EXEC"} /\ status'[q] = Stop("EXEC")
    <3>1. CASE "EXEC" \in Permitted
      BY <1>1, <2>1, <2>2, <3>1 DEF Allowed, Caught
    <3>2. CASE "EXEC" \notin Permitted
      BY <1>1, <2>2, <3>2, StopErrorIsForbidden DEF Caught, Stop
    <3> QED
      BY <3>1, <3>2
  <2>3. ASSUME NEW k \in {"FORK", "CLONE"},
               st'[q] = "forking" /\ did'[q] = did[q] \cup {k} /\ status'[q] = Stop(k)
        PROVE  Caught(q)'
    <3>1. CASE k \in Permitted
      BY <1>1, <2>1, <2>3, <3>1 DEF Allowed, Caught
    <3>2. CASE k \notin Permitted
      BY <1>1, <2>3, <3>2, StopErrorIsForbidden DEF Caught, Stop
    <3> QED
      BY <3>1, <3>2
  <2> QED
    BY <1>3, <1>6, <2>1, <2>2, <2>3 DEF Reports
<1>7. CASE Arrives(q)
  BY <1>1, <1>2, <1>7 DEF Arrives, Caught
<1>8. CASE Begins(q)
  BY <1>3, <1>8 DEF Begins, TreeInv
<1>9. CASE Dies(q)
  BY <1>9 DEF Dies, AtExit, Caught
<1>10. CASE GivesWay(q)
  BY <1>10 DEF GivesWay, Caught
<1>11. CASE Becomes(q)
  <2>1. PICK r \in Procs : /\ st[r] = "execing" /\ leader[r] = q
                           /\ did'[q] = did[r] \cup {"EXEC"}
    BY <1>11 DEF Becomes
  <2>2. did[r] \subseteq Allowed(r)
    BY <2>1 DEF Caught
  <2>3. did'[q] \subseteq Allowed(q)
    BY <1>11, <2>1, <2>2 DEF Becomes, Allowed
  <2> QED
    BY <1>1, <2>3 DEF Caught
<1> QED
  BY <1>2, <1>3, <1>4, <1>5, <1>6, <1>7, <1>8, <1>9, <1>10, <1>11 DEF ThreadStep, Same

LEMMA CaughtStep ==
  ASSUME IInv, TypeOK', [Next]_vars, NEW q \in Procs
  PROVE  Caught(q)'
<1> USE DEF IInv
<1>1. /\ Permitted' = Permitted /\ \A k : StopError(k)' = StopError(k)
      /\ Allowed(q) \subseteq Allowed(q)' /\ Caught(q)
  BY ConfigIsFixed, AllowedStays
<1>2. pc \in Ended => pc' \in Ended
  BY MainPath
<1>3. KernelMove
  BY StepIsKernelMove
<1>4. ASSUME Same(q)
      PROVE  Caught(q)'
  BY <1>1, <1>2, <1>4 DEF Same, Caught
<1>5. CASE UNCHANGED kernelVars
  BY <1>4, <1>5 DEF kernelVars, treeVars, Same
<1>6. ASSUME pc \in {"launch", "wait", "options"}, did' = did
      PROVE  Caught(q)'
  BY <1>1, <1>6 DEF Prelude, Caught
<1>7. CASE (Collect(Tracee) /\ FirstWait) \/ (Restart(Tracee) /\ BeginTrace)
           \/ (StartTracee /\ (Launch \/ LaunchFails))
  BY <1>6, <1>7
  DEF Collect, FirstWait, Restart, BeginTrace, StartTracee, Launch, LaunchFails, treeVars
<1>8. ASSUME NEW p \in Procs, Collect(p), TraceLoop(p)
      PROVE  Caught(q)'
  <2>1. /\ st' = [st EXCEPT ![p] = IF @ = "dead" THEN "reaped" ELSE "held"]
        /\ status' = [status EXCEPT ![p] = IF st[p] = "dead" THEN Final(p) ELSE @]
        /\ did' = did /\ Waitable(p)
    BY <1>8 DEF Collect, treeVars
  <2>2. CASE q # p
    BY <1>4, <2>1, <2>2 DEF Same, TypeOK, KernelTypeOK
  <2>3. CASE q = p /\ st[p] = "dead"
    BY <2>1, <2>3 DEF Caught, TypeOK, KernelTypeOK
  <2>4. CASE q = p /\ st[p] = "pending"
    <3>1. st'[q] = "held" /\ status'[q] = status[q] /\ did'[q] = did[q]
      BY <2>1, <2>4 DEF TypeOK, KernelTypeOK
    <3>2. StopError(status[q].kind) # NoErr => pc' = "verdict"
      BY <1>8, <2>4
      DEF TraceLoop, WaitOverLimit, WaitGone, WaitStopped, TraceReturns
    <3> QED
      BY <1>1, <2>4, <3>1, <3>2 DEF Caught, Ended
  <2> QED
    BY <2>1, <2>2, <2>3, <2>4 DEF Waitable
<1>9. CASE Restart(current) /\ Resume
  <2>1. /\ st' = [st EXCEPT ![current] = IF AtExitStop(current) THEN "dead" ELSE "running"]
        /\ status' = status /\ did' = did /\ Stopped(current) /\ current \in Procs
        /\ pc = "resume"
    BY <1>9 DEF Restart, Resume, treeVars, TypeOK, RunTypeOK
  <2>2. CASE q # current
    BY <1>4, <2>1, <2>2 DEF Same, TypeOK, KernelTypeOK
  <2>3. CASE q = current /\ AtExitStop(current)
    BY <2>1, <2>3 DEF Caught, TypeOK, KernelTypeOK
  <2>4. CASE q = current /\ ~AtExitStop(current)
    <3>1. did[q] \subseteq Allowed(q)
      BY <1>1, <2>1, <2>4 DEF Caught, ResumeInv, AtExitStop, Stopped, Ended
    <3> QED
      BY <1>1, <2>1, <3>1 DEF Caught
  <2> QED
    BY <2>2, <2>3, <2>4
<1>10. CASE ExitTracer
  <2>1. st'[q] = "reaped" \/ (st[q] = "unborn" /\ did'[q] = did[q])
    BY <1>10 DEF ExitTracer, treeVars
  <2> QED
    BY <1>1, <2>1 DEF Caught
<1> QED
  BY <1>3, <1>5, <1>7, <1>8, <1>9, <1>10, CaughtInTree DEF KernelMove

LEMMA ResumeStep ==
  ASSUME IInv, TypeOK', [Next]_vars
  PROVE  ResumeInv'
<1> SUFFICES ASSUME pc' = "resume"
             PROVE  \/ st'[current'] \in {"held", "dying", "dead", "reaped"}
                    \/ /\ st'[current'] = "pending"
                       /\ \/ status'[current'].kind = "EXIT"
                          \/ did'[current'] \subseteq Allowed(current)'
  BY DEF ResumeInv
<1> USE DEF IInv
<1>1. CASE \E p \in Procs : TraceLoop(p)
  <2>1. PICK p \in Procs : TraceLoop(p)
    BY <1>1
  <2>2. current' = p /\ Collect(p)
    BY <2>1
    DEF TraceLoop, WaitOverLimit, WaitGone, WaitStopped, Wait4, TraceReturns, Continue
  <2> QED
    BY <2>2 DEF Collect, TypeOK, KernelTypeOK
<1>2. CASE ~\E p \in Procs : TraceLoop(p)
  <2>1. pc = "resume" /\ current' = current /\ current \in Procs
    BY <1>2
    DEF Next, Terminated, vars, runVars, MainStep, LaunchFails, Launch, FirstWait, ReturnEarly,
        BeginTrace, Resume, PtraceFails, TraceReturns, OutOfIterations, Verdict, CloseStopc,
        Join, ExitTracer, GoStep, Begin, Quit, KillProcess, KillGroup, Report, LimitStep,
        TimeIsUp, CheckCPUTime, CheckMemory, TypeOK, RunTypeOK
  <2>2. UNCHANGED kernelVars \/ TreeStep
    BY <1>2, <2>1, StepIsKernelMove
    DEF KernelMove, FirstWait, BeginTrace, Resume, Launch, LaunchFails, ExitTracer
  <2>3. Allowed(current) \subseteq Allowed(current)'
    BY <2>1, AllowedStays DEF Allowed
  <2>4. CASE UNCHANGED kernelVars
    BY <2>1, <2>3, <2>4 DEF kernelVars, treeVars, ResumeInv
  <2>5. CASE TreeStep
    <3>1. ThreadStep(current)
      BY <2>1, <2>5 DEF TreeStep
    <3>2. CASE Same(current)
      BY <2>1, <2>3, <3>2 DEF Same, ResumeInv
    <3>3. CASE Wakes(current) \/ Dies(current)
      BY <2>1, <3>3 DEF Wakes, Woken, Dies, AtExit
    <3>4. CASE Becomes(current)
      <4>1. PICK r \in Procs : /\ st[r] = "execing" /\ leader[r] = current
                               /\ did'[current] = did[r] \cup {"EXEC"}
        BY <3>4 DEF Becomes
      <4>2. did[r] \subseteq Allowed(r)
        BY <4>1 DEF Caught
      <4>3. did'[current] \subseteq Allowed(current)
        BY <3>4, <4>1, <4>2 DEF Becomes, Allowed
      <4>4. did'[current] \subseteq Allowed(current)'
        BY <2>3, <4>3
      <4> QED
        BY <2>1, <3>4, <4>4 DEF Becomes
    <3> QED
      BY <2>1, <3>1, <3>2, <3>3, <3>4
      DEF ThreadStep, Reports, Arrives, Begins, GivesWay, ResumeInv
  <2> QED
    BY <2>2, <2>4, <2>5
<1> QED
  BY <1>1, <1>2

LEMMA SingleLeads ==
  ASSUME TypeOK, TreeInv, NEW q \in Procs, ~Threaded(q)
  PROVE  leader[q] = q /\ \A r \in Procs : leader[r] = q => r = q
BY DEF TreeInv, Threaded, TypeOK, KernelTypeOK

LEMMA EndIsForcedInTree ==
  ASSUME IInv, TypeOK', [Next]_vars, TreeStep, NEW q \in Procs
  PROVE  EndIsForced(q)'
<1> USE DEF IInv
<1>1. Permitted' = Permitted /\ (Threaded(q) => Threaded(q)')
  BY ConfigIsFixed, AllowedStays
<1> SUFFICES ASSUME ~Threaded(q), ~(did'[q] \subseteq Permitted)
             PROVE  /\ fate'[q] \in {NoFate, Signaled}
                    /\ status'[q].kind # "EXITED"
                    /\ st'[q] \in {"dying", "dead"} \/ status'[q].kind = "EXIT"
                         => fate'[q] = Signaled
  BY <1>1 DEF EndIsForced
<1>2. /\ ThreadStep(q) /\ FateStep(q) /\ leader[q] = q /\ Allowed(q) = Permitted
      /\ \A r \in Procs : leader[r] = q => r = q
  BY SingleLeads DEF TreeStep, Allowed
<1>3. CASE ~(did[q] \subseteq Permitted)
  <2>1. /\ st[q] \notin {"running", "unborn", "execing"}
        /\ fate[q] \in {NoFate, Signaled} /\ status[q].kind # "EXITED"
        /\ st[q] \in {"dying", "dead"} \/ status[q].kind = "EXIT" => fate[q] = Signaled
    BY <1>2, <1>3 DEF Caught, EndIsForced, TreeInv
  <2>2. fate'[q] = fate[q] \/ (fate[q] = NoFate /\ fate'[q] = Signaled)
    <3>1. CASE fate'[q] # fate[q]
      <4>1. PICK r \in Procs : leader[r] = q /\ (fate'[q] = Signaled \/ st[r] = "running")
        BY <1>2, <3>1 DEF FateStep
      <4>2. fate[q] = NoFate
        BY <1>2, <3>1 DEF FateStep
      <4> QED
        BY <1>2, <2>1, <4>1, <4>2
    <3> QED
      BY <3>1
  <2>3. fate'[q] \in {NoFate, Signaled} /\ (fate[q] = Signaled => fate'[q] = Signaled)
    BY <2>1, <2>2 DEF NoFate, Signaled, Stop
  <2>4. CASE Same(q) \/ Arrives(q)
    BY <2>1, <2>3, <2>4 DEF Same, Arrives
  <2>5. CASE Wakes(q)
    <3>1. fate'[q] = Signaled
      BY <1>2, <2>1, <2>3, <2>5 DEF Wakes
    <3> QED
      BY <2>1, <2>5, <3>1 DEF Wakes
  <2>6. CASE Dies(q)
    BY <2>1, <2>3, <2>6 DEF Dies, AtExit
  <2> QED
    BY <1>2, <2>1, <2>4, <2>5, <2>6 DEF ThreadStep, Reports, Begins, GivesWay, Becomes
<1>4. CASE did[q] \subseteq Permitted
  <2>1. Reports(q) /\ did'[q] # did[q]
    BY <1>2, <1>4
    DEF ThreadStep, Same, Wakes, Arrives, Begins, Dies, GivesWay, Becomes
  <2>2. /\ st[q] = "running" /\ st'[q] \in {"pending", "forking"}
        /\ status'[q].kind \in {"EXEC", "FORK", "CLONE"}
    BY <2>1 DEF Reports, Stop
  <2>3. fate[q] = NoFate
    BY <1>2, <2>2 DEF TreeInv, Silenced, AtExitStop, Stopped
  <2>4. ~Silenced(q)'
    BY <2>2 DEF Silenced, AtExitStop, Stopped
  <2>5. fate'[q] = NoFate
    BY <1>2, <2>3, <2>4 DEF FateStep
  <2> QED
    BY <2>2, <2>5
<1> QED
  BY <1>3, <1>4

LEMMA EndIsForcedStep ==
  ASSUME IInv, TypeOK', [Next]_vars, NEW q \in Procs
  PROVE  EndIsForced(q)'
<1> USE DEF IInv
<1>1. Permitted' = Permitted /\ (Threaded(q) => Threaded(q)') /\ EndIsForced(q)
  BY ConfigIsFixed, AllowedStays
<1>2. KernelMove
  BY StepIsKernelMove
<1>3. CASE UNCHANGED kernelVars
  BY <1>1, <1>3 DEF kernelVars, treeVars, EndIsForced
<1>4. ASSUME pc \in {"launch", "wait", "options"}, did' = did
      PROVE  EndIsForced(q)'
  BY <1>1, <1>4 DEF Prelude, EndIsForced
<1>5. CASE (Collect(Tracee) /\ FirstWait) \/ (Restart(Tracee) /\ BeginTrace)
           \/ (StartTracee /\ (Launch \/ LaunchFails))
  BY <1>4, <1>5
  DEF Collect, FirstWait, Restart, BeginTrace, StartTracee, Launch, LaunchFails, treeVars
<1>6. ASSUME NEW p \in Procs, Collect(p)
      PROVE  EndIsForced(q)'
  <2>1. /\ st' = [st EXCEPT ![p] = IF @ = "dead" THEN "reaped" ELSE "held"]
        /\ status' = [status EXCEPT ![p] = IF st[p] = "dead" THEN Final(p) ELSE @]
        /\ did' = did /\ fate' = fate
    BY <1>6 DEF Collect, treeVars
  <2>2. st'[q] \in {"dying", "dead"} => st[q] \in {"dying", "dead"}
    BY <2>1 DEF TypeOK, KernelTypeOK
  <2>3. CASE status'[q] = status[q]
    BY <1>1, <2>1, <2>2, <2>3 DEF EndIsForced
  <2>4. CASE q = p /\ st[q] = "dead"
    <3>1. status'[q] = Final(q)
      BY <2>1, <2>4 DEF TypeOK, KernelTypeOK
    <3>2. SUFFICES ASSUME ~Threaded(q), ~(did[q] \subseteq Permitted)
                   PROVE  fate[q] = Signaled /\ status'[q] = Signaled
      BY <1>1, <2>1 DEF EndIsForced, NoFate, Signaled
    <3>3. fate[q] = Signaled /\ leader[q] = q
      BY <1>1, <2>4, <3>2, SingleLeads DEF EndIsForced
    <3> QED
      BY <3>1, <3>3 DEF Final, NoFate, Signaled, Stop
  <2> QED
    BY <2>1, <2>3, <2>4 DEF TypeOK, KernelTypeOK
<1>7. CASE Restart(current) /\ Resume
  <2>1. /\ st' = [st EXCEPT ![current] = IF AtExitStop(current) THEN "dead" ELSE "running"]
        /\ status' = status /\ did' = did /\ fate' = fate
    BY <1>7 DEF Restart, treeVars
  <2>2. st'[q] \in {"dying", "dead"} =>
          st[q] \in {"dying", "dead"} \/ status[q].kind = "EXIT"
    BY <2>1 DEF AtExitStop, TypeOK, KernelTypeOK
  <2> QED
    BY <1>1, <2>1, <2>2 DEF EndIsForced
<1>8. CASE ExitTracer
  <2>1. /\ st'[q] \notin {"dying", "dead"}
        /\ status' = status /\ did' = did /\ fate' = fate
    BY <1>8 DEF ExitTracer, treeVars
  <2> QED
    BY <1>1, <2>1 DEF EndIsForced
<1> QED
  BY <1>2, <1>3, <1>5, <1>6, <1>7, <1>8, EndIsForcedInTree DEF KernelMove

LEMMA TraceeIsThereStep ==
  ASSUME IInv, TypeOK', [Next]_vars
  PROVE  TraceeIsThere'
<1> USE KernelAssumption DEF KernelAssumption, IInv, TypeOK, KernelTypeOK
<1> SUFFICES ASSUME pc' \in {"options", "loop", "resume"}
             PROVE  st'[Tracee] \notin {"unborn", "reaped"}
  BY DEF TraceeIsThere
<1>1. KernelMove
  BY StepIsKernelMove
<1>2. CASE FirstWait
  BY <1>2 DEF FirstWait, ReturnEarly, Collect, Waitable
<1>3. ASSUME NEW p \in Procs, TraceLoop(p)
      PROVE  st'[Tracee] \notin {"unborn", "reaped"}
  <2>1. Collect(p) /\ pc = "loop"
    BY <1>3 DEF TraceLoop, WaitOverLimit, WaitGone, WaitStopped, Wait4
  <2>2. CASE p # Tracee
    BY <2>1, <2>2 DEF Collect, TraceeIsThere
  <2>3. CASE p = Tracee /\ st[p] = "pending"
    BY <2>1, <2>3 DEF Collect
  <2>4. CASE p = Tracee /\ st[p] = "dead"
    BY <1>3, <2>4
    DEF TraceLoop, WaitOverLimit, WaitGone, WaitStopped, TraceReturns, EndsRun
  <2> QED
    BY <2>1, <2>2, <2>3, <2>4 DEF Collect, Waitable
<1>4. CASE ~FirstWait /\ ~\E p \in Procs : TraceLoop(p)
  <2>1. pc \in {"options", "loop", "resume"}
    BY <1>4
    DEF Next, Terminated, vars, runVars, MainStep, LaunchFails, Launch, ReturnEarly,
        BeginTrace, Resume, PtraceFails, TraceReturns, OutOfIterations, Verdict, CloseStopc,
        Join, ExitTracer, GoStep, Begin, Quit, KillProcess, KillGroup, Report, LimitStep,
        TimeIsUp, CheckCPUTime, CheckMemory
  <2>2. st[Tracee] \notin {"unborn", "reaped"}
    BY <2>1 DEF TraceeIsThere
  <2>3. CASE TreeStep
    <3>1. ThreadStep(Tracee) /\ ~GivesWay(Tracee)
      BY <2>3 DEF TreeStep, TreeInv, GivesWay
    <3> QED
      BY <2>2, <3>1
      DEF ThreadStep, Same, Wakes, Woken, Reports, Arrives, Begins, Dies, Becomes
  <2>4. CASE UNCHANGED kernelVars
    BY <2>2, <2>4 DEF kernelVars
  <2>5. CASE Restart(Tracee) \/ Restart(current)
    BY <2>2, <2>5 DEF Restart
  <2> QED
    BY <1>1, <1>4, <2>1, <2>3, <2>4, <2>5
    DEF KernelMove, Launch, LaunchFails, ExitTracer
<1> QED
  BY <1>2, <1>3, <1>4

\* Nothing happens any more to a tracee that was reaped, once the loop has ended.
LEMMA ReapedStays ==
  ASSUME IInv, TypeOK', [Next]_vars, pc \in Ended, st[Tracee] = "reaped"
  PROVE  /\ st'[Tracee] = "reaped" /\ status'[Tracee] = status[Tracee]
         /\ did'[Tracee] = did[Tracee] /\ fate'[Tracee] = fate[Tracee]
         /\ cpu'[Tracee] = cpu[Tracee] /\ rss'[Tracee] = rss[Tracee]
<1> USE KernelAssumption DEF KernelAssumption, IInv
<1>1. UNCHANGED kernelVars \/ TreeStep \/ ExitTracer
  BY StepIsKernelMove
  DEF KernelMove, FirstWait, TraceLoop, WaitOverLimit, WaitGone, WaitStopped, Wait4, BeginTrace,
      Resume, Launch, LaunchFails, Ended
<1>2. CASE UNCHANGED kernelVars
  BY <1>2 DEF kernelVars, treeVars
<1>3. CASE ExitTracer
  BY <1>3 DEF ExitTracer, treeVars
<1>4. CASE TreeStep
  <2>1. \A r \in Procs : leader[r] = Tracee => st[r] = "reaped"
    BY DEF TreeInv
  <2>2. ThreadStep(Tracee) /\ FateStep(Tracee) /\ GrowStep(Tracee)
    BY <1>4 DEF TreeStep
  <2>3. Same(Tracee)
    BY <2>2 DEF ThreadStep, Wakes, Live, Reports, Arrives, Begins, Dies, GivesWay, Becomes
  <2>4. fate'[Tracee] = fate[Tracee]
    <3>1. CASE fate'[Tracee] # fate[Tracee]
      <4>1. PICK r \in Procs : leader[r] = Tracee /\ st[r] \in Live
        BY <2>2, <3>1 DEF FateStep
      <4> QED
        BY <2>1, <4>1 DEF Live
    <3> QED
      BY <3>1
  <2>5. cpu'[Tracee] = cpu[Tracee] /\ rss'[Tracee] = rss[Tracee]
    BY <2>1, <2>2 DEF GrowStep
  <2> QED
    BY <2>3, <2>4, <2>5 DEF Same
<1> QED
  BY <1>1, <1>2, <1>3, <1>4

LEMMA GenuineStays ==
  ASSUME IInv, TypeOK', [Next]_vars, pc \in Ended, Genuine
  PROVE  Genuine' /\ status'[Tracee] = status[Tracee]
<1>1. Permitted' = Permitted /\ cfg' = cfg /\ (Threaded(Tracee) => Threaded(Tracee)')
  BY ConfigIsFixed, AllowedStays, KernelAssumption DEF KernelAssumption, IInv
<1> QED
  BY <1>1, ReapedStays DEF Genuine

\* A reaped tracee that exited within its limits, read off by the loop.
LEMMA ExitIsGenuine ==
  ASSUME IInv, TypeOK', [Next]_vars, WaitGone(Tracee), Final(Tracee).kind = "EXITED"
  PROVE  Genuine' /\ status'[Tracee] = Final(Tracee)
<1> USE KernelAssumption DEF KernelAssumption, IInv
<1>1. /\ st[Tracee] = "dead" /\ st'[Tracee] = "reaped" /\ status'[Tracee] = Final(Tracee)
      /\ did' = did /\ cpu' = cpu /\ rss' = rss /\ fate' = fate /\ leader' = leader
  BY DEF WaitGone, Wait4, Collect, treeVars, TypeOK, KernelTypeOK
<1>2. fate[Tracee] # Signaled /\ leader[Tracee] = Tracee
  BY DEF Final, Signaled, NoFate, Stop, TreeInv
<1>3. did[Tracee] \subseteq Permitted \/ Threaded(Tracee)
  BY <1>1, <1>2 DEF EndIsForced
<1>4. /\ ~Exceeds(rss[Tracee], cfg.MemoryLimit)
      /\ ~Exceeds(cpu[Tracee], cfg.CPUTimeLimit)
  BY <1>2 DEF WaitGone, LimitError, NoErr
<1>5. /\ rss[Tracee] \in Int /\ cpu[Tracee] \in Int
      /\ cfg.MemoryLimit \in Int /\ cfg.CPUTimeLimit \in Int
  BY TracerAssumption DEF TracerAssumption, Config, TypeOK, KernelTypeOK, RunTypeOK
<1>6. /\ cfg.MemoryLimit >= 0 => rss[Tracee] < cfg.MemoryLimit
      /\ cfg.CPUTimeLimit >= 0 => cpu[Tracee] < cfg.CPUTimeLimit
  BY <1>4, <1>5 DEF Exceeds
<1>7. cfg' = cfg /\ Permitted' = Permitted /\ (Threaded(Tracee) => Threaded(Tracee)')
  BY ConfigIsFixed, AllowedStays
<1>8. Genuine'
  BY <1>1, <1>2, <1>3, <1>6, <1>7 DEF Genuine
<1> QED
  BY <1>1, <1>8

LEMMA VerdictStep ==
  ASSUME IInv, TypeOK', [Next]_vars
  PROVE  VerdictIsGenuine'
<1> USE DEF VerdictIsGenuine, Decided, IInv
<1>1. ASSUME pc' = pc, ret' = ret
      PROVE  VerdictIsGenuine'
  BY <1>1, GenuineStays, ConfigIsFixed DEF Ended
<1>2. CASE MainStep
  <2>1. CASE LaunchFails \/ FirstWait
    BY <2>1 DEF LaunchFails, FirstWait, ReturnEarly, Result
  <2>2. CASE Launch \/ BeginTrace \/ Resume
    BY <2>2 DEF Launch, BeginTrace, Resume
  <2>3. CASE PtraceFails \/ OutOfIterations
    BY <2>3 DEF PtraceFails, OutOfIterations, TraceReturns, Result, NoErr
  <2>4. CASE Verdict
    <3> DEFINE e == IF errc # NoErr THEN errc ELSE ret.err
    <3>1. /\ pc = "verdict" /\ pc' = "close"
          /\ ret'.code = VerdictCode(ret.code, e) /\ ret'.err = e
      BY <2>4 DEF Verdict, Result
    <3>2. CASE e = NoErr
      <4>1. Genuine /\ ret.code = status[Tracee].code
        BY <3>1, <3>2
      <4>2. ret.code \in -1..255
        <5>1. status[Tracee] \in Statuses
          BY KernelAssumption DEF KernelAssumption, TypeOK, KernelTypeOK
        <5> QED
          BY <4>1, <5>1 DEF Statuses
      <4>3. Genuine' /\ status'[Tracee] = status[Tracee]
        BY <3>1, <4>1, GenuineStays DEF Ended
      <4> QED
        BY <3>1, <3>2, <4>1, <4>2, <4>3, ConfigIsFixed DEF VerdictCode
    <3>3. CASE e \in TracerErrors
      <4>1. VerdictCode(ret.code, e) \in 1..4
        BY <3>3, TracerErrorCodeType DEF VerdictCode, NoErr, TracerErrors
      <4>2. e # NoErr
        BY <3>3 DEF NoErr, TracerErrors
      <4> QED
        BY <3>1, <4>1, <4>2
    <3>4. CASE e # NoErr /\ e \notin TracerErrors
      <4>1. ret.code = -1
        BY <3>1, <3>4 DEF TypeOK, RunTypeOK
      <4>2. VerdictCode(ret.code, e) = 1
        BY <3>4, <4>1 DEF VerdictCode
      <4> QED
        BY <3>1, <3>4, <4>2
    <3> QED
      BY <3>2, <3>3, <3>4
  <2>5. CASE CloseStopc \/ Join \/ ExitTracer
    BY <2>5, GenuineStays, ConfigIsFixed DEF CloseStopc, Join, ExitTracer, Ended
  <2> QED
    BY <1>2, <2>1, <2>2, <2>3, <2>4, <2>5 DEF MainStep
<1>3. ASSUME NEW p \in Procs, TraceLoop(p)
      PROVE  VerdictIsGenuine'
  <2>1. CASE WaitOverLimit(p)
    BY <2>1 DEF WaitOverLimit, TraceReturns, Result
  <2>2. CASE WaitStopped(p)
    BY <2>2 DEF WaitStopped, Wait4, TraceReturns, Result
  <2>3. CASE WaitGone(p) /\ EndsRun(p) /\ Final(p).kind = "EXITED"
    BY <2>3, ExitIsGenuine DEF WaitGone, EndsRun, TraceReturns, Result
  <2>4. CASE WaitGone(p) /\ EndsRun(p) /\ Final(p).kind # "EXITED"
    BY <2>4 DEF WaitGone, TraceReturns, Result, NoErr
  <2>5. CASE WaitGone(p) /\ ~EndsRun(p)
    BY <2>5 DEF WaitGone, Wait4, Continue
  <2> QED
    BY <1>3, <2>1, <2>2, <2>3, <2>4, <2>5 DEF TraceLoop
<1>4. CASE \E g \in Goroutines : GoStep(g)
  BY <1>1, <1>4 DEF GoStep, Begin, Quit, KillProcess, KillGroup, Report
<1>5. CASE LimitStep
  BY <1>1, <1>5 DEF LimitStep, TimeIsUp, CheckCPUTime, CheckMemory
<1>6. CASE UNCHANGED vars \/ \E p \in Procs : ProcessStep(p) /\ UNCHANGED runVars
  BY <1>1, <1>6 DEF vars, runVars
<1> QED
  BY <1>2, <1>3, <1>4, <1>5, <1>6 DEF Next, Terminated

LEMMA InvInit == Init => IInv
<1> SUFFICES ASSUME Init PROVE IInv
  OBVIOUS
<1>1. TypeOK /\ WgCounts
  BY TypeInit
<1>2. TreeInv
  BY KernelInitTree DEF Init
<1>3. /\ pc = "launch"
      /\ \A p \in Procs : did[p] = {} /\ st[p] = "unborn"
  BY DEF Init, KernelInit
<1>4. Prelude /\ ResumeInv
  BY <1>3, KernelAssumption DEF KernelAssumption, Prelude, ResumeInv
<1>5. \A p \in Procs : Caught(p) /\ EndIsForced(p)
  BY <1>3 DEF Caught, EndIsForced
<1>6. VerdictIsGenuine /\ TraceeIsThere
  BY <1>3 DEF VerdictIsGenuine, Decided, TraceeIsThere
<1> QED
  BY <1>1, <1>2, <1>4, <1>5, <1>6 DEF IInv

LEMMA InvStep == IInv /\ [Next]_vars => IInv'
<1> SUFFICES ASSUME IInv, [Next]_vars PROVE IInv'
  OBVIOUS
<1>1. TypeOK' /\ WgCounts'
  BY TypeStep DEF IInv
<1>2. TreeInv' /\ Prelude'
  BY <1>1, TreeInvStep, PreludeStep DEF IInv
<1>3. ResumeInv' /\ TraceeIsThere' /\ VerdictIsGenuine'
  BY <1>1, ResumeStep, TraceeIsThereStep, VerdictStep
<1>4. (\A p \in Procs : Caught(p))'
  BY <1>1, CaughtStep
<1>5. (\A p \in Procs : EndIsForced(p))'
  BY <1>1, EndIsForcedStep
<1> QED
  BY <1>1, <1>2, <1>3, <1>4, <1>5 DEF IInv

THEOREM Invariance == Spec => []IInv
BY InvInit, InvStep, PTL DEF Spec

-----------------------------------------------------------------------------
(* Safety of a run.                                                        *)

\* A thread that did something the configuration forbids never executes again
\* (runner.go:439-475), but for an execve that replaces the stop the loop holds:
\* however many threads and processes there are, and however their stops, their
\* ends and the births of their children are interleaved.
THEOREM ForbiddenNeverRuns == Spec => []ForbiddenIsTheEnd
<1>1. IInv => ForbiddenIsTheEnd
  BY DEF IInv, Caught, Allowed, ForbiddenIsTheEnd
<1> QED
  BY <1>1, Invariance, PTL

\* While the loop waits the tracee is there to be waited for (runner.go:370-373).
THEOREM LoopNeverOutlivesTracee == Spec => []LoopHasTracee
<1>1. IInv => LoopHasTracee
  BY DEF IInv, TraceeIsThere, LoopHasTracee
<1> QED
  BY <1>1, Invariance, PTL

\* Exit status 0 means that the tracee exited by itself, with 0 under -x, and
\* that nothing was blamed (runner.go:157-183): for every exit code, order of
\* signals and race of the goroutines with the loop.
THEOREM SuccessIsNeverFaked == Spec => []SuccessIsGenuine
<1>1. IInv => SuccessIsGenuine
  <2> SUFFICES ASSUME IInv, pc = "exited", ret.code % 256 = 0
               PROVE  /\ status[Tracee].kind = "EXITED"
                      /\ ret.err = NoErr
                      /\ cfg.PropagateExitCode => status[Tracee].code = 0
    BY DEF SuccessIsGenuine, ExitStatus
  <2>1. ret.code \in -1..255
    BY DEF IInv, VerdictIsGenuine, Decided
  <2>2. ret.code = 0
    BY <2>1
  <2> QED
    BY <2>2 DEF IInv, VerdictIsGenuine, Decided, Genuine
<1> QED
  BY <1>1, Invariance, PTL

\* A run that ends without an error stayed below the limits in force
\* (runner.go:375-397), whatever they are.
THEOREM CleanStaysWithinLimits == Spec => []CleanWithinLimits
<1>1. IInv => CleanWithinLimits
  BY DEF IInv, VerdictIsGenuine, Decided, Genuine, Clean, CleanWithinLimits
<1> QED
  BY <1>1, Invariance, PTL

\* A run that ends without an error had a tracee that did nothing forbidden, or
\* had threads to end it before the loop saw what it did (runner.go:439-475).
THEOREM CleanIsPermitted == Spec => []CleanMeansPermitted
<1>1. IInv => CleanMeansPermitted
  BY DEF IInv, VerdictIsGenuine, Decided, Genuine, Clean, CleanMeansPermitted
<1> QED
  BY <1>1, Invariance, PTL
=============================================================================

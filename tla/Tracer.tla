------------------------------- MODULE Tracer -------------------------------
(***************************************************************************)
(* One supervised run: instance.Run with its ptrace loop (trace), the two  *)
(* goroutines that enforce limits (startKillingTimer, startCheckingLimits) *)
(* and the processes they watch (module Kernel).  The result of Run is the *)
(* exit status of the tracer process, main.go:101-108.                     *)
(***************************************************************************)
EXTENDS Kernel

CONSTANTS
  Configs,  \* the configurations to run under
  TickMs    \* milliseconds in one clock tick of /proc/<pid>/stat

Config ==
  [RootFS               : BOOLEAN,  \* is --rootfs given?
   AllowCreateProcesses : BOOLEAN,
   AllowMultiThreading  : BOOLEAN,
   PropagateExitCode    : BOOLEAN,
   CPUTimeLimit         : Int,    \* milliseconds; negative: no limit
   RealTimeLimit        : Int,    \* milliseconds; not positive: no limit
   MemoryLimit          : Int,    \* kilobytes; negative: no limit
   MaxPtraceIterations  : Int]    \* negative: no limit

ASSUME TracerAssumption ==
  /\ Configs \subseteq Config
  /\ TickMs \in Nat \ {0}

\* The goroutines beside the one that runs Run.
Goroutines == {"timer", "limiter"}

VARIABLES
  cfg,         \* the configuration, fixed for the run
  pc,          \* where Run is
  iterations,  \* iterations of the ptrace loop
  current,     \* currentPid
  ret,         \* exitCode and tErr
  stopc,       \* is the channel stopc closed?
  errc,        \* the buffered channel errc (capacity 1); NoErr when empty
  wg,          \* the WaitGroup's counter
  go,          \* where each goroutine is
  reason       \* the TracerError each goroutine hands to kill

runVars == <<cfg, pc, iterations, current, ret, stopc, errc, wg, go, reason>>
vars == <<runVars, kernelVars>>

-----------------------------------------------------------------------------
(* Errors.                                                                 *)

NoErr == "none"

\* Errors with a code of their own; the goroutines wrap what they find with
\* createTracerError, whose code is 1.
TracerErrors == {"RealTimeLimit", "MemoryLimit", "CPUTimeLimit",
                 "checkedCPUTime", "checkedMemory", "statUnreadable"}
PlainErrors  == {"Start", "NoPtrace", "Ptrace", "Iterations", "TraceeSignaled",
                 "SIGXCPU", "SIGSEGV", "CloneForbidden", "SpawnForbidden"}

TracerErrorCode(e) ==
  CASE e = "RealTimeLimit" -> 2
    [] e = "MemoryLimit"   -> 3
    [] e = "CPUTimeLimit"  -> 4
    [] OTHER               -> 1

Result(c, e) == [code |-> c, err |-> e]

-----------------------------------------------------------------------------
(* Defects: one plausible mistake each in the definition named before the  *)
(* underscore.  No action uses them; they show what the properties notice. *)

Exceeds_Strictly(value, limit) == limit >= 0 /\ value > limit

LimitError_Crossed(p) ==
  IF cfg.MemoryLimit >= 0 /\ cpu[leader[p]] >= cfg.MemoryLimit THEN "MemoryLimit"
  ELSE IF cfg.CPUTimeLimit >= 0 /\ rss[leader[p]] >= cfg.CPUTimeLimit THEN "CPUTimeLimit"
  ELSE NoErr

StopError_ExecForgotten(k) ==
  CASE k = "XCPU" -> "SIGXCPU"
    [] k = "SEGV" -> "SIGSEGV"
    [] k = "CLONE" /\ ~cfg.AllowMultiThreading -> "CloneForbidden"
    [] k = "FORK" /\ ~cfg.AllowCreateProcesses -> "SpawnForbidden"
    [] OTHER -> NoErr

Enforcers_BothLimits ==
  (IF cfg.RealTimeLimit > 0 THEN {"timer"} ELSE {})
  \cup (IF cfg.CPUTimeLimit > 0 /\ cfg.MemoryLimit > 0 THEN {"limiter"} ELSE {})

EndsRun_OnlyByExit(p) == p = Tracee /\ Final(p).kind = "EXITED"
Continue_Missing == pc' = "resume" /\ UNCHANGED ret
VerdictCode_ErrorIgnored(c, e) == IF cfg.PropagateExitCode /\ c > 0 THEN c ELSE 0
Add_Forgotten == UNCHANGED wg
Done_Forgotten == UNCHANGED wg
KillTargets_Leader == {Tracee}

Join_JudgesAgain ==
  /\ pc = "join"
  /\ wg = 0
  /\ pc' = "returned"
  /\ ret' = IF errc = NoErr THEN ret ELSE Result(TracerErrorCode(errc), errc)
  /\ UNCHANGED <<cfg, iterations, current, stopc, errc, wg, go, reason, kernelVars>>

ExitTracer_NoNamespace ==
  /\ pc = "returned"
  /\ pc' = "exited"
  /\ UNCHANGED <<cfg, iterations, current, ret, stopc, errc, wg, go, reason, kernelVars>>

-----------------------------------------------------------------------------
(* Verdicts on what wait4 returned.                                        *)

\* The limit checks: a negative limit is no limit, reaching it is exceeding it.
Exceeds(value, limit) == limit >= 0 /\ value >= limit

\* What the loop's two checks say of the thread wait4 returned: wait4 reports
\* what its process used.
LimitError(p) ==
  IF Exceeds(rss[leader[p]], cfg.MemoryLimit) THEN "MemoryLimit"
  ELSE IF Exceeds(cpu[leader[p]], cfg.CPUTimeLimit) THEN "CPUTimeLimit"
  ELSE NoErr

\* What the loop says of a stop it does not tolerate.
StopError(k) ==
  CASE k = "XCPU" -> "SIGXCPU"
    [] k = "SEGV" -> "SIGSEGV"
    [] k = "CLONE" /\ ~cfg.AllowMultiThreading -> "CloneForbidden"
    [] k \in {"FORK", "EXEC"} /\ ~cfg.AllowCreateProcesses -> "SpawnForbidden"
    [] OTHER -> NoErr

-----------------------------------------------------------------------------
RunTypeOK ==
  /\ cfg \in Configs
  /\ pc \in {"launch", "wait", "options", "loop", "resume", "verdict",
             "close", "join", "returned", "exited"}
  /\ iterations \in Nat
  /\ current \in Procs
  /\ ret \in [code : Int, err : {NoErr} \cup TracerErrors \cup PlainErrors]
  /\ stopc \in BOOLEAN
  /\ errc \in {NoErr} \cup TracerErrors
  /\ wg \in 0..2
  /\ go \in [Goroutines -> {"off", "ready", "waiting", "memory",
                            "kill", "killgroup", "report", "finished"}]
  /\ reason \in [Goroutines -> {NoErr} \cup TracerErrors]

\* Every variable has the type the code gives it; in particular the counter
\* of the WaitGroup never goes negative, which would panic.
TypeOK == KernelTypeOK /\ RunTypeOK

Init ==
  /\ KernelInit
  /\ cfg \in Configs
  /\ pc = "launch"
  /\ iterations = 0
  /\ current = Tracee
  /\ ret = Result(0, NoErr)
  /\ stopc = FALSE
  /\ errc = NoErr
  /\ wg = 0
  /\ go = [g \in Goroutines |-> "off"]
  /\ reason = [g \in Goroutines |-> NoErr]

-----------------------------------------------------------------------------
(* Run: from StartProcess to the first wait.                               *)

\* An early return: neither stopc is closed nor the goroutines waited for.
ReturnEarly(e) ==
  /\ pc' = "returned"
  /\ ret' = Result(-1, e)

\* os.StartProcess fails, or Getpgid or setAffinity when the tracee exists.
LaunchFails ==
  /\ pc = "launch"
  /\ UNCHANGED kernelVars \/ StartTracee
  /\ ReturnEarly("Start")
  /\ UNCHANGED <<cfg, iterations, current, stopc, errc, wg, go, reason>>

\* The goroutines of the limits in force.
Enforcers ==
  (IF cfg.RealTimeLimit > 0 THEN {"timer"} ELSE {})
  \cup (IF cfg.CPUTimeLimit > 0 \/ cfg.MemoryLimit > 0 THEN {"limiter"} ELSE {})

\* Start the tracee and those goroutines.
Launch ==
  /\ pc = "launch"
  /\ StartTracee
  /\ go' = [g \in Goroutines |-> IF g \in Enforcers THEN "ready" ELSE "off"]
  /\ pc' = "wait"
  /\ UNCHANGED <<cfg, iterations, current, ret, stopc, errc, wg, reason>>

\* wait(pid) returns: the stop of a fresh tracee, or its death if it was
\* killed meanwhile, which is returned as exit code -1 without an error.  (It
\* cannot have exited: it never ran.)
FirstWait ==
  /\ pc = "wait"
  /\ Collect(Tracee)
  /\ IF st[Tracee] = "dead"
       THEN ReturnEarly(NoErr)
     ELSE IF cfg.AllowCreateProcesses /\ cfg.AllowMultiThreading
       THEN ReturnEarly("NoPtrace")
     ELSE pc' = "options" /\ UNCHANGED ret
  /\ UNCHANGED <<cfg, iterations, current, stopc, errc, wg, go, reason>>

-----------------------------------------------------------------------------
(* trace: the ptrace loop.                                                 *)

\* trace returns code c and error e to Run.
TraceReturns(c, e) ==
  /\ pc' = "verdict"
  /\ ret' = Result(c, e)

\* Set the options and restart the tracee for the first time.
BeginTrace ==
  /\ pc = "options"
  /\ Restart(Tracee)
  /\ opts' = TRUE
  /\ pc' = "loop"
  /\ UNCHANGED <<cfg, iterations, current, ret, stopc, errc, wg, go, reason>>

\* Restart the process of this iteration.
Resume ==
  /\ pc = "resume"
  /\ Restart(current)
  /\ pc' = "loop"
  /\ UNCHANGED <<cfg, iterations, current, ret, stopc, errc, wg, go, reason, opts>>

\* After wait4 returned it the thread was killed, or ended by another thread of
\* its process: ptrace fails with ESRCH.
PtraceFails ==
  /\ \/ pc = "options" /\ ~Stopped(Tracee)
     \/ pc = "resume" /\ ~Stopped(current)
  /\ TraceReturns(-1, "Ptrace")
  /\ UNCHANGED <<cfg, iterations, current, stopc, errc, wg, go, reason, kernelVars>>

\* The loop counts; the count is kept only when it is compared with a limit.
LastIteration ==
  cfg.MaxPtraceIterations >= 0 /\ iterations + 1 > cfg.MaxPtraceIterations

OutOfIterations ==
  /\ pc = "loop"
  /\ LastIteration
  /\ TraceReturns(-1, "Iterations")
  /\ UNCHANGED <<cfg, iterations, current, stopc, errc, wg, go, reason, kernelVars>>

\* Wait4(-1, ...) returns process p and its resource usage.
Wait4(p) ==
  /\ pc = "loop"
  /\ ~LastIteration
  /\ Collect(p)
  /\ iterations' = IF cfg.MaxPtraceIterations >= 0 THEN iterations + 1
                   ELSE iterations
  /\ UNCHANGED <<cfg, stopc, errc, wg, go, reason>>

\* The limits are checked before anything else is read off the status.
WaitOverLimit(p) ==
  /\ Wait4(p)
  /\ LimitError(p) # NoErr
  /\ TraceReturns(-1, LimitError(p))
  /\ UNCHANGED current

\* The process whose end is the end of the run.
EndsRun(p) == p = Tracee

\* A child that is gone does not end the run, and is not restarted.
Continue == UNCHANGED <<pc, ret>>

WaitGone(p) ==
  /\ Wait4(p)
  /\ LimitError(p) = NoErr
  /\ st[p] = "dead"
  /\ current' = p
  /\ IF ~EndsRun(p)
       THEN Continue
     ELSE IF Final(p).kind = "EXITED"
       THEN TraceReturns(Final(p).code, NoErr)
     ELSE TraceReturns(-1, "TraceeSignaled")

\* p stopped: at something forbidden, or at something to restart it from.
WaitStopped(p) ==
  /\ Wait4(p)
  /\ LimitError(p) = NoErr
  /\ st[p] = "pending"
  /\ current' = p
  /\ IF StopError(status[p].kind) # NoErr
       THEN TraceReturns(-1, StopError(status[p].kind))
     ELSE pc' = "resume" /\ UNCHANGED ret

TraceLoop(p) == WaitOverLimit(p) \/ WaitGone(p) \/ WaitStopped(p)

-----------------------------------------------------------------------------
(* Run: from the end of trace to the end of the process.                   *)

\* The exit code for what trace returned, c, and the error that holds, e.
VerdictCode(c, e) ==
  LET code == IF e = NoErr THEN IF cfg.PropagateExitCode THEN c ELSE 0
              ELSE IF e \in TracerErrors THEN TracerErrorCode(e)
              ELSE c
  IN  IF code < 0 THEN 1 ELSE code

\* A reason in errc replaces the error trace returned.
Verdict ==
  /\ pc = "verdict"
  /\ LET e == IF errc # NoErr THEN errc ELSE ret.err
     IN  ret' = Result(VerdictCode(ret.code, e), e)
  /\ errc' = NoErr
  /\ pc' = "close"
  /\ UNCHANGED <<cfg, iterations, current, stopc, wg, go, reason, kernelVars>>

CloseStopc ==
  /\ pc = "close"
  /\ stopc' = TRUE
  /\ pc' = "join"
  /\ UNCHANGED <<cfg, iterations, current, ret, errc, wg, go, reason, kernelVars>>

\* wg.Wait: a goroutine that has not begun is not counted yet.
Join ==
  /\ pc = "join"
  /\ wg = 0
  /\ pc' = "returned"
  /\ UNCHANGED <<cfg, iterations, current, ret, stopc, errc, wg, go, reason, kernelVars>>

\* os.Exit(exitCode): the tracer is the init process of its PID namespace, so
\* the kernel kills every process in it.
ExitTracer ==
  /\ pc = "returned"
  /\ pc' = "exited"
  /\ st' = [p \in Procs |-> IF st[p] = "unborn" THEN "unborn" ELSE "reaped"]
  /\ UNCHANGED <<cfg, iterations, current, ret, stopc, errc, wg, go, reason,
                 status, fate, treeVars, opts>>

\* What the parent process sees of the tracer.
ExitStatus == ret.code % 256

MainStep ==
  \/ LaunchFails \/ Launch \/ FirstWait \/ BeginTrace \/ Resume \/ PtraceFails
  \/ OutOfIterations \/ Verdict \/ CloseStopc \/ Join \/ ExitTracer

-----------------------------------------------------------------------------
(* The goroutines.                                                         *)

\* No thread outlives os.Exit.
Alive == pc # "exited"

Move(g, from, to) ==
  /\ Alive
  /\ go[g] = from
  /\ go' = [go EXCEPT ![g] = to]

Add  == wg' = wg + 1
Done == wg' = wg - 1

\* wg.Add(1) happens in the goroutine, after Run may already be waiting.
Begin(g) ==
  /\ Move(g, "ready", "waiting")
  /\ Add
  /\ UNCHANGED <<cfg, pc, iterations, current, ret, stopc, errc, reason, kernelVars>>

\* The select takes <-stopc.
Quit(g) ==
  /\ stopc
  /\ Move(g, "waiting", "finished")
  /\ Done
  /\ UNCHANGED <<cfg, pc, iterations, current, ret, stopc, errc, reason, kernelVars>>

\* g calls kill with reason e.
Blame(g, e) ==
  /\ go' = [go EXCEPT ![g] = "kill"]
  /\ reason' = [reason EXCEPT ![g] = e]

\* The select takes the timer; it may, even when stopc is closed too.
TimeIsUp ==
  /\ Alive
  /\ go["timer"] = "waiting"
  /\ Blame("timer", "RealTimeLimit")
  /\ UNCHANGED <<cfg, pc, iterations, current, ret, stopc, errc, wg, kernelVars>>

\* /proc/<pid> is the tracee's only in the namespace's own /proc, which the
\* tracer mounts in a root filesystem.  In the /proc of the host that number is
\* some other process, or none.
OwnProc == cfg.RootFS

\* The select takes a tick: read the CPU time, in clock ticks, and compare it
\* with the limit.  A reaped process has no /proc entry.
CheckCPUTime ==
  /\ Alive
  /\ go["limiter"] = "waiting"
  /\ \/ /\ OwnProc => st[Tracee] = "reaped"
        /\ Blame("limiter", "statUnreadable")
     \/ /\ OwnProc => st[Tracee] # "reaped"
        /\ \E used \in IF OwnProc THEN {cpu[Tracee]} ELSE 0..MaxCpu :
             IF Exceeds(used \div TickMs, cfg.CPUTimeLimit)
               THEN Blame("limiter", "checkedCPUTime")
             ELSE Move("limiter", "waiting", "memory") /\ UNCHANGED reason
  /\ UNCHANGED <<cfg, pc, iterations, current, ret, stopc, errc, wg, kernelVars>>

\* Then read the memory peak, which is of the address space and so at least
\* the resident peak.  A zombie has no memory lines, even if it is the leader of
\* threads that run on: the read fails.
CheckMemory ==
  /\ Alive
  /\ go["limiter"] = "memory"
  /\ \/ /\ OwnProc => st[Tracee] \in {"dead", "reaped"}
        /\ Blame("limiter", "statUnreadable")
     \/ /\ OwnProc => st[Tracee] \notin {"dead", "reaped"}
        /\ \E peak \in (IF OwnProc THEN rss[Tracee] ELSE 0)..MaxRss :
             IF Exceeds(peak, cfg.MemoryLimit)
               THEN Blame("limiter", "checkedMemory")
             ELSE Move("limiter", "memory", "waiting") /\ UNCHANGED reason
  /\ UNCHANGED <<cfg, pc, iterations, current, ret, stopc, errc, wg, kernelVars>>

\* kill(-pgid) reaches the tracee's process group.
KillTargets == group

\* kill, in three steps: the process, its group, the reason.
KillProcess(g) ==
  /\ Move(g, "kill", "killgroup")
  /\ KillAll({Tracee})
  /\ UNCHANGED <<cfg, pc, iterations, current, ret, stopc, errc, wg, reason>>

KillGroup(g) ==
  /\ Move(g, "killgroup", "report")
  /\ KillAll(KillTargets)
  /\ UNCHANGED <<cfg, pc, iterations, current, ret, stopc, errc, wg, reason>>

\* The reason is dropped when errc is full; the goroutine ends.
Report(g) ==
  /\ Move(g, "report", "finished")
  /\ errc' = IF errc = NoErr THEN reason[g] ELSE errc
  /\ Done
  /\ UNCHANGED <<cfg, pc, iterations, current, ret, stopc, reason, kernelVars>>

GoStep(g) == Begin(g) \/ Quit(g) \/ KillProcess(g) \/ KillGroup(g) \/ Report(g)
LimitStep == TimeIsUp \/ CheckCPUTime \/ CheckMemory

-----------------------------------------------------------------------------
\* The process is gone: nothing moves any more.
Terminated == pc = "exited" /\ UNCHANGED vars

Next ==
  \/ MainStep
  \/ \E p \in Procs : TraceLoop(p)
  \/ \E g \in Goroutines : GoStep(g)
  \/ LimitStep
  \/ \E p \in Procs : ProcessStep(p) /\ UNCHANGED runVars
  \/ Terminated

\* Threads are scheduled, time passes, the kernel completes what it began.
\* wait4 scans the tracer's children oldest first, and the tracee is the
\* oldest: it cannot be passed over for ever.  A closed stopc stays ready and
\* ticks are rare: a select cannot prefer the tick to it for ever.
Fairness ==
  /\ WF_vars(MainStep)
  /\ WF_vars(\E p \in Procs : TraceLoop(p))
  /\ SF_vars(TraceLoop(Tracee))
  /\ \A g \in Goroutines : /\ WF_vars(GoStep(g))
                           /\ SF_vars(Quit(g))
  /\ WF_vars(TimeIsUp)
  /\ WF_vars(CheckCPUTime \/ CheckMemory)
  /\ \A p \in Procs : WF_vars((ForkStop(p) \/ EndExec(p) \/ Die(p)) /\ UNCHANGED runVars)

Spec == Init /\ [][Next]_vars
FairSpec == Spec /\ Fairness
-----------------------------------------------------------------------------
(* Safety.                                                                 *)

\* What the configuration lets a process of the tree do.
Permitted == (IF cfg.AllowCreateProcesses THEN {"FORK", "EXEC"} ELSE {})
             \cup (IF cfg.AllowMultiThreading THEN {"CLONE"} ELSE {})

\* The loop ended because the tracee exited, and no reason replaced that.
Clean == pc \in {"close", "join", "returned", "exited"} /\ ret.err = NoErr /\ ret.code >= 0

\* Exit status 0 is reported only for a tracee that ended by its own exit --
\* never for one that was killed, denied something or lost by the tracer --
\* and, with -x, only for one that exited with 0 (runner.go:157-183).
SuccessIsGenuine ==
  pc = "exited" /\ ExitStatus = 0 =>
    /\ status[Tracee].kind = "EXITED"
    /\ ret.err = NoErr
    /\ cfg.PropagateExitCode => status[Tracee].code = 0

\* A run without error stayed within its limits: the usage that comes with
\* the tracee's exit status is checked too, before the status is looked at
\* (runner.go:375-397 before 414-427).
CleanWithinLimits ==
  Clean => /\ cfg.MemoryLimit >= 0 => rss[Tracee] < cfg.MemoryLimit
           /\ cfg.CPUTimeLimit >= 0 => cpu[Tracee] < cfg.CPUTimeLimit

\* Once a thread did something forbidden it never executes again, whichever of
\* its stop and its child's stop the loop collects first (runner.go:439-475
\* against 485).  The exception: execve of another thread puts a new stop in
\* the place of the one the loop has just collected, and restarts from it.
ForbiddenIsTheEnd ==
  \A p \in Procs : st[p] = "running" =>
    did[p] \subseteq Permitted \cup (IF Threaded(p) THEN {"EXEC"} ELSE {})

\* A run without error means that the tracee did nothing forbidden: no fork,
\* exec or clone event of it can be overtaken by its exit status, unless
\* another thread of it ends it before the event is seen.
CleanMeansPermitted ==
  Clean => did[Tracee] \subseteq Permitted \/ Threaded(Tracee)

\* A limit is blamed only if it is in force and was reached: by some process
\* for the loop's verdicts, by time for the timer's.  With --rootfs the same
\* holds of /proc, which can fail the goroutine only once the tracee's first
\* thread has ended (runner.go:193-257, 375-397); without, it says nothing of
\* the tracee (main.go:62-83, 159-165).
BlameIsJustified ==
  pc \in {"close", "join", "returned", "exited"} =>
    /\ ret.err = "MemoryLimit" => \E p \in Procs : Exceeds(rss[p], cfg.MemoryLimit)
    /\ ret.err = "CPUTimeLimit" => \E p \in Procs : Exceeds(cpu[p], cfg.CPUTimeLimit)
    /\ ret.err = "RealTimeLimit" => cfg.RealTimeLimit > 0 /\ go["timer"] \in {"report", "finished"}
    /\ ret.err \in {"checkedCPUTime", "checkedMemory", "statUnreadable"} =>
         cfg.CPUTimeLimit > 0 \/ cfg.MemoryLimit > 0
    /\ OwnProc =>
         /\ ret.err = "checkedCPUTime" => Exceeds(cpu[Tracee] \div TickMs, cfg.CPUTimeLimit)
         /\ ret.err = "statUnreadable" =>
              st[Tracee] \in {"dead", "reaped"} \/ Threaded(Tracee)

\* While the loop waits, the tracee has not been reaped: wait4 has a child to
\* wait for and cannot fail with ECHILD (runner.go:370-373).
LoopHasTracee == pc \in {"loop", "resume"} => st[Tracee] \notin {"unborn", "reaped"}

\* Once kill has sent both signals no thread of the tracee executes again, nor
\* one of any process that has always been in its group: none of them can fork
\* a survivor or be restarted (runner.go:35-42).
KilledGroupIsStill ==
  \A g \in Goroutines : go[g] = "report" =>
    \A p \in Procs : leader[p] \in (group \ strayed) \cup {Tracee} =>
      st[p] \notin {"running", "forking", "execing"}

\* The tracer does not break its own run: unless something was killed behind
\* its back, or ended by another thread of its process, it restarts only what
\* is stopped, in whatever order stops, exits and new children reach it
\* (runner.go:485-488).
PtraceFailsOnlyAfterKill ==
  ret.err = "Ptrace" =>
    ExternalKills \/ (\E g \in Goroutines : reason[g] # NoErr) \/ Threaded(current)

-----------------------------------------------------------------------------
(* Liveness, under Fairness.                                               *)

\* With a real time limit every run that got as far as its first wait ends,
\* whatever the tracee does or fails to do.
TimeLimitEndsRun == (pc = "wait" /\ cfg.RealTimeLimit > 0) ~> (pc = "exited")

\* With --rootfs, a tracee that has used the CPU limit, in the unit /proc counts
\* in, does not keep the run going, even if it never stops at a system call again.
CpuLimitEndsRun ==
  (/\ OwnProc
   /\ cfg.CPUTimeLimit > 0
   /\ Exceeds(cpu[Tracee] \div TickMs, cfg.CPUTimeLimit)) ~> (pc = "exited")

\* Once all threads of the tracee are gone, or its only one has done something
\* forbidden, the run ends: neither what other processes do nor the goroutines
\* can keep Run from returning.
TraceeEndsRun ==
  (\/ st[Tracee] = "dead" /\ Waitable(Tracee)
   \/ ~(did[Tracee] \subseteq Permitted) /\ ~Threaded(Tracee)) ~> (pc = "exited")

-----------------------------------------------------------------------------
(* The abstract specification of a run.                                    *)

\* What the tracee must not do: something not permitted while it is a single
\* thread, reach a limit the loop checks, be killed.
Faulty ==
  /\ st[Tracee] # "unborn"
  /\ \/ ~(did[Tracee] \subseteq Permitted) /\ ~Threaded(Tracee)
     \/ LimitError(Tracee) # NoErr
     \/ fate[Tracee] = Signaled

Judged == pc \in {"close", "join", "returned", "exited"}
Outcome == IF Clean THEN "clean" ELSE IF Judged THEN "error" ELSE "none"
Inhabited == \E p \in Procs : st[p] \notin {"unborn", "reaped"}
Reported == IF pc = "exited" THEN ExitStatus ELSE -1

Contract == INSTANCE RunContract WITH
  verdict <- Outcome, faulty <- Faulty, alive <- Inhabited, report <- Reported

\* The run keeps its contract, whichever of its three threads and of the
\* tracee's processes moves first: the verdict never changes once Run has
\* decided it, a clean one is never overtaken by a rule broken later, and
\* status 0 stands for it alone (runner.go:157-189, main.go:101-108).
KeepsContract == Contract!Spec

-----------------------------------------------------------------------------
(* What the code says of itself and does not do.                           *)

\* runner.go:20: exceeding the real time limit has exit code 2.  (No other
\* source of SIGKILL: the timer killed the tracee.)
TimeoutHasItsCode ==
  pc = "exited" /\ status[Tracee].kind = "SIGNALED" /\ ~ExternalKills
    /\ go["limiter"] = "off" => ExitStatus = 2

\* config.go:21: the CPU limit is in milliseconds, so a check that lets the
\* tracee go on saw it below that many milliseconds.
CpuCheckIsInMilliseconds ==
  [][go["limiter"] = "waiting" /\ go'["limiter"] = "memory"
       => ~Exceeds(cpu[Tracee], cfg.CPUTimeLimit)]_vars
=============================================================================

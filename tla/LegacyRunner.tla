---------------------------- MODULE LegacyRunner ----------------------------
(***************************************************************************)
(* runner.RunProcess, the runner without namespaces: its ptrace loop, the  *)
(* goroutines that watch the clock and the usage of the tracee and end the *)
(* program by themselves (checkError), and the two that copy its output.   *)
(*                                                                         *)
(* Nothing in the repository calls RunProcess any more.  Its caller is     *)
(* taken to have locked the OS thread, as main does (main.go:112), and to  *)
(* exit once RunProcess has returned.                                      *)
(***************************************************************************)
EXTENDS Kernel, Sequences, FiniteSets

CONSTANTS
  Configs,   \* the configurations to run under
  Pipes,     \* stdout and stderr of the tracee
  MaxLines   \* bound on the lines a pipe holds

Config ==
  [AllowCreateProcesses : BOOLEAN,
   MultiThreadedProcess : BOOLEAN,
   TimeLimit            : Nat,   \* 0: no limit
   MemoryLimit          : Nat,   \* 0: no limit
   IdleLimit            : Nat,   \* in ticks of a second; 0: no limit
   StoreFile            : BOOLEAN]

ASSUME LegacyAssumption ==
  /\ Configs \subseteq Config
  /\ IsFiniteSet(Pipes) /\ Pipes # {}
  /\ MaxLines \in Nat

\* The goroutines that may kill the tracee and end the program.
Watchers == {"time", "usage"}

VARIABLES
  cfg,      \* the configuration
  pc,       \* where RunProcess is
  waitPid,  \* the process wait4 returned last
  ret,      \* what RunProcess returns, or what a goroutine ends the program with
  watch,    \* where each watcher is
  cause,    \* why each watcher ends the program
  idle,     \* idle ticks in a row
  ptB,      \* the CPU time of the tracee at the last tick
  reader,   \* where fromPipe is, for each pipe
  pipe,     \* what was written and not yet read
  open      \* does a process hold the pipes' write ends?

legacyVars == <<cfg, pc, waitPid, ret, watch, cause, idle, ptB, reader, pipe, open>>
vars == <<legacyVars, kernelVars>>

NoErr == "none"
Errors == {"setup", "start", "wait4", "clone", "spawn", "segv", "abort"}
Causes == {"time", "idle", "memory", "store", "gone"}
Result(c, e) == [code |-> c, err |-> e]

Alive == pc # "exited"

\* wg: the readers that have not called Done.
wg == Cardinality({f \in Pipes : reader[f] # "done"})

\* A pipe is at its end when nobody holds it for writing: cmd.Start closes the
\* program's own end.
Holds(p) == open[leader[p]] /\ st[p] \notin {"unborn", "dead", "reaped"}
AtEnd(f) == st[Tracee] # "unborn" /\ pipe[f] = <<>> /\ \A p \in Procs : ~Holds(p)

TypeOK ==
  /\ KernelTypeOK
  /\ cfg \in Configs
  /\ pc \in {"start", "started", "wait", "cont", "loop", "join", "defer",
             "returned", "exited"}
  /\ waitPid \in Procs
  /\ ret \in [code : -1..255, err : {NoErr} \cup Errors]
  /\ watch \in [Watchers -> {"off", "ready", "sample", "watching", "kill", "exit", "finished"}]
  /\ cause \in [Watchers -> {NoErr} \cup Causes]
  /\ idle \in 0..cfg.IdleLimit
  /\ ptB \in 0..MaxCpu
  /\ reader \in [Pipes -> {"reading", "done"}]
  /\ pipe \in [Pipes -> Seq({"line", "long"})]
  /\ \A f \in Pipes : Len(pipe[f]) <= MaxLines
  /\ open \in [Procs -> BOOLEAN]

Init ==
  /\ KernelInit
  /\ cfg \in Configs
  /\ pc = "start"
  /\ waitPid = Tracee
  /\ ret = Result(0, NoErr)
  /\ watch = [g \in Watchers |-> "off"]
  /\ cause = [g \in Watchers |-> NoErr]
  /\ idle = 0
  /\ ptB = 0
  /\ reader = [f \in Pipes |-> "reading"]
  /\ pipe = [f \in Pipes |-> <<>>]
  /\ open = [p \in Procs |-> p = Tracee]

-----------------------------------------------------------------------------
(* Defects: one plausible mistake each in the definition named before the  *)
(* underscore.  No action uses them; they show what the properties notice. *)

StopError_OnlyFork(k) ==
  CASE k = "SEGV" -> "segv"
    [] k = "CLONE" /\ ~cfg.AllowCreateProcesses /\ ~cfg.MultiThreadedProcess -> "clone"
    [] k = "FORK" /\ ~cfg.AllowCreateProcesses -> "spawn"
    [] OTHER -> NoErr

OutputCopied_NotAwaited == TRUE
IdleReached_Strictly(count) == cfg.IdleLimit > 0 /\ count > cfg.IdleLimit
OverMemory_NoGuard(size) == size > cfg.MemoryLimit
IdleAfter_Decreasing(busy) == IF busy \/ idle = 0 THEN 0 ELSE idle - 1
Timed_IfAlsoIdle == cfg.TimeLimit > 0 /\ cfg.IdleLimit > 0
Unreadable_KeepsTicking == FALSE

Defer_NoKill ==
  /\ pc = "defer"
  /\ pc' = "returned"
  /\ UNCHANGED <<cfg, waitPid, ret, watch, cause, idle, ptB, reader, pipe, open, kernelVars>>

-----------------------------------------------------------------------------
(* What the configuration forbids.                                         *)

\* The error a stop of kind k is to the loop.  With -Xacp only a segmentation
\* fault is one.
StopError(k) ==
  CASE k = "SEGV" -> "segv"
    [] k = "CLONE" /\ ~cfg.AllowCreateProcesses /\ ~cfg.MultiThreadedProcess -> "clone"
    [] k \in {"FORK", "EXEC"} /\ ~cfg.AllowCreateProcesses -> "spawn"
    [] OTHER -> NoErr

-----------------------------------------------------------------------------
(* RunProcess.                                                             *)

Return(c, e) ==
  /\ pc' = "defer"
  /\ ret' = Result(c, e)

\* Anything up to and including cmd.Start fails.
SetupFails ==
  /\ pc = "start"
  /\ pc' = "returned"
  /\ \E e \in {"setup", "start"} : ret' = Result(-1, e)
  /\ UNCHANGED <<cfg, waitPid, watch, cause, idle, ptB, reader, pipe, open, kernelVars>>

Start ==
  /\ pc = "start"
  /\ StartTracee
  /\ pc' = "started"
  /\ UNCHANGED <<cfg, waitPid, ret, watch, cause, idle, ptB, reader, pipe, open>>

\* SetAffinity fails, with code 0, or the statistics file cannot be opened.
PrepareFails ==
  /\ pc = "started"
  /\ \E c \in {0, -1} : Return(c, "setup")
  /\ UNCHANGED <<cfg, waitPid, watch, cause, idle, ptB, reader, pipe, open, kernelVars>>

Timed == cfg.TimeLimit > 0

StartWatchers ==
  /\ pc = "started"
  /\ watch' = [g \in Watchers |-> IF g = "usage" THEN "ready"
                                  ELSE IF Timed THEN "watching"
                                  ELSE "off"]
  /\ pc' = "wait"
  /\ UNCHANGED <<cfg, waitPid, ret, cause, idle, ptB, reader, pipe, open, kernelVars>>

\* The first wait4 returns the tracee; its status is not looked at.
FirstWait ==
  /\ pc = "wait"
  /\ Collect(Tracee)
  /\ pc' = "cont"
  /\ UNCHANGED <<cfg, waitPid, ret, watch, cause, idle, ptB, reader, pipe, open>>

\* PtraceSetOptions and PtraceCont on whatever was waited for: what they
\* return is not looked at.
Continue ==
  /\ pc = "cont"
  /\ IF Stopped(waitPid)
       THEN Restart(waitPid) /\ opts' = TRUE
     ELSE UNCHANGED kernelVars
  /\ pc' = "loop"
  /\ UNCHANGED <<cfg, waitPid, ret, watch, cause, idle, ptB, reader, pipe, open>>

\* Wait4(-1, ...) returns p.
Wait(p) ==
  /\ pc = "loop"
  /\ Collect(p)
  /\ UNCHANGED <<cfg, watch, cause, idle, ptB, reader, pipe, open>>

\* The exit of the tracee is the end of the loop; only that.
WaitTraceeExited ==
  /\ Wait(Tracee)
  /\ st[Tracee] = "dead"
  /\ Final(Tracee).kind = "EXITED"
  /\ pc' = "join"
  /\ ret' = Result(Final(Tracee).code, NoErr)
  /\ UNCHANGED waitPid

\* Any other end, that of a tracee killed by a signal included.
WaitGone(p) ==
  /\ Wait(p)
  /\ st[p] = "dead"
  /\ p # Tracee \/ Final(p).kind = "SIGNALED"
  /\ waitPid' = p
  /\ pc' = "cont"
  /\ UNCHANGED ret

WaitStopped(p) ==
  /\ Wait(p)
  /\ st[p] = "pending"
  /\ waitPid' = p
  /\ IF StopError(status[p].kind) # NoErr
       THEN Return(-1, StopError(status[p].kind))
     ELSE pc' = "cont" /\ UNCHANGED ret

\* ECHILD.
WaitNobody ==
  /\ pc = "loop"
  /\ \A p \in Procs : st[p] \in {"unborn", "reaped"}
  /\ Return(-1, "wait4")
  /\ UNCHANGED <<cfg, waitPid, watch, cause, idle, ptB, reader, pipe, open, kernelVars>>

\* wg.Wait: both readers have called Done.
OutputCopied == \A f \in Pipes : reader[f] = "done"

Join ==
  /\ pc = "join"
  /\ OutputCopied
  /\ pc' = "defer"
  /\ UNCHANGED <<cfg, waitPid, ret, watch, cause, idle, ptB, reader, pipe, open, kernelVars>>

\* The deferred Kill.
Defer ==
  /\ pc = "defer"
  /\ KillAll({Tracee})
  /\ pc' = "returned"
  /\ UNCHANGED <<cfg, waitPid, ret, watch, cause, idle, ptB, reader, pipe, open>>

\* Pdeathsig: who is killed when the program ends.  Fork clears it for others;
\* the tracee may have cleared its own (prctl).
DeathSignals == {{Tracee}, {}}

\* The program ends: its tracees are let go.
EndProgram ==
  /\ \E S \in DeathSignals : LetGo(S)
  /\ pc' = "exited"

CallerExits ==
  /\ pc = "returned"
  /\ EndProgram
  /\ UNCHANGED <<cfg, waitPid, ret, watch, cause, idle, ptB, reader, pipe, open>>

MainStep ==
  \/ SetupFails \/ Start \/ PrepareFails \/ StartWatchers \/ FirstWait \/ Continue
  \/ WaitTraceeExited \/ WaitNobody \/ Join \/ Defer \/ CallerExits
  \/ \E p \in Procs : WaitGone(p) \/ WaitStopped(p)

-----------------------------------------------------------------------------
(* The watchers: the timer and measureUsage.                               *)

\* checkError with an error: g is about to kill the tracee and end the program.
Blame(g, e) ==
  /\ watch' = [watch EXCEPT ![g] = "kill"]
  /\ cause' = [cause EXCEPT ![g] = e]

Advance(g, from, to) ==
  /\ Alive
  /\ watch[g] = from
  /\ watch' = [watch EXCEPT ![g] = to]

TimeIsUp ==
  /\ Alive
  /\ watch["time"] = "watching"
  /\ Blame("time", "time")
  /\ UNCHANGED <<cfg, pc, waitPid, ret, idle, ptB, reader, pipe, open, kernelVars>>

\* A reaped process has no /proc entry; a zombie still has one.
Unreadable == st[Tracee] = "reaped"

\* The process may have ended before its usage is first looked at.
BeginUsage ==
  /\ Advance("usage", "ready", IF st[Tracee] = "reaped" THEN "finished" ELSE "sample")
  /\ UNCHANGED <<cfg, pc, waitPid, ret, cause, idle, ptB, reader, pipe, open, kernelVars>>

FirstSample ==
  /\ Alive
  /\ watch["usage"] = "sample"
  /\ IF Unreadable
       THEN Blame("usage", "gone") /\ UNCHANGED ptB
     ELSE Advance("usage", "sample", "watching") /\ ptB' = cpu[Tracee] /\ UNCHANGED cause
  /\ UNCHANGED <<cfg, pc, waitPid, ret, idle, reader, pipe, open, kernelVars>>

\* The idle counter after a tick.
IdleAfter(busy) == IF busy THEN 0 ELSE idle + 1
IdleReached(count) == cfg.IdleLimit > 0 /\ count >= cfg.IdleLimit

\* Memory is the size of the address space, which grows and shrinks, and is
\* nothing once the tracee is dead.
OverMemory(size) == cfg.MemoryLimit > 0 /\ size > cfg.MemoryLimit

\* One tick.  A tracee that used no CPU since the last one is under any
\* required load; one that used some may be under it or not.
Tick ==
  /\ Alive
  /\ watch["usage"] = "watching"
  /\ IF Unreadable
       THEN Blame("usage", "gone") /\ UNCHANGED <<idle, ptB>>
     ELSE \E busy \in BOOLEAN, stored \in {TRUE, ~cfg.StoreFile},
            size \in IF st[Tracee] = "dead" THEN {0} ELSE 0..MaxRss :
            LET count == IF cfg.IdleLimit > 0 THEN IdleAfter(busy) ELSE idle
                why == IF ~stored THEN "store"
                       ELSE IF IdleReached(count) THEN "idle"
                       ELSE IF OverMemory(size) THEN "memory"
                       ELSE NoErr
            IN  /\ busy => cpu[Tracee] > ptB
                /\ idle' = count
                /\ IF why # NoErr THEN Blame("usage", why) /\ UNCHANGED ptB
                   ELSE ptB' = cpu[Tracee] /\ UNCHANGED <<watch, cause>>
  /\ UNCHANGED <<cfg, pc, waitPid, ret, reader, pipe, open, kernelVars>>

\* checkError, first half.
KillTracee(g) ==
  /\ Advance(g, "kill", "exit")
  /\ KillAll({Tracee})
  /\ UNCHANGED <<cfg, pc, waitPid, ret, cause, idle, ptB, reader, pipe, open>>

\* checkError, second half: os.Exit(0), whatever RunProcess is doing.
ExitProgram(g) ==
  /\ Advance(g, "exit", "finished")
  /\ EndProgram
  /\ ret' = Result(0, "abort")
  /\ UNCHANGED <<cfg, waitPid, cause, idle, ptB, reader, pipe, open>>

UsageStep == BeginUsage \/ FirstSample \/ Tick
AbortStep(g) == KillTracee(g) \/ ExitProgram(g)

-----------------------------------------------------------------------------
(* fromPipe: it copies line after line to its end.                         *)

ReadLine(f) ==
  /\ Alive
  /\ reader[f] = "reading"
  /\ pipe[f] # <<>> /\ Head(pipe[f]) = "line"
  /\ pipe' = [pipe EXCEPT ![f] = Tail(@)]
  /\ UNCHANGED <<cfg, pc, waitPid, ret, watch, cause, idle, ptB, reader, open, kernelVars>>

ReadEnd(f) ==
  /\ Alive
  /\ reader[f] = "reading"
  /\ AtEnd(f)
  /\ reader' = [reader EXCEPT ![f] = "done"]
  /\ UNCHANGED <<cfg, pc, waitPid, ret, watch, cause, idle, ptB, pipe, open, kernelVars>>

\* A line the scanner's buffer cannot hold ends the program: checkError with
\* no process to kill.
ReadTooLong(f) ==
  /\ Alive
  /\ reader[f] = "reading"
  /\ pipe[f] # <<>> /\ Head(pipe[f]) = "long"
  /\ EndProgram
  /\ ret' = Result(0, "abort")
  /\ UNCHANGED <<cfg, waitPid, watch, cause, idle, ptB, reader, pipe, open>>

\* When cmd.Start fails it closes the pipes the readers read: the read fails.
ReadClosed(f) ==
  /\ pc = "returned"
  /\ ret.err = "start"
  /\ reader[f] = "reading"
  /\ EndProgram
  /\ ret' = Result(0, "abort")
  /\ UNCHANGED <<cfg, waitPid, watch, cause, idle, ptB, reader, pipe, open>>

ReaderStep(f) == ReadLine(f) \/ ReadEnd(f) \/ ReadTooLong(f) \/ ReadClosed(f)

-----------------------------------------------------------------------------
(* The processes.  What becomes of them after the program is not followed. *)

Write(p, f) ==
  /\ Alive
  /\ st[p] = "running"
  /\ open[leader[p]]
  /\ Len(pipe[f]) < MaxLines
  /\ \E l \in {"line", "long"} : pipe' = [pipe EXCEPT ![f] = Append(@, l)]
  /\ UNCHANGED <<cfg, pc, waitPid, ret, watch, cause, idle, ptB, reader, open, kernelVars>>

CloseOutput(p) ==
  /\ Alive
  /\ st[p] = "running"
  /\ open[leader[p]]
  /\ open' = [open EXCEPT ![leader[p]] = FALSE]
  /\ UNCHANGED <<cfg, pc, waitPid, ret, watch, cause, idle, ptB, reader, pipe, kernelVars>>

\* A process inherits the pipes; a thread shares them.
ForkWithOutput(p) ==
  /\ Alive
  /\ \E c \in Procs :
       Fork(p, c) /\ open' = [open EXCEPT ![c] = leader'[c] = c /\ open[leader[p]]]
  /\ UNCHANGED <<cfg, pc, waitPid, ret, watch, cause, idle, ptB, reader, pipe>>

\* RunProcess does not look at process groups, at the CPU time of any process
\* but the tracee, or at resident memory.
OtherStep(p) ==
  /\ Alive
  /\ \/ Interrupt(p) \/ Exec(p) \/ BeginExec(p) \/ EndExec(p)
     \/ Exit(p) \/ ExitGroup(p) \/ ForkStop(p)
     \/ leader[p] = Tracee /\ UseCpu(p)
     \/ Die(p) \/ ExternalKill(p)
  /\ UNCHANGED legacyVars

Finishing(p) == Alive /\ (ForkStop(p) \/ EndExec(p) \/ Die(p)) /\ UNCHANGED legacyVars

-----------------------------------------------------------------------------
Terminated == pc = "exited" /\ UNCHANGED vars

Next ==
  \/ MainStep
  \/ TimeIsUp
  \/ UsageStep
  \/ \E g \in Watchers : AbortStep(g)
  \/ \E f \in Pipes : ReaderStep(f)
  \/ \E p \in Procs : ForkWithOutput(p)
  \/ \E p \in Procs : CloseOutput(p)
  \/ \E p \in Procs, f \in Pipes : Write(p, f)
  \/ \E p \in Procs : OtherStep(p)
  \/ Terminated

\* Goroutines are scheduled, time passes, the kernel completes what it began.
\* Ticks go on; that memory grows or the statistics file fails is not assumed.
Fairness ==
  /\ WF_vars(MainStep)
  /\ WF_vars(TimeIsUp)
  /\ WF_vars(UsageStep /\ cause'["usage"] \notin {"memory", "store"})
  /\ \A g \in Watchers : WF_vars(AbortStep(g))
  /\ \A f \in Pipes : WF_vars(ReaderStep(f))
  /\ \A p \in Procs : WF_vars(Finishing(p))

Spec == Init /\ [][Next]_vars
FairSpec == Spec /\ Fairness

-----------------------------------------------------------------------------
(* Safety.                                                                 *)

\* A run that returns without error ran to the tracee's own exit, returns its
\* code, and has copied all of its output, what descendants wrote into the
\* same pipes included (exec.go:202-209, 297-301).
ReturnIsComplete ==
  ret.err = NoErr /\ pc \in {"defer", "returned", "exited"} =>
    /\ status[Tracee] = Exited(ret.code)
    /\ \A f \in Pipes : pipe[f] = <<>>
    /\ \A p \in Procs : ~(open[leader[p]] /\ st[p] = "running")

\* What the options let a process of the tree do.
Permitted == IF cfg.AllowCreateProcesses THEN {"FORK", "EXEC", "CLONE"}
             ELSE IF cfg.MultiThreadedProcess THEN {"CLONE"} ELSE {}

\* While the program lives, a thread that did something forbidden does not
\* execute again: neither its child's stop nor another thread's, seen first,
\* gets it restarted (exec.go:187-188, 226-247) -- but for an execve that takes
\* the place of the stop the loop is about to restart from.
ForbiddenIsTheEnd ==
  Alive => \A p \in Procs : st[p] = "running" =>
    did[p] \subseteq Permitted \cup (IF Threaded(p) THEN {"EXEC"} ELSE {})

\* A goroutine ends the program only over something in force -- a limit, the
\* statistics file -- or because the tracee is gone, never because it is
\* merely dead and about to be waited for (exec.go:304-384).
AbortIsJustified ==
  \A g \in Watchers :
    CASE cause[g] = "time"   -> cfg.TimeLimit > 0
      [] cause[g] = "idle"   -> cfg.IdleLimit > 0 /\ idle >= cfg.IdleLimit
      [] cause[g] = "memory" -> cfg.MemoryLimit > 0
      [] cause[g] = "store"  -> cfg.StoreFile
      [] cause[g] = "gone"   -> st[Tracee] = "reaped"
      [] OTHER               -> TRUE

\* A reader ended the program: no watcher did, nor did RunProcess return.
EndedByReader ==
  ret.err = "abort" /\ \A g \in Watchers : cause[g] = NoErr \/ watch[g] # "finished"

\* A returning RunProcess and a watcher leave no thread of the tracee behind,
\* even if the tracee gave up its parent-death signal and whatever the loop
\* restarts meanwhile.  (A reader that ends the program over a line that is too
\* long kills nobody: only that signal does.)  exec.go:38-42, 115, 376-404.
TraceeDoesNotSurvive ==
  pc = "exited" /\ ~EndedByReader =>
    \A p \in Procs : leader[p] = Tracee => st[p] \in {"unborn", "dying", "dead", "reaped"}

-----------------------------------------------------------------------------
(* Liveness, under Fairness.                                               *)

\* The time limit ends the program, whatever state tracee, loop, readers and
\* the other goroutine are in.
TimeLimitEndsProgram == (pc = "wait" /\ cfg.TimeLimit > 0) ~> (pc = "exited")

\* A tracee that uses no CPU any more is ended by the idle limit.
IdleLimitEndsProgram ==
  (watch["usage"] = "watching" /\ cfg.IdleLimit > 0 /\ cpu[Tracee] = MaxCpu)
    ~> (pc = "exited")

\* A descendant that holds the output open cannot keep the program alive once
\* usage is measured: the next tick fails to read the tracee's statistics.
\* (If the measuring began after the tracee was reaped, it can.)
UsageEndsProgram ==
  (watch["usage"] = "watching" /\ st[Tracee] = "reaped") ~> (pc = "exited")
=============================================================================

------------------------------- MODULE Kernel -------------------------------
(***************************************************************************)
(* The Linux side of a supervised run: the threads of the tracee's tree as *)
(* wait4(2), ptrace(2), kill(2) and /proc show them to the tracer.  None   *)
(* of this is code of the repository: it is modelled from the calls        *)
(* instance/runner.go and runner/exec.go make and from what those calls    *)
(* distinguish.                                                            *)
(*                                                                         *)
(* A thread is stopped at every event the tracer asked for and stays so    *)
(* until the tracer restarts it.  Stops the tracer treats alike are one    *)
(* kind: "OTHER" stands for system-call stops, VFORK_DONE, the SIGSTOP of  *)
(* a new child and every signal but SIGSEGV and SIGXCPU; "FORK" stands for *)
(* fork and vfork.  A process is a thread group, named by its leader.      *)
(***************************************************************************)
EXTENDS Integers

CONSTANTS
  Procs,         \* threads that may ever exist; bounds the number of forks
  Tracee,        \* the one Run starts
  ExitCodes,     \* exit codes a process may choose
  MaxCpu,        \* bound on the CPU time of a process, in milliseconds
  MaxRss,        \* bound on the memory of a process, in kilobytes
  ExternalKills  \* may something else (OOM killer, a sibling) send SIGKILL?

ASSUME KernelAssumption ==
  /\ Tracee \in Procs
  /\ ExitCodes \subseteq 0..255
  /\ MaxCpu \in Nat
  /\ MaxRss \in Nat
  /\ ExternalKills \in BOOLEAN

VARIABLES
  st,       \* state of each thread
  status,   \* the stop, exit or signal each thread reported last
  leader,   \* the leader of each thread's group
  fate,     \* how a group ends, by exit_group or SIGKILL; none: each thread exits
  cpu,      \* user and system time used by a group, in milliseconds
  rss,      \* its peak resident set, in kilobytes
  did,      \* ghost: which of FORK, CLONE and EXEC each thread performed
  group,    \* the members of the tracee's process group
  strayed,  \* ghost: processes that left it, and their offspring
  opts      \* were the ptrace options set?

treeVars == <<leader, cpu, rss, did, group, strayed>>
kernelVars == <<st, status, fate, treeVars, opts>>

\* "pending": stopped, not yet collected by wait4; "held": stopped and
\* collected; "forking": the child exists, the parent is not yet stopped;
\* "execing": in execve, waiting for the other threads to be gone;
\* "dying": told to end and not yet acting on it; "dead": a zombie.
States    == {"unborn", "running", "forking", "execing", "pending", "held",
              "dying", "dead", "reaped"}
Live      == {"running", "forking", "execing", "pending", "held"}
StopKinds == {"TRAP", "OTHER", "SEGV", "XCPU", "FORK", "CLONE", "EXEC", "EXIT"}
Statuses  == [kind : StopKinds \cup {"NONE", "EXITED", "SIGNALED"}, code : -1..255]

Stop(k)   == [kind |-> k, code |-> -1]
AtExit(c) == [kind |-> "EXIT", code |-> c]
Signaled  == [kind |-> "SIGNALED", code |-> -1]
Exited(c) == [kind |-> "EXITED", code |-> c]
NoFate    == Stop("NONE")

\* What wait4 says of a zombie: the end of its group, or else its own.
Final(p) == IF fate[leader[p]] = NoFate THEN Exited(status[p].code) ELSE fate[leader[p]]

KernelTypeOK ==
  /\ st \in [Procs -> States]
  /\ status \in [Procs -> Statuses]
  /\ leader \in [Procs -> Procs]
  /\ fate \in [Procs -> Statuses]
  /\ cpu \in [Procs -> 0..MaxCpu]
  /\ rss \in [Procs -> 0..MaxRss]
  /\ did \in [Procs -> SUBSET {"FORK", "CLONE", "EXEC"}]
  /\ group \in SUBSET Procs
  /\ strayed \in SUBSET Procs
  /\ opts \in BOOLEAN

KernelInit ==
  /\ st = [p \in Procs |-> "unborn"]
  /\ status = [p \in Procs |-> Stop("NONE")]
  /\ leader = [p \in Procs |-> p]
  /\ fate = [p \in Procs |-> NoFate]
  /\ cpu = [p \in Procs |-> 0]
  /\ rss = [p \in Procs |-> 0]
  /\ did = [p \in Procs |-> {}]
  /\ group = {Tracee}
  /\ strayed = {}
  /\ opts = FALSE

-----------------------------------------------------------------------------
(* Thread groups.                                                          *)

\* The other threads of p's process that wait4 has not reaped.
Others(p) == {q \in Procs \ {p} : leader[q] = leader[p] /\ st[q] # "reaped"}

\* Did p's process ever have another thread?
Threaded(p) == \E q \in Procs \ {p} : leader[q] = leader[p]

Stopped(p) == st[p] \in {"pending", "held"}
AtExitStop(p) == Stopped(p) /\ status[p].kind = "EXIT"

\* The state of p once SIGKILL, or a thread of its group, has told it to end:
\* neither can be blocked, and both take a thread out of a ptrace stop.
Woken(p) == IF AtExitStop(p) THEN "dead" ELSE IF st[p] \in Live THEN "dying" ELSE st[p]

\* The first to decide how a group ends decides it for good.
Kill(S) == [p \in Procs |-> IF leader[p] \in S THEN Woken(p) ELSE st[p]]
Doom(S) == [l \in Procs |->
              IF l \in S /\ fate[l] = NoFate /\ \E p \in Procs : leader[p] = l /\ st[p] \in Live
                THEN Signaled ELSE fate[l]]

-----------------------------------------------------------------------------
(* System calls of the tracer.                                             *)

\* A leader's zombie is not reported before the other threads are reaped.
Waitable(p) ==
  \/ st[p] = "pending"
  \/ st[p] = "dead" /\ (leader[p] = p => Others(p) = {})

\* os.StartProcess with Ptrace: the tracee stops at its first instruction.
StartTracee ==
  /\ st' = [st EXCEPT ![Tracee] = "pending"]
  /\ status' = [status EXCEPT ![Tracee] = Stop("TRAP")]
  /\ UNCHANGED <<fate, treeVars, opts>>

\* wait4: a stopped thread becomes held, a zombie is reaped.
Collect(p) ==
  /\ Waitable(p)
  /\ st' = [st EXCEPT ![p] = IF @ = "dead" THEN "reaped" ELSE "held"]
  /\ status' = [status EXCEPT ![p] = IF st[p] = "dead" THEN Final(p) ELSE @]
  /\ UNCHANGED <<fate, treeVars, opts>>

\* PTRACE_SYSCALL or PTRACE_CONT with signal 0: only a stopped thread can be
\* restarted, collected or not (any other gives ESRCH).  Restarted at its exit
\* stop, a thread is finished.
Restart(p) ==
  /\ Stopped(p)
  /\ st' = [st EXCEPT ![p] = IF AtExitStop(p) THEN "dead" ELSE "running"]
  /\ UNCHANGED <<status, fate, treeVars>>

\* SIGKILL to the processes of S; it has no effect on what is not alive.
KillAll(S) ==
  /\ st' = Kill(S)
  /\ fate' = Doom(S)
  /\ UNCHANGED <<status, treeVars, opts>>

\* The tracer is gone and did not ask for PTRACE_O_EXITKILL: what it traced is
\* let go and runs on, but for S, which gets the parent-death signal.
LetGo(S) ==
  /\ st' = [p \in Procs |-> IF AtExitStop(p) THEN "dead"
                            ELSE IF leader[p] \in S THEN Woken(p)
                            ELSE IF Stopped(p) THEN "running"
                            ELSE st[p]]
  /\ fate' = Doom(S)
  /\ UNCHANGED <<status, treeVars, opts>>

-----------------------------------------------------------------------------
(* What the threads do by themselves.                                      *)

\* A running thread p stops and waits for the tracer.
StopAt(p, s) ==
  /\ st[p] = "running"
  /\ st' = [st EXCEPT ![p] = "pending"]
  /\ status' = [status EXCEPT ![p] = s]

\* A system call, a signal or a fault.
Interrupt(p) ==
  /\ \E k \in {"OTHER", "SEGV", "XCPU"} : StopAt(p, Stop(k))
  /\ UNCHANGED <<fate, treeVars, opts>>

\* execve: the process replaces its image.
Exec(p) ==
  /\ Others(p) = {}
  /\ StopAt(p, Stop("EXEC"))
  /\ did' = [did EXCEPT ![p] = @ \cup {"EXEC"}]
  /\ UNCHANGED <<fate, leader, cpu, rss, group, strayed, opts>>

\* With other threads it first ends them.
BeginExec(p) ==
  /\ st[p] = "running"
  /\ Others(p) # {}
  /\ st' = [q \in Procs |-> IF q = p THEN "execing"
                            ELSE IF leader[q] = leader[p] THEN Woken(q) ELSE st[q]]
  /\ UNCHANGED <<status, fate, treeVars, opts>>

\* When only the leader's zombie is left p takes its place and its id.
EndExec(p) ==
  /\ st[p] = "execing"
  /\ \A q \in Others(p) : q = leader[p] /\ st[q] = "dead"
  /\ st' = [st EXCEPT ![p] = "reaped", ![leader[p]] = "pending"]
  /\ status' = [status EXCEPT ![leader[p]] = Stop("EXEC")]
  /\ did' = [did EXCEPT ![leader[p]] = did[p] \cup {"EXEC"}]
  /\ UNCHANGED <<fate, leader, cpu, rss, group, strayed, opts>>

\* exit of one thread: PTRACE_O_TRACEEXIT stops it before it is gone.
Exit(p) ==
  /\ \E c \in ExitCodes : StopAt(p, AtExit(c))
  /\ UNCHANGED <<fate, treeVars, opts>>

\* exit_group: the other threads are told to end.
ExitGroup(p) ==
  /\ st[p] = "running"
  /\ \E c \in ExitCodes :
       /\ status' = [status EXCEPT ![p] = AtExit(c)]
       /\ fate' = [fate EXCEPT ![leader[p]] = Exited(c)]
  /\ st' = [q \in Procs |-> IF q = p THEN "pending"
                            ELSE IF leader[q] = leader[p] THEN Woken(q) ELSE st[q]]
  /\ UNCHANGED <<treeVars, opts>>

\* fork, vfork or clone, which makes a process or a thread.  The child is
\* woken, and stops with SIGSTOP, before the parent reports the event: the
\* tracer may see the two in either order.
Fork(p, c) ==
  /\ st[p] = "running"
  /\ st[c] = "unborn"
  /\ \E k \in {"FORK", "CLONE"}, l \in {c, leader[p]} :
       /\ k = "FORK" => l = c
       /\ st' = [st EXCEPT ![p] = "forking", ![c] = "pending"]
       /\ status' = [status EXCEPT ![p] = Stop(k), ![c] = Stop("OTHER")]
       /\ leader' = [leader EXCEPT ![c] = l]
       /\ did' = [did EXCEPT ![p] = @ \cup {k}]
       /\ group' = IF l = c /\ leader[p] \in group THEN group \cup {c} ELSE group
       /\ strayed' = IF l = c /\ leader[p] \in strayed THEN strayed \cup {c} ELSE strayed
  /\ UNCHANGED <<fate, cpu, rss, opts>>

ForkStop(p) ==
  /\ st[p] = "forking"
  /\ st' = [st EXCEPT ![p] = "pending"]
  /\ UNCHANGED <<status, fate, treeVars, opts>>

\* setpgid or setsid by a thread of process l: l is no longer in the tracee's
\* group.  The tracee leads that group and can only join one a child made.
LeaveGroup(l) ==
  /\ l \in group
  /\ \E p \in Procs : leader[p] = l /\ st[p] = "running"
  /\ l = Tracee => \E q \in strayed : st[q] \notin {"reaped"}
  /\ group' = group \ {l}
  /\ strayed' = strayed \cup {l}
  /\ UNCHANGED <<st, status, leader, fate, cpu, rss, did, opts>>

\* setpgid: l is in the tracee's group again.
JoinGroup(l) ==
  /\ l \in strayed \ group
  /\ \E p \in Procs : leader[p] = l /\ st[p] = "running"
  /\ \E q \in group : st[q] # "reaped"
  /\ group' = group \cup {l}
  /\ UNCHANGED <<st, status, leader, fate, cpu, rss, did, strayed, opts>>

UseCpu(p) ==
  /\ st[p] = "running"
  /\ cpu[leader[p]] < MaxCpu
  /\ cpu' = [cpu EXCEPT ![leader[p]] = @ + 1]
  /\ UNCHANGED <<st, status, leader, fate, rss, did, group, strayed, opts>>

UseMemory(p) ==
  /\ st[p] = "running"
  /\ rss[leader[p]] < MaxRss
  /\ rss' = [rss EXCEPT ![leader[p]] = @ + 1]
  /\ UNCHANGED <<st, status, leader, fate, cpu, did, group, strayed, opts>>

\* What was told to end ends; the kernel may still stop it at its exit.
Die(p) ==
  /\ st[p] = "dying"
  /\ st' \in {[st EXCEPT ![p] = "dead"]}
             \cup (IF opts THEN {[st EXCEPT ![p] = "pending"]} ELSE {})
  /\ status' = [status EXCEPT ![p] = AtExit(0)]
  /\ UNCHANGED <<fate, treeVars, opts>>

\* SIGKILL from elsewhere: the OOM killer, or a process of the tree.
ExternalKill(p) ==
  /\ ExternalKills
  /\ st[p] \in Live
  /\ KillAll({leader[p]})

ProcessStep(p) ==
  \/ Interrupt(p) \/ Exec(p) \/ BeginExec(p) \/ EndExec(p) \/ Exit(p) \/ ExitGroup(p)
  \/ \E c \in Procs : Fork(p, c)
  \/ ForkStop(p) \/ LeaveGroup(p) \/ JoinGroup(p)
  \/ UseCpu(p) \/ UseMemory(p)
  \/ Die(p) \/ ExternalKill(p)
=============================================================================

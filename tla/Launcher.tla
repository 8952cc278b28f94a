------------------------------ MODULE Launcher ------------------------------
(***************************************************************************)
(* Invocations of the program that share one root filesystem.  Each is a   *)
(* parent process (main), the tracer it re-executes in new namespaces      *)
(* (startTracer) and, if asked for, the external program netsetgo, which   *)
(* puts a network interface into the tracer's namespace.  What follows     *)
(* instance.Run is module Tracer; here it only returns an exit code.       *)
(***************************************************************************)
EXTENDS Integers, FiniteSets

CONSTANTS
  Runs,       \* invocations on the same root filesystem
  Configs,    \* with or without --rootfs, with or without --nsgpath
  ExitCodes,  \* exit codes instance.Run may return
  MaxWait     \* seconds WaitForNetwork waits

Config == [rootfs : BOOLEAN, network : BOOLEAN]

ASSUME LauncherAssumption ==
  /\ Configs \subseteq Config
  /\ ExitCodes \subseteq 0..255
  /\ MaxWait \in Nat

VARIABLES
  config,      \* the options of each run
  parent,      \* where main is
  parentCode,  \* the exit code of the parent
  tracer,      \* where startTracer is: the step it takes next
  code,        \* the exit code of the tracer; -1 if it was killed
  cause,       \* ghost: what ended the tracer
  overlapped,  \* ghost: was another tracer alive while this one was?
  nsg,         \* netsetgo
  iface,       \* is there an interface beside lo in the tracer's namespace?
  waited,      \* seconds since WaitForNetwork began; MaxWait + 1 is any more than MaxWait
  root,        \* the root of the tracer's mount namespace
  proc,        \* is /proc of the new PID namespace mounted?
  oldRoot,     \* is the host's root mounted at /.pivot_root there?
  putold,      \* does /.pivot_root exist in the root filesystem?
  hostErased   \* ghost: did a removal descend into the host's root?

sandboxVars == <<iface, root, proc, oldRoot, putold, hostErased>>
vars == <<config, parent, parentCode, tracer, code, cause, overlapped, nsg, waited, sandboxVars>>

TracerSteps == {"proc", "bind", "mkdir", "pivot", "chdir", "unmount", "remove",
                "hostname", "network", "elapsed", "run"}
Causes == {"none", "call", "killed", "pivot", "unmount", "timeout", "run"}

Alive(r) == tracer[r] \in TracerSteps

TypeOK ==
  /\ config \in [Runs -> Configs]
  /\ parent \in [Runs -> {"start", "netsetgo", "wait", "exited"}]
  /\ parentCode \in [Runs -> 0..255]
  /\ tracer \in [Runs -> TracerSteps \cup {"none", "exited"}]
  /\ code \in [Runs -> -1..255]
  /\ cause \in [Runs -> Causes]
  /\ overlapped \in [Runs -> BOOLEAN]
  /\ nsg \in [Runs -> {"off", "running", "attached", "ok", "failed"}]
  /\ iface \in [Runs -> BOOLEAN]
  /\ waited \in [Runs -> 0..(MaxWait + 1)]
  /\ root \in [Runs -> {"host", "rootfs"}]
  /\ proc \in [Runs -> BOOLEAN]
  /\ oldRoot \in [Runs -> BOOLEAN]
  /\ putold \in BOOLEAN
  /\ hostErased \in BOOLEAN

\* An earlier run may have left /.pivot_root behind.
Init ==
  /\ config \in [Runs -> Configs]
  /\ parent = [r \in Runs |-> "start"]
  /\ parentCode = [r \in Runs |-> 0]
  /\ tracer = [r \in Runs |-> "none"]
  /\ code = [r \in Runs |-> 0]
  /\ cause = [r \in Runs |-> "none"]
  /\ overlapped = [r \in Runs |-> FALSE]
  /\ nsg = [r \in Runs |-> "off"]
  /\ iface = [r \in Runs |-> FALSE]
  /\ waited = [r \in Runs |-> 0]
  /\ root = [r \in Runs |-> "host"]
  /\ proc = [r \in Runs |-> FALSE]
  /\ oldRoot = [r \in Runs |-> FALSE]
  /\ putold \in BOOLEAN
  /\ hostErased = FALSE

-----------------------------------------------------------------------------
(* How a tracer moves and ends.                                            *)

Go(r, from, to) ==
  /\ tracer[r] = from
  /\ tracer' = [tracer EXCEPT ![r] = to]
  /\ UNCHANGED <<config, parent, parentCode, code, cause, overlapped, nsg>>

\* The tracer ends with exit code c; its mount namespace goes with it.
End(r, c, why) ==
  /\ tracer' = [tracer EXCEPT ![r] = "exited"]
  /\ code' = [code EXCEPT ![r] = c]
  /\ cause' = [cause EXCEPT ![r] = why]
  /\ oldRoot' = [oldRoot EXCEPT ![r] = FALSE]
  /\ UNCHANGED <<config, parent, parentCode, overlapped, nsg, waited, iface, root, proc,
                 putold, hostErased>>

ParentExits(r, c) ==
  /\ parent' = [parent EXCEPT ![r] = "exited"]
  /\ parentCode' = [parentCode EXCEPT ![r] = c]
  /\ UNCHANGED <<config, tracer, code, cause, overlapped, nsg, waited, sandboxVars>>

-----------------------------------------------------------------------------
(* Defects: one plausible mistake each in the definition named before the  *)
(* underscore.  No action uses them; they show what the properties notice. *)

AfterHostname_NoWait(r) == "run"
StatusOf_Raw(c) == c
StatusOf_KilledIsZero(c) == IF c < 0 THEN 0 ELSE c
MakePutold_Forgotten(r) == Go(r, "mkdir", "pivot") /\ UNCHANGED <<waited, sandboxVars>>
Chdir_SkipsUnmount(r) == Go(r, "chdir", "remove") /\ UNCHANGED <<waited, sandboxVars>>
TimeLeft_Always(r) == TRUE

NetSetGoFailed_Retries(r) ==
  /\ parent[r] = "netsetgo"
  /\ nsg[r] = "failed"
  /\ nsg' = [nsg EXCEPT ![r] = "off"]
  /\ UNCHANGED <<config, parent, parentCode, tracer, code, cause, overlapped, waited, sandboxVars>>

-----------------------------------------------------------------------------
(* startTracer.                                                            *)

FirstStep(r) == IF config[r].rootfs THEN "proc" ELSE "hostname"
AfterHostname(r) == IF config[r].network THEN "network" ELSE "run"

\* log.Fatal: any call of the sandbox's construction may fail.
CallFails(r) == Alive(r) /\ tracer[r] \notin {"elapsed", "run"} /\ End(r, 1, "call")

Killed(r) == Alive(r) /\ End(r, -1, "killed")

MountProc(r) ==
  /\ Go(r, "proc", "bind")
  /\ proc' = [proc EXCEPT ![r] = TRUE]
  /\ UNCHANGED <<waited, iface, root, oldRoot, putold, hostErased>>

BindMount(r) == Go(r, "bind", "mkdir") /\ UNCHANGED <<waited, sandboxVars>>

\* os.MkdirAll does not mind a directory that is there.
MakePutold(r) ==
  /\ Go(r, "mkdir", "pivot")
  /\ putold' = TRUE
  /\ UNCHANGED <<waited, iface, root, proc, oldRoot, hostErased>>

\* pivot_root moves the host's root to putold, which must be there.
PivotRoot(r) ==
  \/ /\ putold
     /\ Go(r, "pivot", "chdir")
     /\ root' = [root EXCEPT ![r] = "rootfs"]
     /\ oldRoot' = [oldRoot EXCEPT ![r] = TRUE]
     /\ UNCHANGED <<waited, iface, proc, putold, hostErased>>
  \/ /\ ~putold
     /\ tracer[r] = "pivot"
     /\ End(r, 1, "pivot")

Chdir(r) == Go(r, "chdir", "unmount") /\ UNCHANGED <<waited, sandboxVars>>

\* Unmounting what is not mounted any more fails.
UnmountOldRoot(r) ==
  \/ /\ oldRoot[r]
     /\ Go(r, "unmount", "remove")
     /\ oldRoot' = [oldRoot EXCEPT ![r] = FALSE]
     /\ UNCHANGED <<waited, iface, root, proc, putold, hostErased>>
  \/ /\ ~oldRoot[r]
     /\ tracer[r] = "unmount"
     /\ End(r, 1, "unmount")

\* os.RemoveAll descends into what is mounted on the directory.  Removing it
\* detaches what is mounted on it in the namespaces of other runs.
RemovePutold(r) ==
  /\ Go(r, "remove", "hostname")
  /\ hostErased' = (hostErased \/ oldRoot[r])
  /\ putold' = oldRoot[r]
  /\ oldRoot' = [s \in Runs |-> oldRoot[s] /\ oldRoot[r]]
  /\ UNCHANGED <<waited, iface, root, proc>>

SetHostname(r) == Go(r, "hostname", AfterHostname(r)) /\ UNCHANGED <<waited, sandboxVars>>

\* WaitForNetwork: look at the interfaces; if there is none beside lo, see
\* whether the time is up; if not, sleep for a second or more.
LookForNetwork(r) ==
  /\ Go(r, "network", IF iface[r] THEN "run" ELSE "elapsed")
  /\ UNCHANGED <<waited, sandboxVars>>

TimeLeft(r) == waited[r] <= MaxWait

Sleep(r) ==
  /\ TimeLeft(r)
  /\ Go(r, "elapsed", "network")
  /\ \E w \in 1..(MaxWait + 1) :
       /\ w > waited[r] \/ w = MaxWait + 1
       /\ waited' = [waited EXCEPT ![r] = w]
  /\ UNCHANGED sandboxVars

NetworkTimesOut(r) ==
  /\ tracer[r] = "elapsed"
  /\ ~TimeLeft(r)
  /\ End(r, 1, "timeout")

\* instance.Run returns and its exit code is the tracer's.
RunReturns(r) ==
  /\ tracer[r] = "run"
  /\ \E c \in ExitCodes : End(r, c, "run")

TracerStep(r) ==
  \/ MountProc(r) \/ BindMount(r) \/ MakePutold(r) \/ PivotRoot(r) \/ Chdir(r)
  \/ UnmountOldRoot(r) \/ RemovePutold(r) \/ SetHostname(r)
  \/ LookForNetwork(r) \/ Sleep(r) \/ NetworkTimesOut(r)

-----------------------------------------------------------------------------
(* main.                                                                   *)

\* What the parent passes on: os.Exit truncates the -1 of a killed tracer.
StatusOf(c) == c % 256

\* A missing path or a failing Start is fatal; an unknown user is a panic.
ParentFails(r) == parent[r] = "start" /\ \E c \in {1, 2} : ParentExits(r, c)

StartTracer(r) ==
  /\ parent[r] = "start"
  /\ parent' = [parent EXCEPT ![r] = IF config[r].network THEN "netsetgo" ELSE "wait"]
  /\ tracer' = [tracer EXCEPT ![r] = FirstStep(r)]
  /\ overlapped' = [s \in Runs |-> overlapped[s] \/ Alive(s)
                                     \/ (s = r /\ \E t \in Runs : Alive(t))]
  /\ UNCHANGED <<config, parentCode, code, cause, nsg, waited, sandboxVars>>

StartNetSetGo(r) ==
  /\ parent[r] = "netsetgo"
  /\ nsg[r] = "off"
  /\ nsg' = [nsg EXCEPT ![r] = "running"]
  /\ UNCHANGED <<config, parent, parentCode, tracer, code, cause, overlapped, waited, sandboxVars>>

NetSetGoDone(r) ==
  /\ parent[r] = "netsetgo"
  /\ nsg[r] = "ok"
  /\ parent' = [parent EXCEPT ![r] = "wait"]
  /\ UNCHANGED <<config, parentCode, tracer, code, cause, overlapped, nsg, waited, sandboxVars>>

\* log.Fatal: the parent ends and leaves the tracer to itself.
NetSetGoFailed(r) ==
  /\ parent[r] = "netsetgo"
  /\ nsg[r] = "failed"
  /\ ParentExits(r, 1)

TracerEnded(r) == parent[r] = "wait" /\ tracer[r] = "exited"

\* cmd.Wait returns.
PassOnStatus(r) == TracerEnded(r) /\ ParentExits(r, StatusOf(code[r]))

ParentStep(r) ==
  \/ StartTracer(r) \/ StartNetSetGo(r) \/ NetSetGoDone(r) \/ NetSetGoFailed(r)
  \/ PassOnStatus(r)

-----------------------------------------------------------------------------
(* netsetgo: it attaches an interface, then configures it, and may fail.   *)

Attach(r) ==
  /\ nsg[r] = "running"
  /\ Alive(r)
  /\ nsg' = [nsg EXCEPT ![r] = "attached"]
  /\ iface' = [iface EXCEPT ![r] = TRUE]
  /\ UNCHANGED <<config, parent, parentCode, tracer, code, cause, overlapped, waited,
                 root, proc, oldRoot, putold, hostErased>>

NetSetGoEnds(r) ==
  /\ \/ /\ nsg[r] = "attached"
        /\ nsg' = [nsg EXCEPT ![r] = "ok"]
     \/ /\ nsg[r] \in {"running", "attached"}
        /\ nsg' = [nsg EXCEPT ![r] = "failed"]
  /\ UNCHANGED <<config, parent, parentCode, tracer, code, cause, overlapped, waited, sandboxVars>>

-----------------------------------------------------------------------------
Finished == (\A r \in Runs : parent[r] = "exited" /\ ~Alive(r)) /\ UNCHANGED vars

Next ==
  \/ \E r \in Runs : ParentStep(r)
  \/ \E r \in Runs : ParentFails(r)
  \/ \E r \in Runs : TracerStep(r)
  \/ \E r \in Runs : CallFails(r)
  \/ \E r \in Runs : Killed(r)
  \/ \E r \in Runs : RunReturns(r)
  \/ \E r \in Runs : Attach(r)
  \/ \E r \in Runs : NetSetGoEnds(r)
  \/ Finished

\* Processes are scheduled and netsetgo, an external program, ends.  Nothing
\* is assumed of instance.Run.
Fairness ==
  \A r \in Runs : /\ WF_vars(ParentStep(r))
                  /\ WF_vars(TracerStep(r))
                  /\ WF_vars(NetSetGoEnds(r))

Spec == Init /\ [][Next]_vars
FairSpec == Spec /\ Fairness

-----------------------------------------------------------------------------
(* Properties.                                                             *)

\* The removal of /.pivot_root never reaches the host's files, whatever other
\* runs mount and remove on the same root filesystem (rootfs.go:37-42).
HostSurvives == ~hostErased

\* While the tracee may run it sees its own root, a /proc of its own
\* namespace, no trace of the host's root, and an interface if one was asked
\* for (main.go:61-101).
TraceeIsConfined ==
  \A r \in Runs : tracer[r] = "run" =>
    /\ config[r].rootfs => root[r] = "rootfs" /\ proc[r] /\ ~oldRoot[r]
    /\ config[r].network => iface[r]

\* The parent reports 0 only for a run that came to its end and returned 0:
\* no failed step, killed tracer or failed netsetgo passes for success
\* (main.go:195-211).
ZeroIsEarned ==
  \A r \in Runs : parent[r] = "exited" /\ parentCode[r] = 0 =>
    tracer[r] = "exited" /\ cause[r] = "run" /\ code[r] = 0

\* A directory left behind by a run that was killed, or removed by one that
\* went on, does no harm to a run that is alone: pivot_root and the unmount
\* fail for want of it only when runs overlap (rootfs.go:21-39).
TrippedOnlyByOverlap ==
  \A r \in Runs : cause[r] \in {"pivot", "unmount"} => overlapped[r]

\* The wait for the network ends.
NetworkWaitEnds ==
  \A r \in Runs : (tracer[r] = "network") ~> (tracer[r] \in {"run", "exited"})

\* The parent ends after its tracer, even if that failed before netsetgo.
ParentFollowsTracer ==
  \A r \in Runs : (tracer[r] = "exited") ~> (parent[r] = "exited")

\* rootfs.go:35: when it is to be unmounted, the host's root lives at
\* /.pivot_root.
OldRootLivesAtPutold ==
  \A r \in Runs : tracer[r] = "unmount" => oldRoot[r]
=============================================================================

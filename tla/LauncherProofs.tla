--------------------------- MODULE LauncherProofs ---------------------------
(***************************************************************************)
(* Theorems about module Launcher, for any number of runs that share a     *)
(* root filesystem, any options and any exit codes.                        *)
(***************************************************************************)
EXTENDS Launcher, TLAPS

\* A tracer begins when its parent has, and only then.
Begins ==
  \A r \in Runs : parent[r] = "start" => tracer[r] = "none" /\ cause[r] = "none"

\* What the construction of the sandbox has achieved at each of its steps.
Progress ==
  \A r \in Runs :
    /\ oldRoot[r] => tracer[r] \in {"chdir", "unmount"}
    /\ Alive(r) /\ tracer[r] # "proc" /\ config[r].rootfs => proc[r]
    /\ Alive(r) /\ tracer[r] \notin {"proc", "bind", "mkdir", "pivot"} /\ config[r].rootfs
         => root[r] = "rootfs"
    /\ tracer[r] = "run" /\ config[r].network => iface[r]

\* An exit code of 0 is that of a run.
ZeroIsTheRuns ==
  \A r \in Runs : tracer[r] = "exited" /\ code[r] = 0 => cause[r] = "run"

\* Two tracers that live at the same time know it; one that is alone finds the
\* directory it made and the root it put there.
Overlaps ==
  /\ \A r, s \in Runs : r # s /\ Alive(r) /\ Alive(s) => overlapped[r]
  /\ \A r \in Runs : ~overlapped[r] =>
       /\ tracer[r] = "pivot" => putold
       /\ tracer[r] \in {"chdir", "unmount"} => oldRoot[r]
       /\ cause[r] \notin {"pivot", "unmount"}

LInv == TypeOK /\ Begins /\ Progress /\ ZeroIsTheRuns /\ ZeroIsEarned /\ Overlaps /\ HostSurvives

-----------------------------------------------------------------------------
LEMMA LInit == Init => LInv
<1> SUFFICES ASSUME Init PROVE LInv
  OBVIOUS
<1>1. TypeOK
  <2>1. /\ parent \in [Runs -> {"start"}] /\ tracer \in [Runs -> {"none"}]
        /\ cause \in [Runs -> {"none"}] /\ nsg \in [Runs -> {"off"}]
        /\ root \in [Runs -> {"host"}]
    BY DEF Init
  <2>2. /\ parentCode \in [Runs -> 0..255] /\ code \in [Runs -> -1..255]
        /\ waited \in [Runs -> 0..(MaxWait + 1)]
    BY LauncherAssumption DEF LauncherAssumption, Init
  <2>3. /\ overlapped \in [Runs -> BOOLEAN] /\ iface \in [Runs -> BOOLEAN]
        /\ proc \in [Runs -> BOOLEAN] /\ oldRoot \in [Runs -> BOOLEAN]
        /\ putold \in BOOLEAN /\ hostErased \in BOOLEAN
    BY DEF Init
  <2> QED
    BY <2>1, <2>2, <2>3 DEF Init, TypeOK, TracerSteps, Causes
<1> QED
  BY <1>1
  DEF Init, LInv, Begins, Progress, ZeroIsTheRuns, ZeroIsEarned, Overlaps, HostSurvives, Alive,
      TracerSteps

\* The end of a tracer that is alive.
LEMMA EndStep ==
  ASSUME LInv, NEW r \in Runs, NEW c \in -1..255, NEW why \in Causes,
         Alive(r), End(r, c, why), c = 0 => why = "run",
         why \in {"pivot", "unmount"} => overlapped[r]
  PROVE  LInv'
<1> USE DEF LInv, TypeOK, Alive, End, sandboxVars
<1>1. TypeOK'
  OBVIOUS
<1>2. Begins' /\ ZeroIsTheRuns'
  BY DEF Begins, ZeroIsTheRuns, TracerSteps
<1>3. Progress'
  BY DEF Progress, TracerSteps
<1>4. ZeroIsEarned'
  BY DEF ZeroIsEarned, TracerSteps
<1>5. Overlaps'
  BY DEF Overlaps, TracerSteps
<1> QED
  BY <1>1, <1>2, <1>3, <1>4, <1>5 DEF HostSurvives

\* A step of the construction that leaves the shared directory alone.
LEMMA GoStepKeeps ==
  ASSUME LInv, NEW r \in Runs, NEW from \in TracerSteps, NEW to \in TracerSteps,
         Go(r, from, to)
  PROVE  /\ Begins' /\ ZeroIsTheRuns' /\ ZeroIsEarned'
         /\ \A p, s \in Runs : p # s /\ Alive(p)' /\ Alive(s)' => overlapped'[p]
         /\ \A s \in Runs : Alive(s)' <=> Alive(s)
<1> USE DEF LInv, TypeOK, Go, TracerSteps
<1>1. \A s \in Runs : Alive(s)' <=> Alive(s)
  BY DEF Alive
<1>2. Begins' /\ ZeroIsTheRuns' /\ ZeroIsEarned'
  BY DEF Begins, ZeroIsTheRuns, ZeroIsEarned
<1> QED
  BY <1>1, <1>2 DEF Overlaps

LEMMA SandboxStep ==
  ASSUME LInv, NEW r \in Runs,
         MountProc(r) \/ BindMount(r) \/ MakePutold(r) \/ Chdir(r) \/ SetHostname(r)
         \/ LookForNetwork(r) \/ Sleep(r)
  PROVE  LInv'
<1> USE LauncherAssumption DEF LauncherAssumption
<1>1. \E from, to \in TracerSteps : Go(r, from, to)
  BY DEF MountProc, BindMount, MakePutold, Chdir, SetHostname, AfterHostname, LookForNetwork,
         Sleep, TracerSteps
<1>2. TypeOK'
  <2>1. tracer' \in [Runs -> TracerSteps \cup {"none", "exited"}]
    BY <1>1 DEF LInv, TypeOK, Go
  <2>2. UNCHANGED <<config, parent, parentCode, code, cause, overlapped, nsg>>
    BY <1>1 DEF Go
  <2>3. waited' \in [Runs -> 0..(MaxWait + 1)]
    BY DEF LInv, TypeOK, MountProc, BindMount, MakePutold, Chdir, SetHostname, LookForNetwork,
           Sleep
  <2>4. proc' \in [Runs -> BOOLEAN]
    BY DEF LInv, TypeOK, MountProc, BindMount, MakePutold, Chdir, SetHostname, LookForNetwork,
           Sleep, sandboxVars
  <2>5. putold' \in BOOLEAN
    BY DEF LInv, TypeOK, MountProc, BindMount, MakePutold, Chdir, SetHostname, LookForNetwork,
           Sleep, sandboxVars
  <2>6. UNCHANGED <<iface, root, oldRoot, hostErased>>
    BY DEF MountProc, BindMount, MakePutold, Chdir, SetHostname, LookForNetwork, Sleep,
           sandboxVars
  <2> QED
    BY <2>1, <2>2, <2>3, <2>4, <2>5, <2>6 DEF LInv, TypeOK
<1>3. Progress'
  <2> USE DEF LInv, TypeOK, Progress, Go, Alive, TracerSteps, sandboxVars
  <2>1. CASE MountProc(r)
    BY <2>1 DEF MountProc
  <2>2. CASE BindMount(r) \/ Chdir(r)
    BY <2>2 DEF BindMount, Chdir
  <2>3. CASE MakePutold(r)
    BY <2>3 DEF MakePutold
  <2>4. CASE SetHostname(r)
    BY <2>4 DEF SetHostname, AfterHostname
  <2>5. CASE LookForNetwork(r)
    BY <2>5 DEF LookForNetwork
  <2>6. CASE Sleep(r)
    BY <2>6 DEF Sleep
  <2> QED
    BY <2>1, <2>2, <2>3, <2>4, <2>5, <2>6
<1>4. \A s \in Runs : ~overlapped'[s] =>
        /\ tracer'[s] = "pivot" => putold'
        /\ tracer'[s] \in {"chdir", "unmount"} => oldRoot'[s]
        /\ cause'[s] \notin {"pivot", "unmount"}
  BY DEF LInv, TypeOK, Overlaps, Go, MountProc, BindMount, MakePutold,
         Chdir, SetHostname, AfterHostname, LookForNetwork, Sleep, sandboxVars
<1>5. hostErased' = hostErased
  BY DEF MountProc, BindMount, MakePutold, Chdir, SetHostname, LookForNetwork, Sleep, sandboxVars
<1> QED
  BY <1>1, <1>2, <1>3, <1>4, <1>5, GoStepKeeps DEF LInv, Overlaps, HostSurvives

LEMMA PivotRootStep ==
  ASSUME LInv, NEW r \in Runs, PivotRoot(r)
  PROVE  LInv'
<1>1. CASE putold /\ Go(r, "pivot", "chdir")
  <2>1. /\ root' = [root EXCEPT ![r] = "rootfs"] /\ oldRoot' = [oldRoot EXCEPT ![r] = TRUE]
        /\ UNCHANGED <<waited, iface, proc, putold, hostErased>>
    BY <1>1 DEF PivotRoot, Go, End, LInv, TypeOK
  <2>2. TypeOK'
    BY <1>1, <2>1 DEF LInv, TypeOK, Go, TracerSteps
  <2>3. Progress'
    BY <1>1, <2>1 DEF LInv, TypeOK, Progress, Go, Alive, TracerSteps
  <2>4. \A s \in Runs : ~overlapped'[s] =>
          /\ tracer'[s] = "pivot" => putold'
          /\ tracer'[s] \in {"chdir", "unmount"} => oldRoot'[s]
          /\ cause'[s] \notin {"pivot", "unmount"}
    BY <1>1, <2>1 DEF LInv, TypeOK, Overlaps, Go
  <2>5. "pivot" \in TracerSteps /\ "chdir" \in TracerSteps
    BY DEF TracerSteps
  <2> QED
    BY <1>1, <2>1, <2>2, <2>3, <2>4, <2>5, GoStepKeeps DEF LInv, Overlaps, HostSurvives
<1>2. CASE ~putold /\ tracer[r] = "pivot" /\ End(r, 1, "pivot")
  <2>1. overlapped[r]
    BY <1>2 DEF LInv, Overlaps
  <2>2. Alive(r)
    BY <1>2 DEF Alive, TracerSteps
  <2>3. 1 \in -1..255 /\ 1 # 0 /\ "pivot" \in Causes
    BY DEF Causes
  <2> QED
    BY <1>2, <2>1, <2>2, <2>3, EndStep
<1> QED
  BY <1>1, <1>2 DEF PivotRoot

LEMMA UnmountStep ==
  ASSUME LInv, NEW r \in Runs, UnmountOldRoot(r)
  PROVE  LInv'
<1>1. CASE oldRoot[r]
  <2>1. /\ Go(r, "unmount", "remove") /\ oldRoot' = [oldRoot EXCEPT ![r] = FALSE]
        /\ UNCHANGED <<waited, iface, root, proc, putold, hostErased>>
    BY <1>1 DEF UnmountOldRoot
  <2>2. TypeOK'
    BY <2>1 DEF LInv, TypeOK, Go, TracerSteps
  <2>3. Progress'
    BY <2>1 DEF LInv, TypeOK, Progress, Go, Alive, TracerSteps
  <2>4. \A s \in Runs : ~overlapped'[s] =>
          /\ tracer'[s] = "pivot" => putold'
          /\ tracer'[s] \in {"chdir", "unmount"} => oldRoot'[s]
          /\ cause'[s] \notin {"pivot", "unmount"}
    BY <2>1 DEF LInv, TypeOK, Overlaps, Go
  <2>5. "unmount" \in TracerSteps /\ "remove" \in TracerSteps
    BY DEF TracerSteps
  <2> QED
    BY <2>1, <2>2, <2>3, <2>4, <2>5, GoStepKeeps DEF LInv, Overlaps, HostSurvives
<1>2. CASE ~oldRoot[r]
  <2>1. tracer[r] = "unmount" /\ End(r, 1, "unmount")
    BY <1>2 DEF UnmountOldRoot
  <2>2. overlapped[r]
    BY <1>2, <2>1 DEF LInv, Overlaps
  <2>3. Alive(r)
    BY <2>1 DEF Alive, TracerSteps
  <2>4. 1 \in -1..255 /\ 1 # 0 /\ "unmount" \in Causes
    BY DEF Causes
  <2> QED
    BY <2>1, <2>2, <2>3, <2>4, EndStep
<1> QED
  BY <1>1, <1>2

\* The directory is removed under the feet of those that live at the same time,
\* and of nobody else.
LEMMA RemoveStep ==
  ASSUME LInv, NEW r \in Runs, RemovePutold(r)
  PROVE  LInv'
<1>1. /\ Go(r, "remove", "hostname") /\ ~oldRoot[r] /\ hostErased' = hostErased
      /\ putold' = FALSE /\ oldRoot' = [s \in Runs |-> FALSE]
      /\ UNCHANGED <<waited, iface, root, proc>>
  BY DEF RemovePutold, LInv, TypeOK, Progress, Go
<1>2. TypeOK'
  BY <1>1 DEF LInv, TypeOK, Go, TracerSteps
<1>3. Progress'
  BY <1>1 DEF LInv, TypeOK, Progress, Go, Alive, TracerSteps
<1>4. ASSUME NEW s \in Runs, ~overlapped'[s]
      PROVE  /\ tracer'[s] \notin {"pivot", "chdir", "unmount"}
             /\ cause'[s] \notin {"pivot", "unmount"}
  <2>1. ~overlapped[s] /\ tracer[r] = "remove" /\ cause' = cause
    BY <1>1, <1>4 DEF Go
  <2>2. s # r => ~Alive(s)
    BY <2>1 DEF LInv, Overlaps, Alive, TracerSteps
  <2> QED
    BY <1>1, <2>1, <2>2 DEF LInv, TypeOK, Overlaps, Go, Alive, TracerSteps
<1>5. "remove" \in TracerSteps /\ "hostname" \in TracerSteps
  BY DEF TracerSteps
<1> QED
  BY <1>1, <1>2, <1>3, <1>4, <1>5, GoStepKeeps DEF LInv, Overlaps, HostSurvives

\* A new tracer makes every living one, and itself, overlapped.
LEMMA StartStep ==
  ASSUME LInv, NEW r \in Runs, StartTracer(r)
  PROVE  LInv'
<1>1. tracer[r] = "none" /\ cause[r] = "none" /\ parent[r] = "start"
  BY DEF StartTracer, LInv, Begins
<1>2. FirstStep(r) \in {"proc", "hostname"} /\ (config[r].rootfs <=> FirstStep(r) = "proc")
  BY DEF FirstStep
<1>3. /\ tracer' = [tracer EXCEPT ![r] = FirstStep(r)]
      /\ parent' = [parent EXCEPT ![r] = IF config[r].network THEN "netsetgo" ELSE "wait"]
      /\ UNCHANGED <<config, parentCode, code, cause, nsg, waited, sandboxVars>>
      /\ \A s \in Runs : overlapped'[s] <=> \/ overlapped[s] \/ Alive(s)
                                            \/ s = r /\ \E t \in Runs : Alive(t)
      /\ overlapped' \in [Runs -> BOOLEAN]
  BY DEF StartTracer, LInv, TypeOK, Alive
<1>4. TypeOK'
  BY <1>2, <1>3 DEF LInv, TypeOK, TracerSteps, sandboxVars
<1>5. Begins' /\ ZeroIsTheRuns'
  BY <1>1, <1>2, <1>3 DEF LInv, TypeOK, Begins, ZeroIsTheRuns
<1>6. ZeroIsEarned'
  BY <1>1, <1>3 DEF LInv, TypeOK, ZeroIsEarned
<1>7. Progress'
  BY <1>1, <1>2, <1>3 DEF LInv, TypeOK, Progress, Alive, TracerSteps, sandboxVars
<1>8. \A p \in Runs \ {r} : Alive(p)' <=> Alive(p)
  BY <1>3 DEF LInv, TypeOK, Alive
<1>9. \A p, s \in Runs : p # s /\ Alive(p)' /\ Alive(s)' => overlapped'[p]
  BY <1>3, <1>8 DEF LInv, Overlaps
<1>10. \A s \in Runs : ~overlapped'[s] =>
         /\ tracer'[s] = "pivot" => putold'
         /\ tracer'[s] \in {"chdir", "unmount"} => oldRoot'[s]
         /\ cause'[s] \notin {"pivot", "unmount"}
  BY <1>2, <1>3 DEF LInv, TypeOK, Overlaps, sandboxVars
<1> QED
  BY <1>3, <1>4, <1>5, <1>6, <1>7, <1>9, <1>10 DEF LInv, Overlaps, HostSurvives, sandboxVars

\* The other steps of a parent, and netsetgo's.
LEMMA OutsideStep ==
  ASSUME LInv, NEW r \in Runs,
         \/ StartNetSetGo(r) \/ NetSetGoDone(r) \/ NetSetGoFailed(r) \/ PassOnStatus(r)
         \/ ParentFails(r) \/ Attach(r) \/ NetSetGoEnds(r)
  PROVE  LInv'
<1>1. /\ UNCHANGED <<config, tracer, code, cause, overlapped, waited, root, proc, oldRoot,
                     putold, hostErased>>
      /\ \A s \in Runs : iface[s] => iface'[s]
  BY DEF StartNetSetGo, NetSetGoDone, NetSetGoFailed, PassOnStatus, ParentFails, ParentExits,
         Attach, NetSetGoEnds, sandboxVars, LInv, TypeOK
<1>2. /\ parentCode' \in [Runs -> 0..255]
      /\ parent' \in [Runs -> {"start", "netsetgo", "wait", "exited"}]
  BY DEF StartNetSetGo, NetSetGoDone, NetSetGoFailed, PassOnStatus, StatusOf, ParentFails,
         ParentExits, Attach, NetSetGoEnds, LInv, TypeOK
<1>3. nsg' \in [Runs -> {"off", "running", "attached", "ok", "failed"}]
  BY DEF StartNetSetGo, NetSetGoDone, NetSetGoFailed, PassOnStatus, ParentFails,
         ParentExits, Attach, NetSetGoEnds, LInv, TypeOK
<1>4. iface' \in [Runs -> BOOLEAN]
  BY DEF StartNetSetGo, NetSetGoDone, NetSetGoFailed, PassOnStatus, ParentFails, ParentExits,
         Attach, NetSetGoEnds, sandboxVars, LInv, TypeOK
<1>5. TypeOK'
  BY <1>1, <1>2, <1>3, <1>4 DEF LInv, TypeOK
<1>6. \A s \in Runs : parent'[s] = "start" => parent[s] = "start"
  BY DEF StartNetSetGo, NetSetGoDone, NetSetGoFailed, PassOnStatus, ParentFails, ParentExits,
         Attach, NetSetGoEnds, LInv, TypeOK
<1>7. ASSUME NEW s \in Runs, parent'[s] = "exited", parentCode'[s] = 0
      PROVE  tracer'[s] = "exited" /\ cause'[s] = "run" /\ code'[s] = 0
  <2>1. CASE PassOnStatus(r) /\ s = r
    <3>1. tracer[s] = "exited" /\ code[s] % 256 = 0 /\ code[s] \in -1..255
      BY <1>7, <2>1 DEF PassOnStatus, TracerEnded, ParentExits, StatusOf, LInv, TypeOK
    <3>2. code[s] = 0
      BY <3>1
    <3> QED
      BY <1>1, <3>1, <3>2 DEF LInv, ZeroIsTheRuns
  <2>2. CASE ~(PassOnStatus(r) /\ s = r)
    <3>1. parent[s] = "exited" /\ parentCode[s] = 0
      BY <1>7, <2>2
      DEF StartNetSetGo, NetSetGoDone, NetSetGoFailed, PassOnStatus, ParentFails, ParentExits,
          Attach, NetSetGoEnds, LInv, TypeOK
    <3> QED
      BY <1>1, <3>1 DEF LInv, ZeroIsEarned
  <2> QED
    BY <2>1, <2>2
<1>8. Begins' /\ ZeroIsTheRuns'
  BY <1>1, <1>6 DEF LInv, Begins, ZeroIsTheRuns
<1>9. Progress' /\ Overlaps'
  BY <1>1 DEF LInv, Progress, Overlaps, Alive
<1> QED
  BY <1>1, <1>5, <1>7, <1>8, <1>9 DEF LInv, ZeroIsEarned, HostSurvives

LEMMA LStep == LInv /\ [Next]_vars => LInv'
<1> SUFFICES ASSUME LInv, [Next]_vars PROVE LInv'
  OBVIOUS
<1>1. CASE \E r \in Runs : CallFails(r) \/ Killed(r)
  BY <1>1, EndStep DEF CallFails, Killed, Causes
<1>2. CASE \E r \in Runs : NetworkTimesOut(r)
  BY <1>2, EndStep DEF NetworkTimesOut, Alive, TracerSteps, Causes
<1>3. CASE \E r \in Runs : RunReturns(r)
  BY <1>3, EndStep, LauncherAssumption
  DEF LauncherAssumption, RunReturns, Alive, TracerSteps, Causes
<1>4. CASE \E r \in Runs : ParentStep(r) \/ ParentFails(r) \/ Attach(r) \/ NetSetGoEnds(r)
  BY <1>4, StartStep, OutsideStep DEF ParentStep
<1>5. CASE \E r \in Runs : TracerStep(r)
  BY <1>2, <1>5, SandboxStep, PivotRootStep, UnmountStep, RemoveStep DEF TracerStep
<1>6. CASE UNCHANGED vars
  BY <1>6 DEF vars, sandboxVars, LInv, TypeOK, Begins, Progress, ZeroIsTheRuns, ZeroIsEarned,
              Overlaps, HostSurvives, Alive
<1> QED
  BY <1>1, <1>2, <1>3, <1>4, <1>5, <1>6 DEF Next, Finished

\* The inductive invariant: what each tracer has achieved, and what the runs
\* know of each other (main.go:61-108, rootfs.go:10-47).
THEOREM LauncherInvariance == Spec => []LInv
BY LInit, LStep, PTL DEF Spec

-----------------------------------------------------------------------------
\* Every variable keeps its type: in particular no exit code leaves -1..255
\* and no status 0..255 (main.go:195-211).
THEOREM LauncherTypeCorrect == Spec => []TypeOK
<1>1. LInv => TypeOK
  BY DEF LInv
<1> QED
  BY <1>1, LauncherInvariance, PTL

\* The host's files survive the removal of /.pivot_root (rootfs.go:37-42), for
\* any number of runs that mount and remove on the same root filesystem.
THEOREM HostAlwaysSurvives == Spec => []HostSurvives
<1>1. LInv => HostSurvives
  BY DEF LInv
<1> QED
  BY <1>1, LauncherInvariance, PTL

\* A tracee never starts in a sandbox that is half built (main.go:61-101),
\* whatever other runs do to it meanwhile.
THEOREM TraceeIsAlwaysConfined == Spec => []TraceeIsConfined
<1>1. LInv => TraceeIsConfined
  BY DEF LInv, Progress, TraceeIsConfined, Alive, TracerSteps
<1> QED
  BY <1>1, LauncherInvariance, PTL

\* Exit status 0 of the parent is the 0 of a run that came to its end
\* (main.go:195-211), whichever of the three processes failed or was killed.
THEOREM ZeroIsAlwaysEarned == Spec => []ZeroIsEarned
<1>1. LInv => ZeroIsEarned
  BY DEF LInv
<1> QED
  BY <1>1, LauncherInvariance, PTL

\* A run that is alone finds the directory it made and the root it put there,
\* whatever runs that were killed left behind (rootfs.go:21-39).
THEOREM OnlyOverlapTrips == Spec => []TrippedOnlyByOverlap
<1>1. LInv => TrippedOnlyByOverlap
  BY DEF LInv, Overlaps, TrippedOnlyByOverlap
<1> QED
  BY <1>1, LauncherInvariance, PTL

-----------------------------------------------------------------------------
(* The end of the runs.                                                    *)

ParentRank(r) ==
  CASE parent[r] = "start"    -> 3
    [] parent[r] = "netsetgo" -> 2
    [] parent[r] = "wait"     -> 1
    [] OTHER                  -> 0
TracerRank(r) ==
  CASE tracer[r] = "none"     -> 12
    [] tracer[r] = "proc"     -> 11
    [] tracer[r] = "bind"     -> 10
    [] tracer[r] = "mkdir"    -> 9
    [] tracer[r] = "pivot"    -> 8
    [] tracer[r] = "chdir"    -> 7
    [] tracer[r] = "unmount"  -> 6
    [] tracer[r] = "remove"   -> 5
    [] tracer[r] = "hostname" -> 4
    [] tracer[r] = "network"  -> 3
    [] tracer[r] = "elapsed"  -> 2
    [] tracer[r] = "run"      -> 1
    [] OTHER                  -> 0
NetSetGoRank(r) ==
  CASE nsg[r] = "off"      -> 3
    [] nsg[r] = "running"  -> 2
    [] nsg[r] = "attached" -> 1
    [] OTHER               -> 0

\* No more than these are the steps of run r still to come: each look for the
\* network costs two, and time passes between any two of them.
StepsLeft(r) ==
  ParentRank(r) + TracerRank(r) + NetSetGoRank(r) + 2 * (MaxWait + 1 - waited[r])

\* Some run comes nearer to its end, and no other is put off.
Progresses ==
  \E r \in Runs : /\ StepsLeft(r) \in Nat /\ StepsLeft(r)' < StepsLeft(r)
                  /\ \A s \in Runs \ {r} : StepsLeft(s)' = StepsLeft(s)

LEMMA RanksAreNatural ==
  ASSUME LInv, NEW r \in Runs
  PROVE  /\ ParentRank(r) \in Nat /\ TracerRank(r) \in Nat /\ NetSetGoRank(r) \in Nat
         /\ MaxWait + 1 - waited[r] \in Nat /\ StepsLeft(r) \in Nat
<1>1. MaxWait + 1 - waited[r] \in Nat
  BY LauncherAssumption DEF LauncherAssumption, LInv, TypeOK
<1>2. ParentRank(r) \in Nat /\ TracerRank(r) \in Nat /\ NetSetGoRank(r) \in Nat
  BY DEF ParentRank, TracerRank, NetSetGoRank
<1> QED
  BY <1>1, <1>2 DEF StepsLeft

\* If a step of r does nothing to other runs, lowers a rank of r and raises none.
LEMMA RankFalls ==
  ASSUME LInv, NEW r \in Runs,
         \A s \in Runs \ {r} : /\ parent'[s] = parent[s] /\ tracer'[s] = tracer[s]
                               /\ nsg'[s] = nsg[s] /\ waited'[s] = waited[s],
         ParentRank(r)' \in Nat, TracerRank(r)' \in Nat, NetSetGoRank(r)' \in Nat,
         ParentRank(r)' <= ParentRank(r), TracerRank(r)' <= TracerRank(r),
         NetSetGoRank(r)' <= NetSetGoRank(r), waited'[r] = waited[r],
         \/ ParentRank(r)' < ParentRank(r)
         \/ TracerRank(r)' < TracerRank(r)
         \/ NetSetGoRank(r)' < NetSetGoRank(r)
  PROVE  Progresses
<1>1. \A s \in Runs \ {r} : StepsLeft(s)' = StepsLeft(s)
  BY DEF StepsLeft, ParentRank, TracerRank, NetSetGoRank
<1>2. StepsLeft(r) \in Nat /\ StepsLeft(r)' < StepsLeft(r)
  BY RanksAreNatural, LauncherAssumption DEF LauncherAssumption, StepsLeft, LInv, TypeOK
<1> QED
  BY <1>1, <1>2 DEF Progresses

LEMMA TracerProgresses ==
  ASSUME LInv, NEW r \in Runs, NEW to, tracer' = [tracer EXCEPT ![r] = to],
         UNCHANGED <<parent, nsg, waited>>,
         TracerRank(r)' < TracerRank(r)
  PROVE  Progresses
<1>1. \A s \in Runs \ {r} : tracer'[s] = tracer[s]
  BY DEF LInv, TypeOK
<1>2. ParentRank(r)' = ParentRank(r) /\ NetSetGoRank(r)' = NetSetGoRank(r)
  BY DEF ParentRank, NetSetGoRank
<1>3. TracerRank(r)' \in Nat
  BY DEF TracerRank
<1>4. ParentRank(r) \in Nat /\ TracerRank(r) \in Nat /\ NetSetGoRank(r) \in Nat
  BY RanksAreNatural
<1>5. /\ ParentRank(r)' \in Nat /\ NetSetGoRank(r)' \in Nat
      /\ ParentRank(r)' <= ParentRank(r) /\ NetSetGoRank(r)' <= NetSetGoRank(r)
      /\ TracerRank(r)' <= TracerRank(r)
  BY <1>2, <1>3, <1>4
<1> QED
  BY <1>1, <1>3, <1>5, RankFalls

\* The end of a tracer.
LEMMA EndProgresses ==
  ASSUME LInv, NEW r \in Runs, NEW c, NEW why, Alive(r), End(r, c, why)
  PROVE  Progresses
<1>1. tracer' = [tracer EXCEPT ![r] = "exited"] /\ UNCHANGED <<parent, nsg, waited>>
  BY DEF End
<1>2. TracerRank(r)' = 0
  BY <1>1 DEF TracerRank, LInv, TypeOK
<1>3. TracerRank(r) > 0
  BY DEF TracerRank, Alive, TracerSteps
<1> QED
  BY <1>1, <1>2, <1>3, TracerProgresses

\* A step of a tracer that does not wait.
LEMMA GoProgresses ==
  ASSUME LInv, NEW r \in Runs, NEW from, NEW to, Go(r, from, to), waited' = waited,
         <<from, to>> \in {<<"proc", "bind">>, <<"bind", "mkdir">>, <<"mkdir", "pivot">>,
                           <<"pivot", "chdir">>, <<"chdir", "unmount">>, <<"unmount", "remove">>,
                           <<"remove", "hostname">>, <<"hostname", "network">>,
                           <<"hostname", "run">>, <<"network", "elapsed">>, <<"network", "run">>}
  PROVE  Progresses
<1>1. tracer' = [tracer EXCEPT ![r] = to] /\ UNCHANGED <<parent, nsg, waited>>
  BY DEF Go
<1>2. tracer[r] = from /\ tracer'[r] = to
  BY <1>1 DEF Go, LInv, TypeOK
<1>3. TracerRank(r)' < TracerRank(r)
  BY <1>2 DEF TracerRank
<1> QED
  BY <1>1, <1>3, TracerProgresses

LEMMA SleepProgresses ==
  ASSUME LInv, NEW r \in Runs, Sleep(r)
  PROVE  Progresses
<1>1. PICK w \in 1..(MaxWait + 1) :
        /\ w > waited[r] \/ w = MaxWait + 1
        /\ waited' = [waited EXCEPT ![r] = w]
  BY DEF Sleep
<1>2. /\ tracer[r] = "elapsed" /\ tracer' = [tracer EXCEPT ![r] = "network"]
      /\ UNCHANGED <<parent, nsg>>
  BY DEF Sleep, Go
<1>3. w > waited[r] /\ waited'[r] = w /\ w \in Nat /\ waited[r] \in Nat /\ MaxWait \in Nat
  BY <1>1, LauncherAssumption DEF LauncherAssumption, Sleep, TimeLeft, LInv, TypeOK
<1>4. TracerRank(r) = 2 /\ TracerRank(r)' = 3
  BY <1>2 DEF TracerRank, LInv, TypeOK
<1>5. ParentRank(r)' = ParentRank(r) /\ NetSetGoRank(r)' = NetSetGoRank(r)
  BY <1>2 DEF ParentRank, NetSetGoRank
<1>6. StepsLeft(r) \in Nat /\ StepsLeft(r)' < StepsLeft(r)
  BY <1>3, <1>4, <1>5, RanksAreNatural DEF StepsLeft
<1>7. \A s \in Runs \ {r} : tracer'[s] = tracer[s] /\ waited'[s] = waited[s]
  BY <1>1, <1>2 DEF LInv, TypeOK
<1>8. \A s \in Runs \ {r} : StepsLeft(s)' = StepsLeft(s)
  BY <1>2, <1>7 DEF StepsLeft, ParentRank, TracerRank, NetSetGoRank
<1> QED
  BY <1>6, <1>8 DEF Progresses

LEMMA TracerStepProgresses ==
  ASSUME LInv, NEW r \in Runs, TracerStep(r)
  PROVE  Progresses
<1>1. CASE MountProc(r) \/ BindMount(r) \/ MakePutold(r) \/ Chdir(r) \/ RemovePutold(r)
  BY <1>1, GoProgresses
  DEF MountProc, BindMount, MakePutold, Chdir, RemovePutold
<1>2. CASE PivotRoot(r)
  <2>1. CASE putold
    BY <1>2, <2>1, GoProgresses DEF PivotRoot
  <2>2. CASE ~putold
    BY <1>2, <2>2, EndProgresses DEF PivotRoot, Alive, TracerSteps
  <2> QED
    BY <2>1, <2>2
<1>3. CASE UnmountOldRoot(r)
  <2>1. CASE oldRoot[r]
    BY <1>3, <2>1, GoProgresses DEF UnmountOldRoot
  <2>2. CASE ~oldRoot[r]
    BY <1>3, <2>2, EndProgresses DEF UnmountOldRoot, Alive, TracerSteps
  <2> QED
    BY <2>1, <2>2
<1>4. CASE SetHostname(r)
  BY <1>4, GoProgresses DEF SetHostname, AfterHostname
<1>5. CASE LookForNetwork(r)
  BY <1>5, GoProgresses DEF LookForNetwork
<1>6. CASE NetworkTimesOut(r)
  BY <1>6, EndProgresses DEF NetworkTimesOut, Alive, TracerSteps
<1> QED
  BY <1>1, <1>2, <1>3, <1>4, <1>5, <1>6, SleepProgresses DEF TracerStep

\* The parent, and netsetgo.
LEMMA OutsideProgresses ==
  ASSUME LInv, NEW r \in Runs,
         ParentStep(r) \/ ParentFails(r) \/ Attach(r) \/ NetSetGoEnds(r)
  PROVE  Progresses
<1>1. /\ ParentRank(r) \in Nat /\ TracerRank(r) \in Nat /\ NetSetGoRank(r) \in Nat
      /\ ParentRank(r)' \in Nat /\ TracerRank(r)' \in Nat /\ NetSetGoRank(r)' \in Nat
  BY RanksAreNatural DEF ParentRank, TracerRank, NetSetGoRank
<1>2. waited' = waited
  BY DEF ParentStep, StartTracer, StartNetSetGo, NetSetGoDone, NetSetGoFailed, PassOnStatus,
         ParentFails, ParentExits, Attach, NetSetGoEnds
<1>3. CASE StartTracer(r)
  <2>1. tracer[r] = "none" /\ parent[r] = "start" /\ nsg' = nsg
    BY <1>3 DEF StartTracer, LInv, Begins
  <2>2. tracer'[r] \in {"proc", "hostname"} /\ parent'[r] \in {"netsetgo", "wait"}
    BY <1>3 DEF StartTracer, FirstStep, LInv, TypeOK
  <2>3. \A s \in Runs \ {r} : parent'[s] = parent[s] /\ tracer'[s] = tracer[s]
    BY <1>3 DEF StartTracer, LInv, TypeOK
  <2>4. ParentRank(r)' < ParentRank(r) /\ TracerRank(r)' < TracerRank(r)
    BY <2>1, <2>2 DEF ParentRank, TracerRank
  <2>5. NetSetGoRank(r)' = NetSetGoRank(r)
    BY <2>1 DEF NetSetGoRank
  <2> QED
    BY <1>1, <1>2, <2>1, <2>3, <2>4, <2>5, RankFalls
<1>4. CASE NetSetGoDone(r) \/ NetSetGoFailed(r) \/ PassOnStatus(r) \/ ParentFails(r)
  <2>1. /\ tracer' = tracer /\ nsg' = nsg
        /\ \A s \in Runs \ {r} : parent'[s] = parent[s]
    BY <1>4 DEF NetSetGoDone, NetSetGoFailed, PassOnStatus, ParentFails, ParentExits, LInv, TypeOK
  <2>2. \/ parent[r] \in {"start", "netsetgo", "wait"} /\ parent'[r] = "exited"
        \/ parent[r] = "netsetgo" /\ parent'[r] = "wait"
    BY <1>4 DEF NetSetGoDone, NetSetGoFailed, PassOnStatus, TracerEnded, ParentFails, ParentExits,
        LInv, TypeOK
  <2>3. ParentRank(r)' < ParentRank(r)
    BY <2>2 DEF ParentRank
  <2>4. TracerRank(r)' = TracerRank(r) /\ NetSetGoRank(r)' = NetSetGoRank(r)
    BY <2>1 DEF TracerRank, NetSetGoRank
  <2> QED
    BY <1>1, <1>2, <2>1, <2>3, <2>4, RankFalls
<1>5. CASE StartNetSetGo(r) \/ Attach(r) \/ NetSetGoEnds(r)
  <2>1. /\ tracer' = tracer /\ parent' = parent
        /\ \A s \in Runs \ {r} : nsg'[s] = nsg[s]
    BY <1>5 DEF StartNetSetGo, Attach, NetSetGoEnds, LInv, TypeOK
  <2>2. \/ nsg[r] = "off" /\ nsg'[r] = "running"
        \/ nsg[r] = "running" /\ nsg'[r] = "attached"
        \/ nsg[r] \in {"running", "attached"} /\ nsg'[r] \in {"ok", "failed"}
    BY <1>5 DEF StartNetSetGo, Attach, NetSetGoEnds, LInv, TypeOK
  <2>3. NetSetGoRank(r)' < NetSetGoRank(r)
    BY <2>2 DEF NetSetGoRank
  <2>4. TracerRank(r)' = TracerRank(r) /\ ParentRank(r)' = ParentRank(r)
    BY <2>1 DEF TracerRank, ParentRank
  <2> QED
    BY <1>1, <1>2, <2>1, <2>3, <2>4, RankFalls
<1> QED
  BY <1>3, <1>4, <1>5 DEF ParentStep

\* Every step of every run brings that run nearer to its end and puts no other
\* off, however many runs there are, whatever fails and whoever is killed: the
\* runs wind down but for what instance.Run and netsetgo do on their own
\* (main.go:61-108, 113-211, net.go:9-31).
THEOREM EveryStepIsProgress == Spec => [][Progresses]_vars
<1>1. LInv /\ [Next]_vars => [Progresses]_vars
  <2> SUFFICES ASSUME LInv, Next, vars' # vars PROVE Progresses
    OBVIOUS
  <2>1. CASE \E r \in Runs : CallFails(r) \/ Killed(r) \/ RunReturns(r)
    BY <2>1, EndProgresses DEF CallFails, Killed, RunReturns, Alive, TracerSteps
  <2> QED
    BY <2>1, TracerStepProgresses, OutsideProgresses DEF Next, Finished
<1> QED
  BY <1>1, LauncherInvariance, PTL DEF Spec
=============================================================================

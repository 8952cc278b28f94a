---------------------------- MODULE KernelProofs ----------------------------
(***************************************************************************)
(* Lemmas about the threads of module Kernel, for both runners: types, what *)
(* a step makes of one thread, and an invariant of thread groups.          *)
(***************************************************************************)
EXTENDS Kernel, TLAPS

\* p will not execute another instruction of its own.
Silenced(p) == st[p] \in {"dying", "dead", "reaped"} \/ AtExitStop(p)
SilencedGroup(l) == \A p \in Procs : leader[p] = l => Silenced(p)

Fates == {NoFate, Signaled} \cup {Exited(c) : c \in ExitCodes}

\* A leader leads itself and is there before and after its threads, who is not
\* born leads nobody, and a group whose end is decided is silent.
TreeInv ==
  /\ leader[Tracee] = Tracee
  /\ st[Tracee] = "unborn" => \A p \in Procs : st[p] = "unborn"
  /\ \A p \in Procs : leader[leader[p]] = leader[p]
  /\ \A p \in Procs : st[p] = "unborn" => leader[p] = p /\ did[p] = {}
  /\ \A p \in Procs : leader[p] # p => st[leader[p]] # "unborn"
  /\ \A p \in Procs : st[leader[p]] = "reaped" => st[p] = "reaped"
  /\ \A p \in Procs : st[p] = "execing" => Threaded(p)
  /\ \A p \in Procs : fate[p] \in Fates
  /\ \A p \in Procs : fate[leader[p]] # NoFate => Silenced(p)

-----------------------------------------------------------------------------
(* Types.                                                                  *)

LEMMA StatusesHold ==
  /\ \A k \in StopKinds \cup {"NONE"} : Stop(k) \in Statuses
  /\ \A c \in -1..255 : AtExit(c) \in Statuses /\ Exited(c) \in Statuses
  /\ Signaled \in Statuses /\ NoFate \in Statuses
  /\ \A c \in ExitCodes : c \in -1..255
<1>1. \A c \in ExitCodes : c \in -1..255
  BY KernelAssumption DEF KernelAssumption
<1>2. \A k \in StopKinds \cup {"NONE"} : Stop(k) \in Statuses
  BY DEF Stop, Statuses
<1>3. \A c \in -1..255 : AtExit(c) \in Statuses /\ Exited(c) \in Statuses
  BY DEF AtExit, Exited, Statuses, StopKinds
<1>4. Signaled \in Statuses /\ NoFate \in Statuses
  BY <1>2 DEF Signaled, NoFate, Statuses
<1> QED
  BY <1>1, <1>2, <1>3, <1>4

LEMMA FinalType ==
  ASSUME KernelTypeOK, NEW p \in Procs
  PROVE  Final(p) \in Statuses /\ Final(p).code \in -1..255
<1>1. status[p] \in Statuses /\ fate[leader[p]] \in Statuses
  BY DEF KernelTypeOK
<1>2. status[p].code \in -1..255
  BY <1>1 DEF Statuses
<1>3. Final(p) \in Statuses
  BY <1>1, <1>2, StatusesHold DEF Final
<1> QED
  BY <1>3 DEF Statuses

LEMMA WokenType ==
  ASSUME KernelTypeOK, NEW p \in Procs
  PROVE  Woken(p) \in States
BY DEF KernelTypeOK, Woken, States

LEMMA DoomType ==
  ASSUME KernelTypeOK, NEW S
  PROVE  Doom(S) \in [Procs -> Statuses]
BY StatusesHold DEF KernelTypeOK, Doom

LEMMA StartTraceeType ==
  ASSUME KernelTypeOK, StartTracee
  PROVE  KernelTypeOK'
<1>1. Stop("TRAP") \in Statuses
  BY StatusesHold DEF StopKinds
<1> QED
  BY <1>1, KernelAssumption
  DEF KernelAssumption, StartTracee, KernelTypeOK, treeVars, States

LEMMA CollectType ==
  ASSUME KernelTypeOK, NEW p \in Procs, Collect(p)
  PROVE  KernelTypeOK'
<1>1. Final(p) \in Statuses
  BY FinalType
<1> QED
  BY <1>1 DEF KernelTypeOK, Collect, treeVars, States

LEMMA RestartType ==
  ASSUME KernelTypeOK, NEW p \in Procs, Restart(p), opts' \in BOOLEAN
  PROVE  KernelTypeOK'
BY DEF KernelTypeOK, Restart, treeVars, States

LEMMA KillAllType ==
  ASSUME KernelTypeOK, NEW S, KillAll(S)
  PROVE  KernelTypeOK'
<1>1. Kill(S) \in [Procs -> States]
  BY WokenType DEF Kill, KernelTypeOK
<1> QED
  BY <1>1, DoomType DEF KernelTypeOK, KillAll, treeVars

LEMMA LetGoType ==
  ASSUME KernelTypeOK, NEW S, LetGo(S)
  PROVE  KernelTypeOK'
<1>1. st' \in [Procs -> States]
  BY WokenType DEF LetGo, KernelTypeOK, States
<1> QED
  BY <1>1, DoomType DEF KernelTypeOK, LetGo, treeVars

LEMMA StopAtType ==
  ASSUME KernelTypeOK, NEW p \in Procs, NEW s \in Statuses, StopAt(p, s)
  PROVE  st' \in [Procs -> States] /\ status' \in [Procs -> Statuses]
BY DEF KernelTypeOK, StopAt, States

LEMMA ProcessStepType ==
  ASSUME KernelTypeOK, NEW p \in Procs, ProcessStep(p)
  PROVE  KernelTypeOK'
<1>1. CASE Interrupt(p)
  <2>1. PICK k \in {"OTHER", "SEGV", "XCPU"} : StopAt(p, Stop(k))
    BY <1>1 DEF Interrupt
  <2>2. Stop(k) \in Statuses
    BY StatusesHold DEF StopKinds
  <2> QED
    BY <1>1, <2>1, <2>2, StopAtType DEF Interrupt, KernelTypeOK, treeVars
<1>2. CASE Exec(p)
  <2>1. Stop("EXEC") \in Statuses
    BY StatusesHold DEF StopKinds
  <2>2. st' \in [Procs -> States] /\ status' \in [Procs -> Statuses]
    BY <1>2, <2>1, StopAtType DEF Exec
  <2>3. did' \in [Procs -> SUBSET {"FORK", "CLONE", "EXEC"}]
    BY <1>2 DEF Exec, KernelTypeOK
  <2> QED
    BY <1>2, <2>2, <2>3 DEF Exec, KernelTypeOK
<1>3. CASE BeginExec(p)
  <2>1. st' \in [Procs -> States]
    BY <1>3, WokenType DEF BeginExec, KernelTypeOK, States
  <2> QED
    BY <1>3, <2>1 DEF BeginExec, KernelTypeOK, treeVars
<1>4. CASE EndExec(p)
  <2>1. Stop("EXEC") \in Statuses
    BY StatusesHold DEF StopKinds
  <2>2. st' \in [Procs -> States] /\ status' \in [Procs -> Statuses]
    BY <1>4, <2>1 DEF EndExec, KernelTypeOK, States
  <2>3. did' \in [Procs -> SUBSET {"FORK", "CLONE", "EXEC"}]
    BY <1>4 DEF EndExec, KernelTypeOK
  <2> QED
    BY <1>4, <2>2, <2>3 DEF EndExec, KernelTypeOK
<1>5. CASE Exit(p)
  <2>1. PICK c \in ExitCodes : StopAt(p, AtExit(c))
    BY <1>5 DEF Exit
  <2>2. AtExit(c) \in Statuses
    BY StatusesHold
  <2> QED
    BY <1>5, <2>1, <2>2, StopAtType DEF Exit, KernelTypeOK, treeVars
<1>6. CASE ExitGroup(p)
  <2>1. PICK c \in ExitCodes : /\ status' = [status EXCEPT ![p] = AtExit(c)]
                               /\ fate' = [fate EXCEPT ![leader[p]] = Exited(c)]
    BY <1>6 DEF ExitGroup
  <2>2. AtExit(c) \in Statuses /\ Exited(c) \in Statuses
    BY StatusesHold
  <2>3. status' \in [Procs -> Statuses] /\ fate' \in [Procs -> Statuses]
    BY <2>1, <2>2 DEF KernelTypeOK
  <2>4. st' \in [Procs -> States]
    BY <1>6, WokenType DEF ExitGroup, KernelTypeOK, States
  <2> QED
    BY <1>6, <2>3, <2>4 DEF ExitGroup, KernelTypeOK, treeVars
<1>7. ASSUME NEW c \in Procs, Fork(p, c)
      PROVE  KernelTypeOK'
  <2>1. PICK k \in {"FORK", "CLONE"}, l \in {c, leader[p]} :
          /\ st' = [st EXCEPT ![p] = "forking", ![c] = "pending"]
          /\ status' = [status EXCEPT ![p] = Stop(k), ![c] = Stop("OTHER")]
          /\ leader' = [leader EXCEPT ![c] = l]
          /\ did' = [did EXCEPT ![p] = @ \cup {k}]
    BY <1>7 DEF Fork
  <2>2. Stop(k) \in Statuses /\ Stop("OTHER") \in Statuses
    BY StatusesHold DEF StopKinds
  <2>3. st' \in [Procs -> States] /\ status' \in [Procs -> Statuses]
    BY <2>1, <2>2 DEF KernelTypeOK, States
  <2>4. /\ leader' \in [Procs -> Procs]
        /\ did' \in [Procs -> SUBSET {"FORK", "CLONE", "EXEC"}]
    BY <2>1 DEF KernelTypeOK
  <2>5. group' \in SUBSET Procs /\ strayed' \in SUBSET Procs
    BY <1>7 DEF Fork, KernelTypeOK
  <2> QED
    BY <1>7, <2>3, <2>4, <2>5 DEF Fork, KernelTypeOK
<1>8. CASE ForkStop(p) \/ LeaveGroup(p) \/ JoinGroup(p)
  BY <1>8 DEF ForkStop, LeaveGroup, JoinGroup, KernelTypeOK, treeVars, States
<1>9. CASE UseCpu(p)
  BY <1>9, KernelAssumption DEF KernelAssumption, UseCpu, KernelTypeOK
<1>10. CASE UseMemory(p)
  BY <1>10, KernelAssumption DEF KernelAssumption, UseMemory, KernelTypeOK
<1>11. CASE Die(p)
  <2>1. AtExit(0) \in Statuses
    BY StatusesHold
  <2> QED
    BY <1>11, <2>1 DEF Die, KernelTypeOK, treeVars, States
<1>12. CASE ExternalKill(p)
  BY <1>12, KillAllType DEF ExternalKill
<1> QED
  BY <1>1, <1>2, <1>3, <1>4, <1>5, <1>6, <1>7, <1>8, <1>9, <1>10, <1>11, <1>12
  DEF ProcessStep

LEMMA KernelInitType == KernelInit => KernelTypeOK
<1> SUFFICES ASSUME KernelInit PROVE KernelTypeOK
  OBVIOUS
<1>1. Stop("NONE") \in Statuses /\ NoFate \in Statuses
  BY StatusesHold
<1>2. group \in SUBSET Procs /\ strayed \in SUBSET Procs
  BY KernelAssumption DEF KernelAssumption, KernelInit
<1>3. st \in [Procs -> States] /\ status \in [Procs -> Statuses]
  BY <1>1 DEF KernelInit, States
<1>4. fate \in [Procs -> Statuses] /\ leader \in [Procs -> Procs]
  BY <1>1 DEF KernelInit
<1>5. cpu \in [Procs -> 0..MaxCpu] /\ rss \in [Procs -> 0..MaxRss]
  BY KernelAssumption DEF KernelAssumption, KernelInit
<1>6. did \in [Procs -> SUBSET {"FORK", "CLONE", "EXEC"}] /\ opts \in BOOLEAN
  BY DEF KernelInit
<1> QED
  BY <1>2, <1>3, <1>4, <1>5, <1>6 DEF KernelTypeOK

-----------------------------------------------------------------------------
(* What a step of the tree makes of one thread q.                          *)

Same(q) == st'[q] = st[q] /\ status'[q] = status[q] /\ did'[q] = did[q]

\* q is told to end, by a signal or by another thread of its group.
Wakes(q) ==
  /\ st[q] \in Live
  /\ st'[q] = Woken(q) /\ status'[q] = status[q] /\ did'[q] = did[q]
  /\ Threaded(q) \/ fate'[leader[q]] = Signaled \/ fate[leader[q]] # NoFate

\* q ran, and reports what it has done or goes on to do it.
Reports(q) ==
  /\ st[q] = "running"
  /\ \/ /\ st'[q] = "pending" /\ did'[q] = did[q]
        /\ status'[q].kind \in {"OTHER", "SEGV", "XCPU", "EXIT"}
     \/ st'[q] = "pending" /\ did'[q] = did[q] \cup {"EXEC"} /\ status'[q] = Stop("EXEC")
     \/ \E k \in {"FORK", "CLONE"} :
          st'[q] = "forking" /\ did'[q] = did[q] \cup {k} /\ status'[q] = Stop(k)
     \/ st'[q] = "execing" /\ did'[q] = did[q] /\ status'[q] = status[q] /\ Threaded(q)

Arrives(q) == /\ st[q] = "forking" /\ st'[q] = "pending"
              /\ status'[q] = status[q] /\ did'[q] = did[q]
Begins(q)  == /\ st[q] = "unborn" /\ st'[q] = "pending"
              /\ status'[q] = Stop("OTHER") /\ did'[q] = did[q]
              /\ \E r \in Procs : st[r] = "running"
Dies(q)    == /\ st[q] = "dying" /\ st'[q] \in {"dead", "pending"}
              /\ status'[q] = AtExit(0) /\ did'[q] = did[q]

\* q executes in the place of its leader, or the leader's place is taken.
GivesWay(q) == /\ st[q] = "execing" /\ st'[q] = "reaped" /\ leader[q] # q
               /\ status'[q] = status[q] /\ did'[q] = did[q]
Becomes(q)  == /\ leader[q] = q /\ Threaded(q)
               /\ st[q] \in {"dead", "execing"} /\ st'[q] = "pending"
               /\ status'[q] = Stop("EXEC")
               /\ \E r \in Procs : /\ st[r] = "execing" /\ leader[r] = q
                                   /\ did'[q] = did[r] \cup {"EXEC"}

ThreadStep(q) ==
  \/ Same(q) \/ Wakes(q) \/ Reports(q) \/ Arrives(q) \/ Begins(q) \/ Dies(q)
  \/ GivesWay(q) \/ Becomes(q)

LEMMA KillAllEffect ==
  ASSUME KernelTypeOK, NEW S, KillAll(S), NEW q \in Procs
  PROVE  Same(q) \/ (Wakes(q) /\ leader[q] \in S)
<1>1. /\ st'[q] = IF leader[q] \in S THEN Woken(q) ELSE st[q]
      /\ status' = status /\ did' = did /\ leader[q] \in Procs
  BY DEF KillAll, Kill, treeVars, KernelTypeOK
<1>2. CASE leader[q] \notin S \/ st[q] \notin Live
  BY <1>1, <1>2 DEF Same, Woken, AtExitStop, Stopped, Live
<1>3. CASE leader[q] \in S /\ st[q] \in Live
  <2>1. fate'[leader[q]] = Signaled \/ fate[leader[q]] # NoFate
    BY <1>1, <1>3 DEF KillAll, Doom
  <2> QED
    BY <1>1, <1>3, <2>1 DEF Wakes
<1> QED
  BY <1>2, <1>3

LEMMA ProcessEffect ==
  ASSUME KernelTypeOK, TreeInv, NEW p \in Procs, ProcessStep(p), NEW q \in Procs
  PROVE  ThreadStep(q)
<1> USE DEF ThreadStep
<1>1. CASE Interrupt(p)
  BY <1>1 DEF Interrupt, StopAt, Stop, treeVars, KernelTypeOK, Same, Reports
<1>2. CASE Exec(p)
  BY <1>2 DEF Exec, StopAt, KernelTypeOK, Same, Reports
<1>3. CASE BeginExec(p)
  <2>1. /\ st'[q] = IF q = p THEN "execing"
                    ELSE IF leader[q] = leader[p] THEN Woken(q) ELSE st[q]
        /\ status' = status /\ did' = did /\ st[p] = "running" /\ Threaded(p)
    BY <1>3 DEF BeginExec, Others, Threaded, treeVars
  <2>2. CASE q = p
    BY <2>1, <2>2 DEF Reports
  <2>3. CASE q # p /\ leader[q] = leader[p]
    <3>1. Threaded(q)
      BY <2>3 DEF Threaded
    <3> QED
      BY <2>1, <2>3, <3>1 DEF Wakes, Same, Woken, AtExitStop, Stopped, Live
  <2>4. CASE q # p /\ leader[q] # leader[p]
    BY <2>1, <2>4 DEF Same
  <2> QED
    BY <2>2, <2>3, <2>4
<1>4. CASE EndExec(p)
  <2>1. /\ st[p] = "execing" /\ leader[p] \in Procs /\ leader[leader[p]] = leader[p]
        /\ \A r \in Others(p) : r = leader[p] /\ st[r] = "dead"
        /\ st' = [st EXCEPT ![p] = "reaped", ![leader[p]] = "pending"]
        /\ status' = [status EXCEPT ![leader[p]] = Stop("EXEC")]
        /\ did' = [did EXCEPT ![leader[p]] = did[p] \cup {"EXEC"}]
    BY <1>4 DEF EndExec, KernelTypeOK, TreeInv
  <2>2. CASE q = leader[p]
    <3>1. Threaded(q)
      BY <2>1, <2>2 DEF TreeInv, Threaded
    <3>2. st[q] \in {"dead", "execing"}
      <4>1. CASE q = p
        BY <2>1, <4>1
      <4>2. CASE q # p
        <5>1. st[q] # "reaped"
          BY <2>1, <2>2 DEF TreeInv
        <5>2. q \in Others(p)
          BY <2>1, <2>2, <4>2, <5>1 DEF Others
        <5> QED
          BY <2>1, <5>2
      <4> QED
        BY <4>1, <4>2
    <3>3. /\ st'[q] = "pending" /\ status'[q] = Stop("EXEC")
          /\ did'[q] = did[p] \cup {"EXEC"} /\ leader[q] = q
      BY <2>1, <2>2 DEF KernelTypeOK
    <3> QED
      BY <2>1, <2>2, <3>1, <3>2, <3>3 DEF Becomes
  <2>3. CASE q # leader[p] /\ q = p
    BY <2>1, <2>3 DEF GivesWay, KernelTypeOK
  <2>4. CASE q # leader[p] /\ q # p
    BY <2>1, <2>4 DEF Same, KernelTypeOK
  <2> QED
    BY <2>2, <2>3, <2>4
<1>5. CASE Exit(p)
  BY <1>5 DEF Exit, StopAt, AtExit, treeVars, KernelTypeOK, Same, Reports
<1>6. CASE ExitGroup(p)
  <2>1. PICK c \in ExitCodes : status' = [status EXCEPT ![p] = AtExit(c)]
    BY <1>6 DEF ExitGroup
  <2>2. /\ st'[q] = IF q = p THEN "pending"
                    ELSE IF leader[q] = leader[p] THEN Woken(q) ELSE st[q]
        /\ did' = did /\ st[p] = "running"
    BY <1>6 DEF ExitGroup, treeVars
  <2>3. CASE q = p
    BY <2>1, <2>2, <2>3 DEF Reports, AtExit, KernelTypeOK
  <2>4. CASE q # p /\ leader[q] = leader[p]
    <3>1. Threaded(q)
      BY <2>4 DEF Threaded
    <3> QED
      BY <2>1, <2>2, <2>4, <3>1
      DEF Wakes, Same, Woken, AtExitStop, Stopped, Live, KernelTypeOK
  <2>5. CASE q # p /\ leader[q] # leader[p]
    BY <2>1, <2>2, <2>5 DEF Same, KernelTypeOK
  <2> QED
    BY <2>3, <2>4, <2>5
<1>7. ASSUME NEW c \in Procs, Fork(p, c)
      PROVE  ThreadStep(q)
  <2>1. PICK k \in {"FORK", "CLONE"} :
          /\ st' = [st EXCEPT ![p] = "forking", ![c] = "pending"]
          /\ status' = [status EXCEPT ![p] = Stop(k), ![c] = Stop("OTHER")]
          /\ did' = [did EXCEPT ![p] = @ \cup {k}]
    BY <1>7 DEF Fork
  <2>2. st[p] = "running" /\ st[c] = "unborn"
    BY <1>7 DEF Fork
  <2>3. CASE q = p
    BY <2>1, <2>2, <2>3 DEF Reports, KernelTypeOK
  <2>4. CASE q = c
    BY <2>1, <2>2, <2>4 DEF Begins, KernelTypeOK
  <2>5. CASE q # p /\ q # c
    BY <2>1, <2>5 DEF Same, KernelTypeOK
  <2> QED
    BY <2>3, <2>4, <2>5
<1>8. CASE ForkStop(p)
  BY <1>8 DEF ForkStop, treeVars, KernelTypeOK, Same, Arrives
<1>9. CASE LeaveGroup(p) \/ JoinGroup(p) \/ UseCpu(p) \/ UseMemory(p)
  BY <1>9 DEF LeaveGroup, JoinGroup, UseCpu, UseMemory, Same
<1>10. CASE Die(p)
  BY <1>10 DEF Die, treeVars, KernelTypeOK, Same, Dies
<1>11. CASE ExternalKill(p)
  BY <1>11, KillAllEffect DEF ExternalKill
<1> QED
  BY <1>1, <1>2, <1>3, <1>4, <1>5, <1>6, <1>7, <1>8, <1>9, <1>10, <1>11
  DEF ProcessStep

-----------------------------------------------------------------------------
(* What it makes of a group.                                               *)

LeaderStep ==
  \/ leader' = leader
  \/ \E c \in Procs, r \in Procs :
       /\ st[c] = "unborn" /\ st'[c] = "pending" /\ st[r] = "running"
       /\ leader' = [leader EXCEPT ![c] = leader[r]]

\* A group whose end is decided is silent from then on.
FateStep(l) ==
  \/ fate'[l] = fate[l]
  \/ /\ fate[l] = NoFate /\ fate'[l] \in Fates \ {NoFate} /\ leader' = leader
     /\ \A q \in Procs : leader[q] = l => Silenced(q)'
     /\ \E q \in Procs : /\ leader[q] = l /\ st[q] \in Live
                         /\ fate'[l] = Signaled \/ st[q] = "running"

\* Only a group that runs uses more.
GrowStep(l) ==
  \/ cpu'[l] = cpu[l] /\ rss'[l] = rss[l]
  \/ /\ cpu'[l] >= cpu[l] /\ rss'[l] >= rss[l]
     /\ \E q \in Procs : leader[q] = l /\ st[q] = "running"

TreeStep == /\ \A q \in Procs : ThreadStep(q) /\ FateStep(q) /\ GrowStep(q)
            /\ LeaderStep

LEMMA WokenIsSilenced ==
  ASSUME NEW q \in Procs, st[q] \in States \ {"unborn"}, st'[q] = Woken(q),
         status'[q] = status[q]
  PROVE  Silenced(q)'
BY DEF Woken, Silenced, AtExitStop, Stopped, States, Live

LEMMA KillAllIsTreeStep ==
  ASSUME KernelTypeOK, TreeInv, NEW S, KillAll(S)
  PROVE  TreeStep
<1>1. LeaderStep /\ \A q \in Procs : GrowStep(q)
  BY DEF KillAll, treeVars, LeaderStep, GrowStep
<1>2. ASSUME NEW l \in Procs
      PROVE  FateStep(l)
  <2>1. /\ fate'[l] = Doom(S)[l] /\ leader' = leader /\ status' = status
        /\ \A q \in Procs : leader[q] \in S => st'[q] = Woken(q)
    BY DEF KillAll, Kill, treeVars
  <2>2. CASE l \in S /\ fate[l] = NoFate /\ \E q \in Procs : leader[q] = l /\ st[q] \in Live
    <3>1. fate'[l] = Signaled
      BY <2>1, <2>2 DEF Doom
    <3>2. Signaled \in Fates \ {NoFate}
      BY DEF Fates, Signaled, NoFate, Stop
    <3>3. ASSUME NEW q \in Procs, leader[q] = l
          PROVE  Silenced(q)'
      <4>1. st[q] # "unborn"
        BY <2>2, <3>3 DEF TreeInv, Live
      <4>2. st[q] \in States
        BY DEF KernelTypeOK
      <4> QED
        BY <2>1, <2>2, <3>3, <4>1, <4>2, WokenIsSilenced
    <3> QED
      BY <2>1, <2>2, <3>1, <3>2, <3>3 DEF FateStep
  <2>3. CASE ~(l \in S /\ fate[l] = NoFate /\ \E q \in Procs : leader[q] = l /\ st[q] \in Live)
    <3>1. fate'[l] = fate[l]
      BY <2>1, <2>3 DEF Doom
    <3> QED
      BY <3>1 DEF FateStep
  <2> QED
    BY <2>2, <2>3
<1> QED
  BY <1>1, <1>2, KillAllEffect DEF TreeStep, ThreadStep

LEMMA ProcessLeader ==
  ASSUME KernelTypeOK, TreeInv, NEW p \in Procs, ProcessStep(p)
  PROVE  LeaderStep
<1>1. ASSUME NEW c \in Procs, Fork(p, c)
      PROVE  LeaderStep
  <2>1. PICK l \in {c, leader[p]} : leader' = [leader EXCEPT ![c] = l]
    BY <1>1 DEF Fork
  <2>2. /\ st[p] = "running" /\ st[c] = "unborn" /\ leader[c] = c
        /\ st'[c] = "pending"
    BY <1>1 DEF Fork, TreeInv, KernelTypeOK
  <2>3. CASE l = c
    BY <2>1, <2>2, <2>3 DEF LeaderStep, KernelTypeOK
  <2>4. CASE l = leader[p]
    BY <2>1, <2>2, <2>4 DEF LeaderStep
  <2> QED
    BY <2>3, <2>4
<1>2. CASE leader' = leader
  BY <1>2 DEF LeaderStep
<1> QED
  BY <1>1, <1>2
  DEF ProcessStep, Interrupt, Exec, BeginExec, EndExec, Exit, ExitGroup, ForkStop, LeaveGroup,
      JoinGroup, UseCpu, UseMemory, Die, ExternalKill, KillAll, treeVars

LEMMA ProcessFate ==
  ASSUME KernelTypeOK, TreeInv, NEW p \in Procs, ProcessStep(p), NEW l \in Procs
  PROVE  FateStep(l)
<1>1. CASE ExternalKill(p)
  BY <1>1, KillAllIsTreeStep DEF ExternalKill, TreeStep
<1>2. CASE ExitGroup(p)
  <2>1. PICK c \in ExitCodes : /\ status' = [status EXCEPT ![p] = AtExit(c)]
                               /\ fate' = [fate EXCEPT ![leader[p]] = Exited(c)]
    BY <1>2 DEF ExitGroup
  <2>2. /\ st[p] = "running" /\ leader' = leader /\ leader[p] \in Procs
        /\ st' = [q \in Procs |-> IF q = p THEN "pending"
                                  ELSE IF leader[q] = leader[p] THEN Woken(q) ELSE st[q]]
    BY <1>2 DEF ExitGroup, treeVars, KernelTypeOK
  <2>3. CASE l # leader[p]
    BY <2>1, <2>2, <2>3 DEF FateStep, KernelTypeOK
  <2>4. CASE l = leader[p]
    <3>1. fate[l] = NoFate
      BY <2>2, <2>4 DEF TreeInv, Silenced, AtExitStop, Stopped
    <3>2. fate'[l] = Exited(c) /\ Exited(c) \in Fates \ {NoFate}
      BY <2>1, <2>2, <2>4 DEF KernelTypeOK, Fates, Exited, NoFate, Stop
    <3>3. ASSUME NEW q \in Procs, leader[q] = l
          PROVE  Silenced(q)'
      <4>1. CASE q = p
        BY <2>1, <2>2, <4>1 DEF Silenced, AtExitStop, Stopped, AtExit, KernelTypeOK
      <4>2. CASE q # p
        <5>1. st[q] # "unborn"
          BY <2>2, <2>4, <3>3, <4>2 DEF TreeInv
        <5>2. st[q] \in States /\ st'[q] = Woken(q) /\ status'[q] = status[q]
          BY <2>1, <2>2, <2>4, <3>3, <4>2 DEF KernelTypeOK
        <5> QED
          BY <5>1, <5>2, WokenIsSilenced
      <4> QED
        BY <4>1, <4>2
    <3> QED
      BY <2>2, <2>4, <3>1, <3>2, <3>3 DEF FateStep, Live
  <2> QED
    BY <2>3, <2>4
<1>3. CASE fate' = fate
  BY <1>3 DEF FateStep
<1> QED
  BY <1>1, <1>2, <1>3
  DEF ProcessStep, Interrupt, Exec, BeginExec, EndExec, Exit, Fork, ForkStop, LeaveGroup,
      JoinGroup, UseCpu, UseMemory, Die

LEMMA ProcessGrows ==
  ASSUME KernelTypeOK, NEW p \in Procs, ProcessStep(p), NEW l \in Procs
  PROVE  GrowStep(l)
<1>1. cpu[l] \in Int /\ rss[l] \in Int
  BY KernelAssumption DEF KernelAssumption, KernelTypeOK
<1>2. CASE UseCpu(p)
  BY <1>1, <1>2 DEF UseCpu, GrowStep, KernelTypeOK
<1>3. CASE UseMemory(p)
  BY <1>1, <1>3 DEF UseMemory, GrowStep, KernelTypeOK
<1>4. CASE cpu' = cpu /\ rss' = rss
  BY <1>4 DEF GrowStep
<1> QED
  BY <1>2, <1>3, <1>4
  DEF ProcessStep, Interrupt, Exec, BeginExec, EndExec, Exit, ExitGroup, Fork, ForkStop,
      LeaveGroup, JoinGroup, Die, ExternalKill, KillAll, treeVars

LEMMA ProcessIsTreeStep ==
  ASSUME KernelTypeOK, TreeInv, NEW p \in Procs, ProcessStep(p)
  PROVE  TreeStep
BY ProcessEffect, ProcessLeader, ProcessFate, ProcessGrows DEF TreeStep

-----------------------------------------------------------------------------
(* The invariant of thread groups.                                         *)

\* Threads are never parted.
LEMMA ThreadedStays ==
  ASSUME KernelTypeOK, TreeInv, LeaderStep, NEW p \in Procs, Threaded(p)
  PROVE  Threaded(p)'
<1>1. PICK q \in Procs \ {p} : leader[q] = leader[p]
  BY DEF Threaded
<1>2. CASE leader' = leader
  BY <1>1, <1>2 DEF Threaded
<1>3. ASSUME NEW c \in Procs, NEW r \in Procs, st[c] = "unborn",
             leader' = [leader EXCEPT ![c] = leader[r]]
      PROVE  Threaded(p)'
  <2>1. c # p /\ c # q
    BY <1>1, <1>3 DEF TreeInv
  <2> QED
    BY <1>1, <1>3, <2>1 DEF Threaded, KernelTypeOK
<1> QED
  BY <1>2, <1>3 DEF LeaderStep

\* A silent group stays silent, whatever its tree does.
LEMMA SilencedStays ==
  ASSUME KernelTypeOK, TreeInv, TreeStep, NEW l \in Procs, SilencedGroup(l)
  PROVE  SilencedGroup(l)'
<1> SUFFICES ASSUME NEW q \in Procs, leader'[q] = l PROVE Silenced(q)'
  BY DEF SilencedGroup
<1>1. leader[q] = l
  <2>1. CASE leader' = leader
    BY <2>1
  <2>2. ASSUME NEW c \in Procs, NEW r \in Procs, st[r] = "running",
               leader' = [leader EXCEPT ![c] = leader[r]]
        PROVE  leader[q] = l
    <3>1. leader[r] # l
      BY <2>2 DEF SilencedGroup, Silenced, AtExitStop, Stopped
    <3> QED
      BY <2>2, <3>1 DEF KernelTypeOK
  <2> QED
    BY <2>1, <2>2 DEF TreeStep, LeaderStep
<1>2. Silenced(q) /\ ~\E r \in Procs : st[r] = "execing" /\ leader[r] = l
  BY <1>1 DEF SilencedGroup, Silenced, AtExitStop, Stopped
<1>3. CASE Same(q)
  BY <1>2, <1>3 DEF Same, Silenced, AtExitStop, Stopped
<1>4. CASE Wakes(q)
  BY <1>2, <1>4 DEF Wakes, Woken, Silenced, AtExitStop, Stopped
<1>5. CASE Dies(q)
  BY <1>2, <1>5 DEF Dies, AtExit, Silenced, AtExitStop, Stopped
<1>6. CASE Becomes(q)
  BY <1>1, <1>2, <1>6 DEF Becomes
<1> QED
  BY <1>2, <1>3, <1>4, <1>5, <1>6
  DEF TreeStep, ThreadStep, Reports, Arrives, Begins, GivesWay, Silenced, AtExitStop, Stopped

LEMMA TreeStepInv ==
  ASSUME KernelTypeOK, KernelTypeOK', TreeInv, TreeStep
  PROVE  TreeInv'
<1> USE DEF TreeStep, ThreadStep, Same, Wakes, Woken, Reports, Arrives, Begins, Dies, GivesWay,
            Becomes, Live
<1>1. \A p \in Procs : leader[p] \in Procs /\ leader'[p] \in Procs
  BY DEF KernelTypeOK
<1>2. \A p \in Procs : st[p] # "unborn" => st'[p] # "unborn"
  OBVIOUS
<1>3. \A p \in Procs : st[p] = "reaped" => st'[p] = "reaped"
  BY DEF AtExitStop, Stopped
<1>4. \/ leader' = leader
      \/ \E c \in Procs, r \in Procs :
           /\ st[c] = "unborn" /\ st'[c] = "pending" /\ st[r] = "running" /\ c # leader[r]
           /\ leader' = [leader EXCEPT ![c] = leader[r]]
  BY DEF LeaderStep, TreeInv
<1>5. leader'[Tracee] = Tracee
  BY <1>4, KernelAssumption DEF KernelAssumption, TreeInv, KernelTypeOK
<1>6. st'[Tracee] = "unborn" => \A p \in Procs : st'[p] = "unborn"
  <2> SUFFICES ASSUME st'[Tracee] = "unborn", NEW p \in Procs
               PROVE  st'[p] = "unborn"
    OBVIOUS
  <2>1. \A q \in Procs : st[q] = "unborn"
    BY <1>2, KernelAssumption DEF KernelAssumption, TreeInv
  <2> QED
    BY <2>1
<1>7. \A p \in Procs : leader'[leader'[p]] = leader'[p]
  <2>1. CASE leader' = leader
    BY <2>1 DEF TreeInv
  <2>2. ASSUME NEW c \in Procs, NEW r \in Procs, st[c] = "unborn", c # leader[r],
               leader' = [leader EXCEPT ![c] = leader[r]]
        PROVE  \A p \in Procs : leader'[leader'[p]] = leader'[p]
    BY <1>1, <2>2 DEF TreeInv, KernelTypeOK
  <2> QED
    BY <1>4, <2>1, <2>2
<1>8. \A p \in Procs : st'[p] = "unborn" => leader'[p] = p /\ did'[p] = {}
  <2> SUFFICES ASSUME NEW p \in Procs, st'[p] = "unborn"
               PROVE  leader'[p] = p /\ did'[p] = {}
    OBVIOUS
  <2>1. st[p] = "unborn" /\ did'[p] = did[p]
    BY <1>2 DEF AtExitStop, Stopped
  <2>2. leader'[p] = leader[p]
    BY <1>4 DEF KernelTypeOK
  <2> QED
    BY <2>1, <2>2 DEF TreeInv
<1>9. \A p \in Procs : leader'[p] # p => st'[leader'[p]] # "unborn"
  <2> SUFFICES ASSUME NEW p \in Procs, leader'[p] # p
               PROVE  st'[leader'[p]] # "unborn"
    OBVIOUS
  <2>1. CASE leader'[p] = leader[p]
    BY <1>1, <1>2, <2>1 DEF TreeInv
  <2>2. ASSUME NEW r \in Procs, st[r] = "running", leader'[p] = leader[r]
        PROVE  st'[leader'[p]] # "unborn"
    <3>1. st[leader[r]] # "unborn"
      BY <2>2 DEF TreeInv
    <3> QED
      BY <1>1, <1>2, <2>2, <3>1
  <2> QED
    BY <1>4, <2>1, <2>2 DEF KernelTypeOK
<1>10. \A p \in Procs : st'[leader'[p]] = "reaped" => st'[p] = "reaped"
  <2> SUFFICES ASSUME NEW p \in Procs, st'[leader'[p]] = "reaped"
               PROVE  st'[p] = "reaped"
    OBVIOUS
  <2>1. \A l \in Procs : leader[l] = l /\ st'[l] = "reaped" => st[l] = "reaped"
    BY DEF AtExitStop, Stopped
  <2>2. CASE leader'[p] = leader[p]
    BY <1>1, <1>3, <2>1, <2>2 DEF TreeInv
  <2>3. ASSUME NEW r \in Procs, st[r] = "running", leader'[p] = leader[r]
        PROVE  FALSE
    <3>1. st[leader[r]] # "reaped" /\ leader[leader[r]] = leader[r]
      BY <2>3 DEF TreeInv
    <3> QED
      BY <1>1, <2>1, <2>3, <3>1
  <2> QED
    BY <1>4, <2>2, <2>3 DEF KernelTypeOK
<1>11. \A p \in Procs : st'[p] = "execing" => Threaded(p)'
  <2> SUFFICES ASSUME NEW p \in Procs, st'[p] = "execing"
               PROVE  Threaded(p)'
    OBVIOUS
  <2>1. Threaded(p)
    BY DEF AtExitStop, Stopped, TreeInv
  <2> QED
    BY <2>1, ThreadedStays
<1>12. \A p \in Procs : fate'[p] \in Fates
  BY DEF FateStep, TreeInv
<1>13. \A p \in Procs : fate'[leader'[p]] # NoFate => Silenced(p)'
  <2> SUFFICES ASSUME NEW p \in Procs, NEW l \in Procs, leader'[p] = l, fate'[l] # NoFate
               PROVE  Silenced(p)'
    BY <1>1
  <2>1. CASE fate'[l] = fate[l]
    <3>1. SilencedGroup(l)
      BY <2>1 DEF SilencedGroup, TreeInv
    <3>2. SilencedGroup(l)'
      BY <3>1, SilencedStays
    <3> QED
      BY <3>2 DEF SilencedGroup
  <2>2. CASE fate'[l] # fate[l]
    BY <2>2 DEF FateStep
  <2> QED
    BY <2>1, <2>2
<1> QED
  BY <1>5, <1>6, <1>7, <1>8, <1>9, <1>10, <1>11, <1>12, <1>13 DEF TreeInv

\* The tracer's own calls.
LEMMA CollectTree ==
  ASSUME KernelTypeOK, TreeInv, NEW p \in Procs, Collect(p)
  PROVE  /\ TreeInv'
         /\ \A l \in Procs : SilencedGroup(l) => SilencedGroup(l)'
<1>1. /\ st' = [st EXCEPT ![p] = IF @ = "dead" THEN "reaped" ELSE "held"]
      /\ status' = [status EXCEPT ![p] = IF st[p] = "dead" THEN Final(p) ELSE @]
      /\ UNCHANGED <<leader, did, fate>>
      /\ Waitable(p)
  BY DEF Collect, treeVars
<1>2. \A q \in Procs : Silenced(q) => Silenced(q)'
  BY <1>1 DEF Waitable, Silenced, AtExitStop, Stopped, KernelTypeOK
<1>3. \A q \in Procs : st[q] # "unborn" <=> st'[q] # "unborn"
  BY <1>1 DEF Waitable, KernelTypeOK
<1>4. \A q \in Procs : st'[leader[q]] = "reaped" => st'[q] = "reaped"
  <2> SUFFICES ASSUME NEW q \in Procs, st'[leader[q]] = "reaped" PROVE st'[q] = "reaped"
    OBVIOUS
  <2>1. CASE st[leader[q]] = "reaped"
    BY <1>1, <2>1 DEF TreeInv, Waitable, KernelTypeOK
  <2>2. CASE st[leader[q]] # "reaped"
    <3>1. leader[q] = p /\ st[p] = "dead" /\ leader[p] = p
      BY <1>1, <2>2 DEF KernelTypeOK, TreeInv
    <3>2. Others(p) = {}
      BY <1>1, <3>1 DEF Waitable
    <3>3. q = p \/ st[q] = "reaped"
      BY <3>1, <3>2 DEF Others
    <3> QED
      BY <1>1, <3>1, <3>3 DEF KernelTypeOK
  <2> QED
    BY <2>1, <2>2
<1>5. \A q \in Procs : st'[q] = "execing" => st[q] = "execing"
  BY <1>1 DEF KernelTypeOK
<1>6. TreeInv'
  BY <1>1, <1>2, <1>3, <1>4, <1>5, KernelAssumption DEF KernelAssumption, TreeInv, Threaded
<1> QED
  BY <1>1, <1>2, <1>6 DEF SilencedGroup

LEMMA RestartTree ==
  ASSUME KernelTypeOK, TreeInv, NEW p \in Procs, Restart(p)
  PROVE  /\ TreeInv'
         /\ \A l \in Procs : SilencedGroup(l) => SilencedGroup(l)'
<1>1. /\ st' = [st EXCEPT ![p] = IF AtExitStop(p) THEN "dead" ELSE "running"]
      /\ UNCHANGED <<leader, did, fate, status>>
      /\ Stopped(p)
  BY DEF Restart, treeVars
<1>2. \A q \in Procs : Silenced(q) => Silenced(q)'
  BY <1>1 DEF Silenced, AtExitStop, Stopped, KernelTypeOK
<1>3. \A q \in Procs : /\ st[q] # "unborn" <=> st'[q] # "unborn"
                       /\ st[q] # "reaped" <=> st'[q] # "reaped"
                       /\ st'[q] = "execing" => st[q] = "execing"
  BY <1>1 DEF Stopped, KernelTypeOK
<1>4. \A q \in Procs : leader[q] \in Procs
  BY DEF KernelTypeOK
<1>5. TreeInv'
  BY <1>1, <1>2, <1>3, <1>4, KernelAssumption DEF KernelAssumption, TreeInv, Threaded
<1> QED
  BY <1>1, <1>2, <1>5 DEF SilencedGroup

LEMMA StartTraceeTree ==
  ASSUME KernelTypeOK, TreeInv, st[Tracee] = "unborn", StartTracee
  PROVE  TreeInv'
<1>1. \A q \in Procs : st[q] = "unborn" /\ leader[q] = q /\ did[q] = {} /\ fate[q] \in Fates
  BY KernelAssumption DEF KernelAssumption, TreeInv
<1>2. /\ st' = [st EXCEPT ![Tracee] = "pending"]
      /\ UNCHANGED <<leader, did, fate>>
  BY DEF StartTracee, treeVars
<1>3. \A q \in Procs : fate[q] = NoFate
  BY <1>1 DEF TreeInv, Silenced, AtExitStop, Stopped
<1> QED
  BY <1>1, <1>2, <1>3, KernelAssumption DEF KernelAssumption, TreeInv, KernelTypeOK

LEMMA KernelInitTree == KernelInit => TreeInv
BY KernelAssumption DEF KernelAssumption, KernelInit, TreeInv, Fates
=============================================================================

------------------------------ MODULE Options ------------------------------
(***************************************************************************)
(* From the command line to the CPUs of the tracee: the option values of   *)
(* util.Config, each parsed by its Set method in the order flag.Parse      *)
(* meets them, NewConfig, and system.SetAffinity with the choice of the    *)
(* least loaded CPU.                                                       *)
(***************************************************************************)
EXTENDS Integers, SequencesExt

CONSTANTS
  Durations,   \* values of -t and -y, in milliseconds
  Sizes,       \* numbers of -m, below Word
  Loads,       \* values of -r, in percent
  Names,       \* names of environment variables: sequences of letters
  OSEnv,       \* the environment of the program itself
  CPULists,    \* values of -a: sequences of indices
  NoNumber,    \* an item of such a sequence that is not a number
  MaxOptions,  \* bound on the options of a command line
  Word, Kilo,  \* 2^64 and 1024 in the code
  MaxCPUs,     \* CPUs the machine can have
  ShortIds,    \* ids below this have one digit: 10 in the code
  MaxTotal     \* bound on the time a CPU has counted

Units == {1, Kilo, Kilo * Kilo}
Entry == [name : Names, value : {"new", "newer", "os"}]
CPUs == 0..(MaxCPUs - 1)

\* os.Environ has one entry for each variable: the Go runtime drops others.
ASSUME OptionsAssumption ==
  /\ Durations \subseteq Int /\ Loads \subseteq Int
  /\ Word \in Nat \ {0} /\ Kilo \in Nat \ {0}
  /\ Sizes \subseteq 0..(Word - 1)
  /\ \A k \in Names : k \in Seq(ToSet(k))
  /\ OSEnv \in Seq(Entry)
  /\ \A i, j \in DOMAIN OSEnv : OSEnv[i].name = OSEnv[j].name => i = j
  /\ MaxOptions \in Nat
  /\ MaxCPUs \in Nat \ {0} /\ ShortIds \in Nat /\ MaxTotal \in Nat

VARIABLES
  phase,      \* "parse", then what became of the command line
  options,    \* options parsed so far
  timeLimit, idleLimit,  \* milliseconds
  memory,     \* bytes
  load,       \* RequiredLoad, in percent
  env,        \* Environment
  affinity,   \* -a: what was given, <<>> if nothing
  asked,      \* ghost: number and unit of the last -m
  given,      \* ghost: the last entry given for each name
  stat,       \* CPUs of the machine, those a cpuset leaves to the program, those
              \* of its own mask at the start, and /proc/stat if it can be read
  mask        \* CPUs each of the two threads may run on

limitVars == <<timeLimit, idleLimit, memory, load, asked>>
envVars == <<env, given>>
cpuVars == <<stat, mask>>
vars == <<phase, options, limitVars, envVars, affinity, cpuVars>>

Threads == {"tracer", "tracee"}

TypeOK ==
  /\ phase \in {"parse", "usage", "rejected", "ready", "affinity",
               "failed", "running"}
  /\ options \in 0..MaxOptions
  /\ timeLimit \in Int /\ idleLimit \in Int
  /\ memory \in 0..(Word - 1)
  /\ load \in 1..100
  /\ env \in Seq(Entry)
  /\ affinity \in {<<>>} \cup CPULists
  /\ asked \in [n : Nat, unit : Units]
  /\ given \subseteq Entry
  /\ stat \in [online : SUBSET CPUs, cpuset : SUBSET CPUs, start : SUBSET CPUs,
              readable : BOOLEAN, total : [CPUs -> 0..MaxTotal]]
  /\ mask \in [Threads -> SUBSET CPUs]

Init ==
  /\ phase = "parse"
  /\ options = 0
  /\ timeLimit = 0 /\ idleLimit = 0
  /\ memory = 0
  /\ load = 5
  /\ env = <<>>
  /\ affinity = <<>>
  /\ asked = [n |-> 0, unit |-> 1]
  /\ given = {}
  /\ stat = [online |-> CPUs, cpuset |-> CPUs, start |-> CPUs,
             readable |-> TRUE, total |-> [c \in CPUs |-> 0]]
  /\ mask = [t \in Threads |-> CPUs]

-----------------------------------------------------------------------------
(* Defects: one plausible mistake each in the definition named before the  *)
(* underscore.  No action uses them; they show what the properties notice. *)

Seconds_Truncates(ms) == ms \div 1000
LoadIsValid_AnyPercent(v) == v > 0
EnvIndex_Never(k) == 0
Valid_OneBased(i) == i > 0 /\ i <= Cardinality(stat.start)
LessLoaded_Swapped(total, max) == total > max

-----------------------------------------------------------------------------
(* The Set methods.                                                        *)

\* flag.Parse meets one more option.
Option ==
  /\ phase = "parse"
  /\ options < MaxOptions
  /\ options' = options + 1

\* flag.ExitOnError: the usage, and exit status 2.
BadOption ==
  /\ Option
  /\ phase' = "usage"
  /\ UNCHANGED <<limitVars, envVars, affinity, cpuVars>>

\* duration.Set: a bare number is one of seconds.
SetTime ==
  /\ Option
  /\ timeLimit' \in Durations
  /\ UNCHANGED <<phase, idleLimit, memory, load, asked, envVars, affinity, cpuVars>>

SetIdle ==
  /\ Option
  /\ idleLimit' \in Durations
  /\ UNCHANGED <<phase, timeLimit, memory, load, asked, envVars, affinity, cpuVars>>

\* memory.Set: the multiplication wraps.
SetMemory ==
  /\ Option
  /\ \E n \in Sizes, u \in Units :
       /\ memory' = (n * u) % Word
       /\ asked' = [n |-> n, unit |-> u]
  /\ UNCHANGED <<phase, timeLimit, idleLimit, load, envVars, affinity, cpuVars>>

LoadIsValid(v) == v > 0 /\ v <= 100

\* rload.Set: a fraction or a percentage.
SetLoad ==
  /\ Option
  /\ \E v \in Loads :
       IF LoadIsValid(v) THEN load' = v /\ UNCHANGED phase
       ELSE phase' = "usage" /\ UNCHANGED load
  /\ UNCHANGED <<timeLimit, idleLimit, memory, asked, envVars, affinity, cpuVars>>

\* The first entry that begins with k; 0 if there is none.
EnvIndex(k) == SelectInSeq(env, LAMBDA e : IsPrefix(k, e.name))

\* env.Set of name=value: it replaces that entry, or it is added.
SetEnv ==
  /\ Option
  /\ \E k \in Names, v \in {"new", "newer"} :
       LET e == [name |-> k, value |-> v]
       IN  /\ env' = IF EnvIndex(k) # 0 THEN ReplaceAt(env, EnvIndex(k), e)
                     ELSE Append(env, e)
           /\ given' = {g \in given : g.name # k} \cup {e}
  /\ UNCHANGED <<phase, limitVars, affinity, cpuVars>>

\* -D ~OS: what was given before is dropped.
SetEnvToOS ==
  /\ Option
  /\ env' = OSEnv
  /\ given' = ToSet(OSEnv)
  /\ UNCHANGED <<phase, limitVars, affinity, cpuVars>>

SetAffinityOption ==
  /\ Option
  /\ affinity' \in CPULists
  /\ UNCHANGED <<phase, limitVars, envVars, cpuVars>>

ParseStep ==
  \/ BadOption \/ SetTime \/ SetIdle \/ SetMemory \/ SetLoad \/ SetEnv \/ SetEnvToOS
  \/ SetAffinityOption

-----------------------------------------------------------------------------
(* NewConfig.                                                              *)

\* duration.Seconds: less than a second is one, negative durations included.
Seconds(ms) == IF ms = 0 THEN 0 ELSE IF ms < 1000 THEN 1 ELSE ms \div 1000

\* A CPU list with an item that is no number is an error; an idle limit that
\* is too short is made one second.
NewConfig ==
  /\ phase = "parse"
  /\ IF NoNumber \in ToSet(affinity)
       THEN phase' = "rejected" /\ UNCHANGED idleLimit
     ELSE /\ phase' = "ready"
          /\ idleLimit' = IF Seconds(idleLimit) # 0 /\ Seconds(idleLimit) < 1
                          THEN 1000 ELSE idleLimit
  /\ UNCHANGED <<options, timeLimit, memory, load, asked, envVars, affinity, cpuVars>>

-----------------------------------------------------------------------------
(* SetAffinity.                                                            *)

LessLoaded(total, max) == total < max

\* The first line of /proc/stat sums up all CPUs.
FirstLine(total) ==
  LET sum[n \in 0..MaxCPUs] == IF n = 0 THEN 0 ELSE sum[n - 1] + total[n - 1]
  IN  sum[MaxCPUs]

\* The line of CPU c.  One for a CPU with a longer id is taken for a sum.
Line(s, c, acc) ==
  IF c \notin s.online THEN acc
  ELSE IF c >= ShortIds THEN [acc EXCEPT !.max = s.total[c]]
  ELSE IF LessLoaded(s.total[c], acc.max) THEN [cpu |-> c, max |-> s.total[c]]
  ELSE acc

\* getReliableCPU, line by line of s.
ReliableCPU(s) ==
  LET after[n \in 0..MaxCPUs] ==
        IF n = 0 THEN [cpu |-> 0, max |-> FirstLine(s.total)]
        ELSE Line(s, n - 1, after[n - 1])
  IN  after[MaxCPUs].cpu

\* runtime.NumCPU counts the CPUs of the mask the program started with: an index
\* is valid below that number, whichever CPUs these are.
Valid(i) == 0 <= i /\ i < Cardinality(stat.start)

\* The CPUs wanted: -1 alone stands for the least loaded one, or for CPU 0 if
\* that cannot be told.
Chosen == IF stat.readable THEN ReliableCPU(stat) ELSE 0
Wanted == IF affinity = <<-1>> THEN {Chosen} ELSE ToSet(affinity)
Filtered == {i \in Wanted : Valid(i)}

\* The machine the program runs on, which it asks only now: a cpuset and a mask
\* set by its caller (taskset) may leave it less than all CPUs.
ReadStat ==
  /\ phase = "ready"
  /\ \E on \in SUBSET CPUs, r \in BOOLEAN :
     \E cs \in SUBSET on, t \in [IF r THEN on ELSE {} -> 0..MaxTotal] :
     \E s \in (SUBSET cs) \ {{}} :
       /\ stat' = [online |-> on, cpuset |-> cs, start |-> s, readable |-> r,
                   total |-> [c \in CPUs |-> IF c \in DOMAIN t THEN t[c] ELSE 0]]
       /\ mask' = [m \in Threads |-> s]
  /\ phase' = "affinity"
  /\ UNCHANGED <<options, limitVars, envVars, affinity>>

\* The mask is set for thread 0: the caller.  The kernel takes what the cpuset
\* has of it, and rejects a mask of which it has nothing.
SetAffinity ==
  /\ phase = "affinity"
  /\ IF affinity = <<>> THEN phase' = "running" /\ UNCHANGED mask
     ELSE IF Filtered \cap stat.cpuset = {} THEN phase' = "failed" /\ UNCHANGED mask
     ELSE /\ phase' = "running"
          /\ mask' = [mask EXCEPT !["tracer"] = Filtered \cap stat.cpuset]
  /\ UNCHANGED <<options, limitVars, envVars, affinity, stat>>

-----------------------------------------------------------------------------
Terminated == phase \in {"usage", "rejected", "failed", "running"} /\ UNCHANGED vars

Next == ParseStep \/ NewConfig \/ ReadStat \/ SetAffinity \/ Terminated

Spec == Init /\ [][Next]_vars

-----------------------------------------------------------------------------
(* Properties.                                                             *)

\* A limit that was asked for is in force: an idle limit does not round to
\* none, and a memory limit is lost only to overflow (config.go:57-63, 92-113).
LimitsStayInForce ==
  /\ idleLimit # 0 => Seconds(idleLimit) >= 1
  /\ memory = 0 /\ asked.n > 0 => asked.n * asked.unit >= Word

\* The last value given for a variable is the one that counts, and it is there
\* once -- except where one name given begins with another (config.go:174-185).
EnvLastWins ==
  \A e \in given :
    \/ {i \in DOMAIN env : env[i].name = e.name} = {i \in DOMAIN env : env[i] = e}
       /\ Cardinality({i \in DOMAIN env : env[i] = e}) = 1
    \/ \E f \in given : f.name # e.name /\ (IsPrefix(f.name, e.name) \/ IsPrefix(e.name, f.name))

\* The program started with all CPUs, and their ids are those below their number.
Unrestricted ==
  stat.start = stat.online /\ stat.online = 0..(Cardinality(stat.online) - 1)

\* Nothing is taken but what was asked for and exists.  A program that started
\* with all CPUs takes all of that, and only a list without any is an error;
\* one whose mask was restricted may be refused CPUs it could have
\* (os.go:52-73).
AffinityIsTaken ==
  affinity # <<>> /\ affinity # <<-1>> =>
    /\ phase = "running" => /\ mask["tracer"] # {}
                            /\ mask["tracer"] \subseteq ToSet(affinity) \cap stat.cpuset
    /\ Unrestricted =>
         /\ phase = "running" => mask["tracer"] = ToSet(affinity) \cap stat.online
         /\ phase = "failed" => ToSet(affinity) \cap stat.online = {}

\* In a program that started with all CPUs, -1 never fails, and chooses a CPU
\* that has counted the least time of those with an id of one digit, or CPU 0
\* if /proc/stat cannot be read (os.go:44-50, 77-117).
LeastLoadedIsChosen ==
  Unrestricted /\ affinity = <<-1>> =>
    /\ phase # "failed"
    /\ phase = "running" =>
         \E c \in stat.online :
           /\ mask["tracer"] = {c}
           /\ IF stat.readable
                THEN \A d \in stat.online :
                       d < ShortIds => stat.total[c] <= stat.total[d]
              ELSE c = 0

-----------------------------------------------------------------------------
(* What the code says of itself and does not do.                           *)

\* instance/config.go:17: the list is of the cores that the process can use.
TraceeIsPinned ==
  phase = "running" /\ affinity # <<>> => mask["tracee"] = mask["tracer"]
=============================================================================

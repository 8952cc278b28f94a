--------------------------- MODULE OptionsProofs ---------------------------
(***************************************************************************)
(* Theorems about module Options, for all option values, words, machines   *)
(* and lengths of command lines.                                           *)
(***************************************************************************)
EXTENDS Options, SequenceTheorems, FiniteSetTheorems, WellFoundedInduction, TLAPS

-----------------------------------------------------------------------------
(* Induction, and functions defined by recursion, in first-order form.     *)

LEMMA SetInduction ==
  ASSUME NEW T, 0 \in T, \A n \in Nat : n \in T => n + 1 \in T
  PROVE  Nat \subseteq T
<1> DEFINE B == Nat \ T
<1>1. SUFFICES ASSUME B # {} PROVE FALSE
  OBVIOUS
<1>2. \E x \in B : \A y \in B : ~(<<y, x>> \in OpToRel(<, Nat))
  BY <1>1, WFMin, NatLessThanWellFounded
<1>3. PICK x \in B : \A y \in B : ~(y < x)
  BY <1>2 DEF OpToRel
<1>4. x # 0 /\ x - 1 \in Nat /\ x - 1 < x /\ x - 1 + 1 = x
  BY <1>3
<1> QED
  BY <1>3, <1>4

\* A function of X that begins with b and goes on with step, N times.
Passes(X, b, N, step) ==
  \E f \in [0..N -> X] : f[0] = b /\ \A n \in 1..N : f[n] = step[n][f[n - 1]]

LEMMA Recursion ==
  ASSUME NEW X, NEW b \in X, NEW N \in Nat, NEW step,
         \A n \in 1..N : \A x \in X : step[n][x] \in X
  PROVE  Passes(X, b, N, step)
<1> DEFINE T == {m \in Nat : m <= N => Passes(X, b, m, step)}
<1>1. 0 \in T
  <2> DEFINE f == [n \in 0..0 |-> b]
  <2>1. f \in [0..0 -> X] /\ f[0] = b /\ \A n \in 1..0 : f[n] = step[n][f[n - 1]]
    OBVIOUS
  <2> QED
    BY <2>1 DEF Passes
<1>2. ASSUME NEW m \in Nat, m \in T
      PROVE  m + 1 \in T
  <2> SUFFICES ASSUME m + 1 <= N PROVE Passes(X, b, m + 1, step)
    OBVIOUS
  <2>1. PICK f \in [0..m -> X] : f[0] = b /\ \A n \in 1..m : f[n] = step[n][f[n - 1]]
    BY <1>2 DEF Passes
  <2> DEFINE g == [n \in 0..(m + 1) |-> IF n <= m THEN f[n] ELSE step[m + 1][f[m]]]
  <2>2. m + 1 \in 1..N /\ step[m + 1][f[m]] \in X
    BY <2>1
  <2>3. g \in [0..(m + 1) -> X]
    BY <2>1, <2>2
  <2>4. g[0] = b
    BY <2>1
  <2>5. ASSUME NEW n \in 1..(m + 1)
        PROVE  g[n] = step[n][g[n - 1]]
    <3>1. CASE n <= m
      BY <2>1, <3>1
    <3>2. CASE n = m + 1
      BY <3>2
    <3> QED
      BY <3>1, <3>2
  <2> QED
    BY <2>3, <2>4, <2>5 DEF Passes
<1>3. N \in T
  BY <1>1, <1>2, SetInduction
<1> QED
  BY <1>3

-----------------------------------------------------------------------------
(* The choice of a CPU.                                                    *)

LEMMA CPUNumbers ==
  /\ MaxCPUs \in Nat /\ MaxCPUs # 0 /\ ShortIds \in Nat
  /\ \A c : c \in CPUs <=> c \in Nat /\ c < MaxCPUs
BY OptionsAssumption DEF OptionsAssumption, CPUs

\* The sum of the first line is a number, and no CPU has counted more.
LEMMA FirstLineIsMost ==
  ASSUME NEW total \in [CPUs -> Nat]
  PROVE  FirstLine(total) \in Nat /\ \A c \in CPUs : total[c] <= FirstLine(total)
<1> DEFINE Def(f) == f = [n \in 0..MaxCPUs |-> IF n = 0 THEN 0 ELSE f[n - 1] + total[n - 1]]
           sum == CHOOSE f : Def(f)
           step == [n \in 1..MaxCPUs |-> [x \in Nat |-> x + total[n - 1]]]
<1> USE CPUNumbers
<1>1. \A n \in 1..MaxCPUs : \A x \in Nat :
        step[n][x] = x + total[n - 1] /\ step[n][x] \in Nat
  OBVIOUS
<1> HIDE DEF step
<1>2. PICK f \in [0..MaxCPUs -> Nat] : f[0] = 0 /\ \A n \in 1..MaxCPUs : f[n] = step[n][f[n - 1]]
  <2>1. Passes(Nat, 0, MaxCPUs, step)
    BY <1>1, Recursion, Zenon
  <2> QED
    BY <2>1 DEF Passes
<1>3. \A n \in 0..MaxCPUs : f[n] = IF n = 0 THEN 0 ELSE f[n - 1] + total[n - 1]
  <2>1. \A n \in 1..MaxCPUs : f[n - 1] \in Nat
    BY <1>2
  <2>2. \A n \in 0..MaxCPUs : n = 0 \/ n \in 1..MaxCPUs
    OBVIOUS
  <2> QED
    BY <1>1, <1>2, <2>1, <2>2
<1>4. Def(f)
  BY <1>3
<1>5. Def(sum)
  BY <1>4
<1>6. FirstLine(total) = sum[MaxCPUs]
  BY DEF FirstLine
<1>7. \A n \in 0..MaxCPUs : sum[n] = IF n = 0 THEN 0 ELSE sum[n - 1] + total[n - 1]
  BY <1>5
<1> HIDE DEF sum, Def
<1> DEFINE T == {n \in Nat : n <= MaxCPUs =>
                   sum[n] \in Nat /\ \A c \in CPUs : c < n => total[c] <= sum[n]}
<1>8. 0 \in T
  BY <1>7
<1>9. ASSUME NEW n \in Nat, n \in T
      PROVE  n + 1 \in T
  <2> SUFFICES ASSUME n + 1 <= MaxCPUs
               PROVE  /\ sum[n + 1] \in Nat
                      /\ \A c \in CPUs : c < n + 1 => total[c] <= sum[n + 1]
    OBVIOUS
  <2>1. n + 1 \in 0..MaxCPUs /\ n + 1 # 0 /\ (n + 1) - 1 = n /\ n \in CPUs
    OBVIOUS
  <2>2. sum[n + 1] = sum[n] + total[n] /\ total[n] \in Nat
    BY <1>7, <2>1
  <2>3. sum[n] \in Nat /\ \A c \in CPUs : c < n => total[c] <= sum[n]
    BY <1>9
  <2>4. \A c \in CPUs : c \in Nat /\ total[c] \in Nat /\ (c < n + 1 => c < n \/ c = n)
    OBVIOUS
  <2>5. ASSUME NEW c \in CPUs, c < n + 1
        PROVE  total[c] <= sum[n + 1]
    <3>1. CASE c < n
      BY <2>2, <2>3, <2>4, <3>1
    <3>2. CASE c = n
      BY <2>2, <2>3, <3>2
    <3> QED
      BY <2>4, <2>5, <3>1, <3>2
  <2> QED
    BY <2>2, <2>3, <2>5
<1>10. MaxCPUs \in T
  BY <1>8, <1>9, SetInduction
<1> QED
  BY <1>6, <1>10

Machines ==
  [online : SUBSET CPUs, cpuset : SUBSET CPUs, start : SUBSET CPUs, readable : BOOLEAN,
   total : [CPUs -> Nat]]

\* What getReliableCPU knows when it has read the lines of the CPUs below n:
\* acc.cpu has counted the least of those with short ids, and as long as there
\* were no others acc.max separates it from them.
Least(s, n, acc) ==
  /\ acc \in [cpu : s.online, max : Nat]
  /\ \A d \in s.online : d < n /\ d < ShortIds => s.total[acc.cpu] <= s.total[d]
  /\ n <= ShortIds =>
       /\ s.total[acc.cpu] <= acc.max
       /\ \A d \in s.online : d < n => acc.max <= s.total[d]

LEMMA LineKeepsLeast ==
  ASSUME NEW s \in Machines, NEW c \in CPUs,
         NEW acc, Least(s, c, acc)
  PROVE  Least(s, c + 1, Line(s, c, acc))
<1> USE CPUNumbers DEF Machines
<1>1. /\ s.online \subseteq CPUs /\ s.total \in [CPUs -> Nat]
      /\ acc.cpu \in s.online /\ acc.max \in Nat /\ s.total[c] \in Nat
      /\ \A d \in s.online : d \in Nat /\ s.total[d] \in Nat
      /\ \A d \in s.online : d < c + 1 <=> d < c \/ d = c
  BY DEF Least
<1>2. CASE c \notin s.online
  <2>1. Line(s, c, acc) = acc
    BY <1>2 DEF Line
  <2>2. \A d \in s.online : d < c + 1 <=> d < c
    BY <1>1, <1>2
  <2> QED
    BY <1>1, <2>1, <2>2 DEF Least
<1>3. CASE c \in s.online /\ c >= ShortIds
  <2>1. Line(s, c, acc) = [cpu |-> acc.cpu, max |-> s.total[c]]
    BY <1>3 DEF Line, Least
  <2>2. ~(c + 1 <= ShortIds) /\ \A d \in s.online : d < ShortIds => d < c
    BY <1>1, <1>3
  <2> QED
    BY <1>1, <2>1, <2>2 DEF Least
<1>4. CASE c \in s.online /\ ~(c >= ShortIds) /\ s.total[c] < acc.max
  <2>1. Line(s, c, acc) = [cpu |-> c, max |-> s.total[c]]
    BY <1>4 DEF Line, LessLoaded
  <2>2. \A d \in s.online : d < c + 1 => s.total[c] <= s.total[d]
    BY <1>1, <1>4 DEF Least
  <2> QED
    BY <1>1, <1>4, <2>1, <2>2 DEF Least
<1>5. CASE c \in s.online /\ ~(c >= ShortIds) /\ ~(s.total[c] < acc.max)
  <2>1. Line(s, c, acc) = acc
    BY <1>5 DEF Line, LessLoaded
  <2>2. s.total[acc.cpu] <= acc.max /\ \A d \in s.online : d < c + 1 => acc.max <= s.total[d]
    BY <1>1, <1>5 DEF Least
  <2> QED
    BY <1>1, <2>1, <2>2 DEF Least
<1> QED
  BY <1>2, <1>3, <1>4, <1>5

\* getReliableCPU finds a CPU of the machine that has counted the least time of
\* those with short ids, if CPU 0 is on.
LEMMA ReliableIsLeast ==
  ASSUME NEW s \in Machines, 0 \in s.online
  PROVE  /\ ReliableCPU(s) \in s.online
         /\ \A d \in s.online : d < ShortIds => s.total[ReliableCPU(s)] <= s.total[d]
<1> DEFINE first == [cpu |-> 0, max |-> FirstLine(s.total)]
           Def(f) == f = [n \in 0..MaxCPUs |-> IF n = 0 THEN first ELSE Line(s, n - 1, f[n - 1])]
           after == CHOOSE f : Def(f)
           Accs == [cpu : CPUs, max : Nat]
           step == [n \in 1..MaxCPUs |-> [x \in Accs |-> Line(s, n - 1, x)]]
<1> USE CPUNumbers DEF Machines
<1>1. first \in Accs
  BY FirstLineIsMost
<1>2. ASSUME NEW n \in 1..MaxCPUs, NEW x \in Accs
      PROVE  Line(s, n - 1, x) \in Accs
  BY DEF Line
<1>3. \A n \in 1..MaxCPUs : \A x \in Accs :
        step[n][x] = Line(s, n - 1, x) /\ step[n][x] \in Accs
  BY <1>2
<1> HIDE DEF first, step, Accs
<1>4. PICK f \in [0..MaxCPUs -> Accs] :
        f[0] = first /\ \A n \in 1..MaxCPUs : f[n] = step[n][f[n - 1]]
  <2>1. Passes(Accs, first, MaxCPUs, step)
    BY <1>1, <1>3, Recursion, Zenon
  <2> QED
    BY <2>1 DEF Passes
<1>5. \A n \in 0..MaxCPUs : f[n] = IF n = 0 THEN first ELSE Line(s, n - 1, f[n - 1])
  <2>1. ASSUME NEW n \in 1..MaxCPUs
        PROVE  f[n] = Line(s, n - 1, f[n - 1])
    <3>1. n - 1 \in 0..MaxCPUs
      OBVIOUS
    <3>2. f[n - 1] \in Accs
      BY <1>4, <3>1
    <3>3. f[n] = step[n][f[n - 1]]
      BY <1>4
    <3> QED
      BY <1>3, <3>2, <3>3, Zenon
  <2>2. \A n \in 0..MaxCPUs : n = 0 \/ (n # 0 /\ n \in 1..MaxCPUs)
    OBVIOUS
  <2> QED
    BY <1>4, <2>1, <2>2
<1>6. Def(f)
  BY <1>5
<1>7. Def(after)
  BY <1>6
<1>8. ReliableCPU(s) = after[MaxCPUs].cpu
  BY DEF ReliableCPU, first
<1>9. \A n \in 0..MaxCPUs : after[n] = IF n = 0 THEN first ELSE Line(s, n - 1, after[n - 1])
  BY <1>7
<1> HIDE DEF after, Def
<1> DEFINE T == {n \in Nat : n <= MaxCPUs => Least(s, n, after[n])}
<1>10. 0 \in T
  <2>1. after[0] = first
    BY <1>9
  <2>2. s.total[0] <= FirstLine(s.total) /\ FirstLine(s.total) \in Nat
    BY FirstLineIsMost
  <2>3. \A d \in s.online : ~(d < 0)
    OBVIOUS
  <2> QED
    BY <2>1, <2>2, <2>3 DEF first, Least
<1>11. ASSUME NEW n \in Nat, n \in T
       PROVE  n + 1 \in T
  <2> SUFFICES ASSUME n + 1 <= MaxCPUs PROVE Least(s, n + 1, after[n + 1])
    OBVIOUS
  <2>1. n + 1 \in 0..MaxCPUs /\ n + 1 # 0 /\ (n + 1) - 1 = n /\ n \in CPUs
    OBVIOUS
  <2>2. after[n + 1] = Line(s, n, after[n]) /\ Least(s, n, after[n])
    BY <1>9, <1>11, <2>1
  <2> QED
    BY <2>1, <2>2, LineKeepsLeast
<1>12. MaxCPUs \in T
  BY <1>10, <1>11, SetInduction
<1>13. \A d \in s.online : d < MaxCPUs
  OBVIOUS
<1> QED
  BY <1>8, <1>12, <1>13 DEF Least

-----------------------------------------------------------------------------
(* The place of an entry in the environment.                               *)

LEMMA LeastExists ==
  ASSUME NEW S \in SUBSET Nat, S # {}
  PROVE  \E x \in S : \A y \in S : x <= y
<1>1. \E x \in S : \A y \in S : ~(<<y, x>> \in OpToRel(<, Nat))
  BY WFMin, NatLessThanWellFounded
<1>2. PICK x \in S : \A y \in S : ~(y < x)
  BY <1>1 DEF OpToRel
<1>3. x \in Nat /\ \A y \in S : y \in Nat
  OBVIOUS
<1> QED
  BY <1>2, <1>3

LEMMA EnvIndexFinds ==
  ASSUME env \in Seq(Entry), NEW k
  PROVE  \/ EnvIndex(k) = 0 /\ \A i \in DOMAIN env : ~IsPrefix(k, env[i].name)
         \/ EnvIndex(k) \in DOMAIN env /\ IsPrefix(k, env[EnvIndex(k)].name)
<1> DEFINE I == {i \in 1..Len(env) : IsPrefix(k, env[i].name)}
<1>1. EnvIndex(k) = IF I # {} THEN Min(I) ELSE 0
  BY DEF EnvIndex, SelectInSeq
<1>2. DOMAIN env = 1..Len(env) /\ Len(env) \in Nat
  OBVIOUS
<1>3. CASE I = {}
  BY <1>1, <1>2, <1>3
<1>4. CASE I # {}
  <2>1. I \in SUBSET Nat
    BY <1>2
  <2> HIDE DEF I
  <2>2. \E x \in I : \A y \in I : x <= y
    BY <1>4, <2>1, LeastExists
  <2>3. Min(I) \in I
    BY <2>2 DEF Min
  <2> QED
    BY <1>1, <1>2, <1>4, <2>3 DEF I
<1> QED
  BY <1>3, <1>4

-----------------------------------------------------------------------------
(* Types.                                                                  *)

LEMMA TypeInit == Init => TypeOK
<1> SUFFICES ASSUME Init PROVE TypeOK
  OBVIOUS
<1> USE OptionsAssumption DEF OptionsAssumption
<1>1. /\ options \in 0..MaxOptions /\ memory \in 0..(Word - 1)
      /\ timeLimit \in Int /\ idleLimit \in Int
  BY DEF Init
<1>2. load \in 1..100 /\ asked \in [n : Nat, unit : Units]
  BY DEF Init, Units
<1>3. /\ stat \in [online : SUBSET CPUs, cpuset : SUBSET CPUs, start : SUBSET CPUs,
                  readable : BOOLEAN, total : [CPUs -> 0..MaxTotal]]
      /\ mask \in [Threads -> SUBSET CPUs]
  BY DEF Init
<1>4. env \in Seq(Entry) /\ given \subseteq Entry
  BY DEF Init
<1> QED
  BY <1>1, <1>2, <1>3, <1>4 DEF Init, TypeOK

LEMMA MemoryType ==
  ASSUME NEW n \in Sizes, NEW u \in Units
  PROVE  n \in Nat /\ u \in Nat /\ u > 0 /\ n * u \in Nat /\ (n * u) % Word \in 0..(Word - 1)
<1>1. n \in Nat /\ Kilo \in Nat /\ Kilo > 0 /\ Word \in Nat /\ Word > 0
  BY OptionsAssumption DEF OptionsAssumption
<1>2. Kilo * Kilo \in Nat /\ Kilo * Kilo > 0
  BY <1>1
<1>3. u \in Nat /\ u > 0
  BY <1>1, <1>2 DEF Units
<1>4. n * u \in Nat
  BY <1>1, <1>3
<1>5. \A m \in Nat : m % Word \in 0..(Word - 1)
  BY <1>1
<1> QED
  BY <1>1, <1>3, <1>4, <1>5

LEMMA EnvType ==
  ASSUME env \in Seq(Entry), NEW k \in Names, NEW e \in Entry
  PROVE  /\ Append(env, e) \in Seq(Entry)
         /\ EnvIndex(k) # 0 => ReplaceAt(env, EnvIndex(k), e) \in Seq(Entry)
<1>1. CASE EnvIndex(k) # 0
  <2>1. EnvIndex(k) \in 1..Len(env)
    BY <1>1, EnvIndexFinds
  <2> QED
    BY <2>1 DEF ReplaceAt
<1>2. CASE EnvIndex(k) = 0
  BY <1>2
<1> QED
  BY <1>1, <1>2

LEMMA TypeStep == TypeOK /\ [Next]_vars => TypeOK'
<1> SUFFICES ASSUME TypeOK, [Next]_vars PROVE TypeOK'
  OBVIOUS
<1> USE DEF TypeOK, limitVars, envVars, cpuVars
<1>1. ASSUME Option
      PROVE  options' \in 0..MaxOptions
  BY <1>1, OptionsAssumption DEF OptionsAssumption, Option
<1>2. CASE BadOption \/ SetAffinityOption
  BY <1>1, <1>2 DEF BadOption, SetAffinityOption
<1>3. CASE SetTime \/ SetIdle
  BY <1>1, <1>3, OptionsAssumption DEF OptionsAssumption, SetTime, SetIdle
<1>4. CASE SetMemory
  BY <1>1, <1>4, MemoryType DEF SetMemory
<1>5. CASE SetLoad
  <2>1. PICK v \in Loads : IF LoadIsValid(v) THEN load' = v /\ UNCHANGED phase
                            ELSE phase' = "usage" /\ UNCHANGED load
    BY <1>5 DEF SetLoad
  <2>2. LoadIsValid(v) => v \in 1..100
    BY OptionsAssumption DEF OptionsAssumption, LoadIsValid
  <2>3. load' \in 1..100 /\ phase' \in {phase, "usage"}
    BY <2>1, <2>2
  <2> QED
    BY <1>1, <1>5, <2>3 DEF SetLoad
<1>6. CASE SetEnv
  <2>1. PICK k \in Names, v \in {"new", "newer"} :
          LET e == [name |-> k, value |-> v]
          IN  /\ env' = IF EnvIndex(k) # 0 THEN ReplaceAt(env, EnvIndex(k), e)
                        ELSE Append(env, e)
              /\ given' = {g \in given : g.name # k} \cup {e}
    BY <1>6 DEF SetEnv
  <2>2. [name |-> k, value |-> v] \in Entry
    BY DEF Entry
  <2>3. env' \in Seq(Entry) /\ given' \subseteq Entry
    BY <2>1, <2>2, EnvType
  <2> QED
    BY <1>1, <1>6, <2>3 DEF SetEnv
<1>7. CASE SetEnvToOS
  <2>1. OSEnv \in Seq(Entry) /\ ToSet(OSEnv) \subseteq Entry
    BY OptionsAssumption DEF OptionsAssumption, ToSet
  <2> QED
    BY <1>1, <1>7, <2>1 DEF SetEnvToOS
<1>8. CASE NewConfig
  BY <1>8 DEF NewConfig
<1>9. CASE ReadStat
  <2>1. PICK on \in SUBSET CPUs, r \in BOOLEAN :
        \E cs \in SUBSET on, t \in [IF r THEN on ELSE {} -> 0..MaxTotal] :
        \E s \in (SUBSET cs) \ {{}} :
          /\ stat' = [online |-> on, cpuset |-> cs, start |-> s, readable |-> r,
                      total |-> [c \in CPUs |-> IF c \in DOMAIN t THEN t[c] ELSE 0]]
          /\ mask' = [m \in Threads |-> s]
    BY <1>9 DEF ReadStat
  <2>2. PICK cs \in SUBSET on, t \in [IF r THEN on ELSE {} -> 0..MaxTotal] :
        \E s \in (SUBSET cs) \ {{}} :
          /\ stat' = [online |-> on, cpuset |-> cs, start |-> s, readable |-> r,
                      total |-> [c \in CPUs |-> IF c \in DOMAIN t THEN t[c] ELSE 0]]
          /\ mask' = [m \in Threads |-> s]
    BY <2>1
  <2>3. PICK s \in (SUBSET cs) \ {{}} :
          /\ stat' = [online |-> on, cpuset |-> cs, start |-> s, readable |-> r,
                      total |-> [c \in CPUs |-> IF c \in DOMAIN t THEN t[c] ELSE 0]]
          /\ mask' = [m \in Threads |-> s]
    BY <2>2
  <2>4. cs \in SUBSET CPUs /\ s \in SUBSET CPUs
    OBVIOUS
  <2>5. [c \in CPUs |-> IF c \in DOMAIN t THEN t[c] ELSE 0] \in [CPUs -> 0..MaxTotal]
    <3>1. \A c \in DOMAIN t : t[c] \in 0..MaxTotal
      OBVIOUS
    <3>2. 0 \in 0..MaxTotal
      BY OptionsAssumption DEF OptionsAssumption
    <3> QED
      BY <3>1, <3>2
  <2> QED
    BY <1>9, <2>3, <2>4, <2>5 DEF ReadStat
<1>10. CASE SetAffinity
  <2>1. Filtered \cap stat.cpuset \in SUBSET CPUs
    OBVIOUS
  <2>2. mask' \in [Threads -> SUBSET CPUs]
    BY <1>10, <2>1 DEF SetAffinity
  <2> QED
    BY <1>10, <2>2 DEF SetAffinity
<1>11. CASE UNCHANGED vars
  BY <1>11 DEF vars
<1> QED
  BY <1>2, <1>3, <1>4, <1>5, <1>6, <1>7, <1>8, <1>9, <1>10, <1>11
  DEF Next, ParseStep, Terminated

\* Every variable keeps its type: the required load is a percentage that can
\* be reached, a limit fits in its word (config.go:92-149).
THEOREM OptionsTypeCorrect == Spec => []TypeOK
<1> QED
  BY TypeInit, TypeStep, PTL DEF Spec

-----------------------------------------------------------------------------
(* Limits.                                                                 *)

MemoryInv == memory = (asked.n * asked.unit) % Word

LEMMA MemoryStep == TypeOK /\ MemoryInv /\ [Next]_vars => MemoryInv'
BY DEF MemoryInv, Next, ParseStep, BadOption, SetTime, SetIdle, SetMemory, SetLoad, SetEnv,
    SetEnvToOS, SetAffinityOption, NewConfig, ReadStat, SetAffinity, Terminated, vars, limitVars,
    envVars, cpuVars

LEMMA LimitsFollow == TypeOK /\ MemoryInv => LimitsStayInForce
<1> SUFFICES ASSUME TypeOK, MemoryInv PROVE LimitsStayInForce
  OBVIOUS
<1>1. idleLimit # 0 => Seconds(idleLimit) >= 1
  BY DEF TypeOK, Seconds
<1>2. ASSUME memory = 0, asked.n > 0
      PROVE  asked.n * asked.unit >= Word
  <2>1. asked.n \in Nat /\ asked.unit \in Units
    BY DEF TypeOK
  <2>2. Word \in Nat /\ Word > 0 /\ Kilo \in Nat /\ Kilo > 0
    BY OptionsAssumption DEF OptionsAssumption
  <2>3. Kilo * Kilo \in Nat /\ Kilo * Kilo > 0
    BY <2>2
  <2>4. asked.unit \in Nat /\ asked.unit > 0
    BY <2>1, <2>2, <2>3 DEF Units
  <2>5. asked.n * asked.unit \in Nat /\ asked.n * asked.unit > 0
    BY <1>2, <2>1, <2>4
  <2>6. \A m \in Nat : m < Word => m % Word = m
    BY <2>2
  <2> QED
    BY <1>2, <2>2, <2>5, <2>6 DEF MemoryInv
<1> QED
  BY <1>1, <1>2 DEF LimitsStayInForce

\* A limit that was asked for is in force (config.go:57-63, 92-113): whatever
\* the width of the word, a memory limit is lost only to overflow.
THEOREM LimitsAlwaysStay == Spec => []LimitsStayInForce
<1>1. Init => MemoryInv
  BY OptionsAssumption DEF OptionsAssumption, Init, MemoryInv
<1>2. TypeOK /\ MemoryInv /\ [Next]_vars => TypeOK' /\ MemoryInv'
  BY TypeStep, MemoryStep
<1> QED
  BY <1>1, <1>2, TypeInit, LimitsFollow, PTL DEF Spec

-----------------------------------------------------------------------------
(* The environment.                                                        *)

\* e is there, and no other entry has its name.
Kept(e) == \E i \in DOMAIN env : env[i] = e /\ \A j \in DOMAIN env : env[j].name = e.name => j = i

Clashes(e) ==
  \E f \in given : f.name # e.name /\ (IsPrefix(f.name, e.name) \/ IsPrefix(e.name, f.name))

\* What is in the environment was given, though another value may have been
\* given since; what was given is there, unless its name clashes with another.
EnvInv ==
  /\ \A i \in DOMAIN env : \E g \in given : g.name = env[i].name
  /\ \A e \in given : Kept(e) \/ Clashes(e)

LEMMA EnvFollows == EnvInv => EnvLastWins
<1> SUFFICES ASSUME EnvInv, NEW e \in given, Kept(e)
             PROVE  /\ {i \in DOMAIN env : env[i].name = e.name} = {i \in DOMAIN env : env[i] = e}
                    /\ Cardinality({i \in DOMAIN env : env[i] = e}) = 1
  BY DEF EnvInv, EnvLastWins, Clashes
<1>1. PICK i \in DOMAIN env : env[i] = e /\ \A j \in DOMAIN env : env[j].name = e.name => j = i
  BY DEF Kept
<1>2. {j \in DOMAIN env : env[j] = e} = {i} /\ {j \in DOMAIN env : env[j].name = e.name} = {i}
  BY <1>1
<1> QED
  BY <1>2, FS_Singleton

LEMMA PrefixOfItself ==
  ASSUME NEW k \in Names
  PROVE  IsPrefix(k, k)
<1>1. k \in Seq(ToSet(k))
  BY OptionsAssumption DEF OptionsAssumption
<1>2. Len(k) \in Nat
  BY <1>1
<1> QED
  BY <1>2 DEF IsPrefix

LEMMA SetEnvStep ==
  ASSUME TypeOK, EnvInv, SetEnv
  PROVE  EnvInv'
<1>1. PICK k \in Names, v \in {"new", "newer"} :
        LET e == [name |-> k, value |-> v]
        IN  /\ env' = IF EnvIndex(k) # 0 THEN ReplaceAt(env, EnvIndex(k), e) ELSE Append(env, e)
            /\ given' = {g \in given : g.name # k} \cup {e}
  BY DEF SetEnv
<1> DEFINE e == [name |-> k, value |-> v]
<1>2. e.name = k /\ e \in given' /\ given' = {g \in given : g.name # k} \cup {e}
  BY <1>1
<1>3. env \in Seq(Entry) /\ DOMAIN env = 1..Len(env) /\ Len(env) \in Nat
  BY DEF TypeOK
<1> HIDE DEF e
<1>4. CASE EnvIndex(k) = 0
  <2>1. \A i \in DOMAIN env : env[i].name # k
    BY <1>4, EnvIndexFinds, PrefixOfItself, <1>3
  <2>2. env' = Append(env, e)
    BY <1>1, <1>4 DEF e
  <2>3. /\ DOMAIN env' = DOMAIN env \cup {Len(env) + 1} /\ Len(env) + 1 \notin DOMAIN env
        /\ env'[Len(env) + 1] = e /\ \A i \in DOMAIN env : env'[i] = env[i]
    BY <1>3, <2>2
  <2>4. \A i \in DOMAIN env' : \E g \in given' : g.name = env'[i].name
    BY <1>2, <2>1, <2>3 DEF EnvInv
  <2>5. Kept(e)'
    BY <1>2, <2>1, <2>3 DEF Kept
  <2>6. ASSUME NEW g \in given, g.name # k
        PROVE  Kept(g)' \/ Clashes(g)'
    <3>1. CASE Kept(g)
      BY <1>2, <2>3, <2>6, <3>1 DEF Kept
    <3>2. CASE Clashes(g)
      BY <1>2, <2>6, <3>2 DEF Clashes
    <3> QED
      BY <3>1, <3>2 DEF EnvInv
  <2> QED
    BY <1>2, <2>4, <2>5, <2>6 DEF EnvInv
<1>5. CASE EnvIndex(k) # 0
  <2> DEFINE n == EnvIndex(k)
  <2>1. n \in DOMAIN env /\ IsPrefix(k, env[n].name)
    BY <1>3, <1>5, EnvIndexFinds
  <2>2. env' = [env EXCEPT ![n] = e]
    BY <1>1, <1>5 DEF ReplaceAt, e
  <2> HIDE DEF n
  <2>3. /\ DOMAIN env' = DOMAIN env
        /\ env'[n] = e /\ \A i \in DOMAIN env : i # n => env'[i] = env[i]
    BY <2>1, <2>2
  <2>4. \A i \in DOMAIN env' : \E g \in given' : g.name = env'[i].name
    BY <1>2, <2>3 DEF EnvInv
  <2>5. PICK h \in given : h.name = env[n].name
    BY <2>1 DEF EnvInv
  <2>6. Kept(e)' \/ Clashes(e)'
    <3>1. CASE h.name # k
      BY <1>2, <2>1, <2>5, <3>1 DEF Clashes
    <3>2. CASE h.name = k /\ Clashes(h)
      BY <1>2, <3>2 DEF Clashes
    <3>3. CASE h.name = k /\ Kept(h)
      BY <1>2, <2>1, <2>3, <2>5, <3>3 DEF Kept
    <3> QED
      BY <3>1, <3>2, <3>3 DEF EnvInv
  <2>7. ASSUME NEW g \in given, g.name # k
        PROVE  Kept(g)' \/ Clashes(g)'
    <3>1. CASE g.name = env[n].name
      BY <1>2, <2>1, <2>7, <3>1 DEF Clashes
    <3>2. CASE g.name # env[n].name /\ Kept(g)
      BY <1>2, <2>1, <2>3, <2>7, <3>2 DEF Kept
    <3>3. CASE Clashes(g)
      BY <1>2, <2>7, <3>3 DEF Clashes
    <3> QED
      BY <3>1, <3>2, <3>3 DEF EnvInv
  <2> QED
    BY <1>2, <2>4, <2>6, <2>7 DEF EnvInv
<1> QED
  BY <1>4, <1>5

LEMMA EnvStep == TypeOK /\ EnvInv /\ [Next]_vars => EnvInv'
<1> SUFFICES ASSUME TypeOK, EnvInv, [Next]_vars PROVE EnvInv'
  OBVIOUS
<1>1. CASE SetEnvToOS
  <2>1. env' = OSEnv /\ given' = ToSet(OSEnv)
    BY <1>1 DEF SetEnvToOS
  <2>2. \A i, j \in DOMAIN OSEnv : OSEnv[i].name = OSEnv[j].name => i = j
    BY OptionsAssumption DEF OptionsAssumption
  <2>3. \A e \in given' : Kept(e)'
    BY <2>1, <2>2 DEF Kept, ToSet
  <2> QED
    BY <2>1, <2>3 DEF EnvInv, ToSet
<1>2. CASE UNCHANGED envVars
  BY <1>2 DEF envVars, EnvInv, Kept, Clashes
<1> QED
  BY <1>1, <1>2, SetEnvStep
  DEF Next, ParseStep, BadOption, SetTime, SetIdle, SetMemory, SetLoad, SetAffinityOption,
      NewConfig, ReadStat, SetAffinity, Terminated, vars

\* The last value given for a variable counts and is there once, except where
\* a name given begins with another (config.go:174-185), for any number of -D
\* options in any order, -D ~OS among them.
THEOREM EnvLastAlwaysWins == Spec => []EnvLastWins
<1>1. Init => EnvInv
  BY DEF Init, EnvInv
<1>2. TypeOK /\ EnvInv /\ [Next]_vars => TypeOK' /\ EnvInv'
  BY TypeStep, EnvStep
<1> QED
  BY <1>1, <1>2, TypeInit, EnvFollows, PTL DEF Spec

-----------------------------------------------------------------------------
(* The affinity.                                                           *)

\* The mask of the thread that sets it is what SetAffinity made it, and its call
\* fails only when no CPU is left.
MaskInv ==
  /\ stat.start # {} /\ stat.start \subseteq stat.cpuset /\ stat.cpuset \subseteq stat.online
  /\ phase = "running" /\ affinity # <<>> =>
       mask["tracer"] = Filtered \cap stat.cpuset /\ mask["tracer"] # {}
  /\ phase = "failed" => Filtered \cap stat.cpuset = {}

LEMMA MaskStep == TypeOK /\ MaskInv /\ [Next]_vars => MaskInv'
<1> SUFFICES ASSUME TypeOK, MaskInv, [Next]_vars PROVE MaskInv'
  OBVIOUS
<1>1. CASE ParseStep
  BY <1>1
  DEF ParseStep, Option, BadOption, SetTime, SetIdle, SetMemory, SetLoad, SetEnv, SetEnvToOS,
      SetAffinityOption, MaskInv, cpuVars
<1>2. CASE NewConfig
  BY <1>2 DEF NewConfig, MaskInv, cpuVars
<1>3. CASE ReadStat
  <2>1. \E on, cs, s, r, t :
          /\ s # {} /\ s \subseteq cs /\ cs \subseteq on
          /\ stat' = [online |-> on, cpuset |-> cs, start |-> s, readable |-> r, total |-> t]
    BY <1>3 DEF ReadStat
  <2>2. stat'.start # {} /\ stat'.start \subseteq stat'.cpuset /\ stat'.cpuset \subseteq stat'.online
    BY <2>1
  <2>3. phase' = "affinity"
    BY <1>3 DEF ReadStat
  <2> QED
    BY <2>2, <2>3 DEF MaskInv
<1>4. CASE SetAffinity
  <2>1. affinity' = affinity /\ stat' = stat /\ Filtered' = Filtered
    BY <1>4 DEF SetAffinity, Filtered, Wanted, Chosen, Valid
  <2>2. CASE affinity = <<>>
    BY <1>4, <2>1, <2>2 DEF SetAffinity, MaskInv
  <2>3. CASE affinity # <<>> /\ Filtered \cap stat.cpuset = {}
    BY <1>4, <2>1, <2>3 DEF SetAffinity, MaskInv
  <2>4. CASE affinity # <<>> /\ Filtered \cap stat.cpuset # {}
    BY <1>4, <2>1, <2>4 DEF SetAffinity, MaskInv, TypeOK, Threads
  <2> QED
    BY <2>2, <2>3, <2>4
<1>5. CASE UNCHANGED vars
  BY <1>5 DEF vars, cpuVars, MaskInv, Filtered, Wanted, Chosen, Valid
<1> QED
  BY <1>1, <1>2, <1>3, <1>4, <1>5 DEF Next, Terminated

LEMMA MaskInvariance == Spec => [](TypeOK /\ MaskInv)
<1>1. Init => MaskInv
  BY CPUNumbers DEF Init, MaskInv
<1>2. TypeOK /\ MaskInv /\ [Next]_vars => TypeOK' /\ MaskInv'
  BY TypeStep, MaskStep
<1> QED
  BY <1>1, <1>2, TypeInit, PTL DEF Spec

\* In a program that started with all CPUs every CPU is valid and left by the
\* cpuset, and CPU 0 is one.
LEMMA OnlineIsValid ==
  ASSUME TypeOK, MaskInv, Unrestricted
  PROVE  /\ 0 \in stat.online /\ stat.cpuset = stat.online
         /\ \A c \in stat.online : Valid(c)
<1>1. stat.online \subseteq CPUs /\ stat.online # {}
  BY DEF TypeOK, MaskInv
<1>2. IsFiniteSet(stat.online) /\ Cardinality(stat.online) \in Nat
  <2>1. IsFiniteSet(CPUs)
    BY FS_Interval, OptionsAssumption DEF OptionsAssumption, CPUs
  <2> QED
    BY <1>1, <2>1, FS_Subset, FS_CardinalityType
<1>3. stat.start = stat.online /\ stat.online = 0..(Cardinality(stat.online) - 1)
  BY DEF Unrestricted
<1>4. stat.cpuset = stat.online
  BY <1>3 DEF MaskInv
<1>5. \A c \in stat.online : c \in 0..(Cardinality(stat.start) - 1)
  BY <1>3
<1>6. \A c \in stat.online : Valid(c)
  BY <1>2, <1>3, <1>5 DEF Valid
<1>7. 0 \in 0..(Cardinality(stat.online) - 1)
  BY <1>1, <1>2, <1>3
<1> QED
  BY <1>3, <1>4, <1>6, <1>7

LEMMA TakenFollows == TypeOK /\ MaskInv => AffinityIsTaken
<1> SUFFICES ASSUME TypeOK, MaskInv, affinity # <<>>, affinity # <<-1>>
             PROVE  /\ phase = "running" =>
                         /\ mask["tracer"] # {}
                         /\ mask["tracer"] \subseteq ToSet(affinity) \cap stat.cpuset
                    /\ Unrestricted =>
                         /\ phase = "running" => mask["tracer"] = ToSet(affinity) \cap stat.online
                         /\ phase = "failed" => ToSet(affinity) \cap stat.online = {}
  BY DEF AffinityIsTaken
<1>1. Filtered \subseteq ToSet(affinity)
  BY DEF Filtered, Wanted
<1>2. ASSUME Unrestricted
      PROVE  Filtered \cap stat.cpuset = ToSet(affinity) \cap stat.online
  BY <1>2, OnlineIsValid DEF Filtered, Wanted
<1> QED
  BY <1>1, <1>2 DEF MaskInv

LEMMA ChosenFollows == TypeOK /\ MaskInv => LeastLoadedIsChosen
<1> SUFFICES ASSUME TypeOK, MaskInv, Unrestricted, affinity = <<-1>>
             PROVE  /\ phase # "failed"
                    /\ phase = "running" =>
                         \E c \in stat.online :
                           /\ mask["tracer"] = {c}
                           /\ IF stat.readable
                                THEN \A d \in stat.online :
                                       d < ShortIds => stat.total[c] <= stat.total[d]
                              ELSE c = 0
  BY DEF LeastLoadedIsChosen
<1> DEFINE c == Chosen
           Best == \A d \in stat.online : d < ShortIds => stat.total[c] <= stat.total[d]
<1>1. stat \in Machines
  BY OptionsAssumption DEF OptionsAssumption, TypeOK, Machines
<1>2. c \in stat.online /\ IF stat.readable THEN Best ELSE c = 0
  BY <1>1, OnlineIsValid, ReliableIsLeast DEF Chosen
<1>3. Filtered \cap stat.cpuset = {c}
  BY <1>2, OnlineIsValid DEF Filtered, Wanted
<1>4. affinity # <<>>
  OBVIOUS
<1> QED
  BY <1>2, <1>3, <1>4 DEF MaskInv

\* Nothing is taken but CPUs that were asked for and exist; in a program that
\* started with all CPUs, all of them, and only a list without any is an error
\* (os.go:52-73), on a machine with any number of CPUs.
THEOREM AffinityIsAlwaysTaken == Spec => []AffinityIsTaken
<1> QED
  BY MaskInvariance, TakenFollows, PTL

\* In a program that started with all CPUs -1 never fails and chooses a CPU that
\* has counted the least time of those with a short id, whatever the lines of
\* /proc/stat, or CPU 0 if there are none (os.go:44-50, 77-117).
THEOREM LeastLoadedIsAlwaysChosen == Spec => []LeastLoadedIsChosen
<1> QED
  BY MaskInvariance, ChosenFollows, PTL
=============================================================================

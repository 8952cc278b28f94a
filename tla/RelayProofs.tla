---------------------------- MODULE RelayProofs ----------------------------
(***************************************************************************)
(* Theorems about module PtyRelay, for any number of lines typed and       *)
(* pieces of text printed.                                                 *)
(***************************************************************************)
EXTENDS PtyRelay, SequenceTheorems, FiniteSetTheorems, TLAPS

-----------------------------------------------------------------------------
(* Sequences of pieces.                                                    *)

LEMMA EmptyIsTyped == \A S : <<>> \in Seq(S)
  OBVIOUS

LEMMA AppendIsTyped ==
  ASSUME NEW S, NEW s \in Seq(S), NEW e \in S
  PROVE  Append(s, e) \in Seq(S)
  OBVIOUS

LEMMA TailIsTyped ==
  ASSUME NEW S, NEW s \in Seq(S), s # <<>>
  PROVE  Tail(s) \in Seq(S) /\ Head(s) \in S
BY HeadTailProperties

LEMMA ConcatIsTyped ==
  ASSUME NEW S, NEW s \in Seq(S), NEW t \in Seq(S)
  PROVE  s \o t \in Seq(S)
BY ConcatProperties

\* A line is written into the terminal.
LEMMA WriteType ==
  ASSUME TypeOK, NEW l \in Echoes, WriteTTY(l)
  PROVE  input' \in Seq(Echoes) /\ output' \in Seq(Pieces)
<1>1. l \in Pieces
  BY DEF Pieces
<1>2. Append(output, l) \in Seq(Pieces) /\ Append(input, l) \in Seq(Echoes)
  BY <1>1, AppendIsTyped DEF TypeOK
<1> QED
  BY <1>2 DEF WriteTTY, TypeOK

\* The counts of lines stay counts.
LEMMA CountType ==
  ASSUME NEW f \in [Pieces -> Nat], NEW l \in Pieces
  PROVE  [f EXCEPT ![l] = @ + 1] \in [Pieces -> Nat]
  OBVIOUS

-----------------------------------------------------------------------------
(* Types.                                                                  *)

LEMMA TypeInit == Init => TypeOK
<1> SUFFICES ASSUME Init PROVE TypeOK
  OBVIOUS
<1>1. typed \in 0..MaxTyped /\ printed \in 0..MaxPrinted /\ chan \in 0..1
  BY PtyAssumption DEF PtyAssumption, Init
<1>2. shown \in [Pieces -> Nat] /\ swallowed \in [Pieces -> Nat] /\ owed \in Nat
  BY DEF Init
<1>3. input \in Seq(Echoes) /\ output \in Seq(Pieces)
  BY EmptyIsTyped DEF Init
<1> QED
  BY <1>1, <1>2, <1>3 DEF Init, TypeOK

\* A line is swallowed, is the stop key, or is shown.
LEMMA DeliverType ==
  ASSUME TypeOK, NEW l \in Pieces, Deliver(l), reader = "reading"
  PROVE  /\ shown' \in [Pieces -> Nat] /\ swallowed' \in [Pieces -> Nat]
         /\ chan' \in 0..1
         /\ reader' = reader \/ (reader' = "done" /\ IsStop(l))
<1>1. /\ [swallowed EXCEPT ![l] = @ + 1] \in [Pieces -> Nat]
      /\ [shown EXCEPT ![l] = @ + 1] \in [Pieces -> Nat]
  BY CountType DEF TypeOK
<1> QED
  BY <1>1 DEF Deliver, AfterTake, TypeOK

LEMMA TakeType ==
  ASSUME TypeOK, NEW l \in Pieces, Take(l)
  PROVE  output' \in Seq(Pieces) /\ owed' \in Nat
BY TailIsTyped DEF TypeOK, Take

LEMMA TypeStep == TypeOK /\ [Next]_vars => TypeOK'
<1> SUFFICES ASSUME TypeOK, [Next]_vars PROVE TypeOK'
  OBVIOUS
<1> USE DEF TypeOK, threadVars, ttyVars, ghostVars
<1>1. CASE StartFails \/ StartPTY \/ WaitSu \/ SetFinish \/ Join
  <2>1. /\ pc' \in {"prompt", "finish", "key", "returned"} /\ finish' \in BOOLEAN
        /\ su' \in {su, "start"}
    BY <1>1 DEF StartFails, StartPTY, WaitSu, SetFinish, Raise, Join
  <2>2. UNCHANGED <<reader, partial, typist, chan, survivor, echo, input, output, printed, typed, ghostVars>>
    BY <1>1 DEF StartFails, StartPTY, WaitSu, SetFinish, Raise, Join
  <2> QED
    BY <2>1, <2>2
<1>2. CASE AwaitPrompt
  BY <1>2 DEF AwaitPrompt
<1>3. CASE EnterPassword
  BY <1>3, WriteType DEF EnterPassword, Echoes
<1>4. CASE WriteStopKey
  BY <1>4, WriteType DEF WriteStopKey, Unfinished, Echoes
<1>5. CASE ReadLine
  <2>1. PICK l \in Pieces : Take(l) /\ Deliver(l) /\ partial' = FALSE
    BY <1>5 DEF ReadLine
  <2>2. reader' \in {"off", "reading", "done", "cut"}
    BY <2>1, DeliverType DEF Take
  <2>3. /\ shown' \in [Pieces -> Nat] /\ swallowed' \in [Pieces -> Nat] /\ chan' \in 0..1
        /\ output' \in Seq(Pieces) /\ owed' \in Nat
    BY <2>1, DeliverType, TakeType DEF Take
  <2>4. UNCHANGED <<pc, finish, typist, su, survivor, echo, input, printed, typed, granted,
                    unfinished>> /\ partial' \in BOOLEAN
    BY <2>1 DEF Take
  <2> QED
    BY <2>1, <2>2, <2>3, <2>4
<1>6. CASE ReadPart \/ ReadTooLong
  <2>1. output' \in Seq(Pieces) /\ owed' \in Nat
    BY <1>6, TakeType DEF ReadPart, ReadTooLong, Pieces, Output
  <2> QED
    BY <1>6, <2>1 DEF ReadPart, ReadTooLong, Take
<1>7. CASE ReadLast
  <2>1. "part" \in Pieces
    BY DEF Pieces, Output
  <2>2. reader' \in {"off", "reading", "done", "cut"}
    BY <1>7, <2>1, DeliverType DEF ReadLast
  <2>3. shown' \in [Pieces -> Nat] /\ swallowed' \in [Pieces -> Nat] /\ chan' \in 0..1
    BY <1>7, <2>1, DeliverType DEF ReadLast
  <2>4. UNCHANGED <<pc, finish, typist, ttyVars, typed, granted, owed, unfinished>>
        /\ partial' \in BOOLEAN
    BY <1>7 DEF ReadLast
  <2> QED
    BY <2>2, <2>3, <2>4
<1>8. CASE ReadHungUp
  BY <1>8 DEF ReadHungUp
<1>9. CASE Type
  BY <1>9, PtyAssumption DEF PtyAssumption, Type
<1>10. CASE TypistStep
  <2>1. CASE PutMessage("put", "write")
    BY <2>1 DEF PutMessage, ChanHasRoom
  <2>2. CASE WriteLine("write", "idle")
    BY <2>2, WriteType DEF WriteLine, Echoes
  <2> QED
    BY <1>10, <2>1, <2>2 DEF TypistStep
<1>11. CASE SuStep
  <2>1. /\ \A l \in {"prompt", "blank"} : Append(output, l) \in Seq(Pieces)
        /\ <<"blank", "line">> \in Seq(Pieces) /\ <<"line">> \in Seq(Pieces)
    BY AppendIsTyped DEF Pieces, Output
  <2> HIDE DEF Pieces, Echoes
  <2>2. CASE SuAsks \/ SuTrusts \/ SuDecides
    <3>1. /\ su' \in {"asking", "running"} /\ echo' \in BOOLEAN /\ granted' \in BOOLEAN
          /\ input' \in Seq(Echoes) /\ output' \in Seq(Pieces)
      BY <2>1, <2>2, EmptyIsTyped DEF SuAsks, SuTrusts, SuDecides
    <3>2. UNCHANGED <<threadVars, survivor, printed, typed, shown, swallowed, owed, unfinished>>
      BY <2>2 DEF SuAsks, SuTrusts, SuDecides
    <3> QED
      BY <3>1, <3>2
  <2>3. CASE SuRefuses
    <3>1. output' \in Seq(Pieces)
      BY <2>1, <2>3, ConcatIsTyped DEF SuRefuses
    <3> QED
      BY <2>3, <3>1 DEF SuRefuses
  <2>4. CASE SuExits
    BY <2>4, EmptyIsTyped DEF SuExits
  <2> QED
    BY <1>11, <2>2, <2>3, <2>4 DEF SuStep
<1>12. CASE ProgramStep
  <2>1. \A l \in Output : Append(output, l) \in Seq(Pieces)
    BY AppendIsTyped DEF Pieces
  <2>2. input # <<>> => Tail(input) \in Seq(Echoes)
    BY TailIsTyped
  <2> HIDE DEF Pieces, Echoes, Output
  <2>3. CASE PrintText
    BY <2>1, <2>3, PtyAssumption DEF PtyAssumption, PrintText
  <2>4. CASE ReadInput
    BY <2>2, <2>4 DEF ReadInput
  <2>5. CASE SetEcho \/ LeaveSurvivor \/ SurvivorExits
    <3>1. echo' \in BOOLEAN /\ survivor' \in BOOLEAN /\ input' \in Seq(Echoes)
      BY <2>5, EmptyIsTyped DEF SetEcho, LeaveSurvivor, SurvivorExits
    <3>2. UNCHANGED <<threadVars, su, output, printed, typed, ghostVars>>
      BY <2>5 DEF SetEcho, LeaveSurvivor, SurvivorExits
    <3> QED
      BY <3>1, <3>2
  <2> QED
    BY <1>12, <2>3, <2>4, <2>5 DEF ProgramStep
<1>13. CASE UNCHANGED vars
  BY <1>13 DEF vars
<1> QED
  BY <1>1, <1>2, <1>3, <1>4, <1>5, <1>6, <1>7, <1>8, <1>9, <1>10, <1>11, <1>12, <1>13
  DEF Next, MainStep, ReaderStep, Terminated

\* Every variable keeps its type: the channel never holds more than one message
\* (execpty.go:105-107).
THEOREM RelayTypeCorrect == Spec => []TypeOK
<1> QED
  BY TypeInit, TypeStep, PTL DEF Spec

-----------------------------------------------------------------------------
(* What is printed, and what becomes of it.                                *)

\* Every piece of the output afterwards was there before or is one of S.
Prints(S) == \A l \in Pieces : InOutput(l)' => InOutput(l) \/ l \in S

LEMMA PrintOne ==
  ASSUME TypeOK, NEW l \in Pieces, output' = Append(output, l)
  PROVE  Prints({l})
<1>1. Len(output') = Len(output) + 1
  BY DEF TypeOK
<1>2. \A i \in 1..Len(output') : output'[i] = IF i <= Len(output) THEN output[i] ELSE l
  BY DEF TypeOK
<1> QED
  BY <1>1, <1>2 DEF Prints, InOutput, TypeOK

LEMMA PrintNone ==
  ASSUME TypeOK, output' = output \/ output' = <<>> \/ (output # <<>> /\ output' = Tail(output))
  PROVE  Prints({})
<1>1. CASE output' = output
  BY <1>1 DEF Prints, InOutput
<1>2. CASE output' = <<>>
  BY <1>2 DEF Prints, InOutput
<1>3. CASE output # <<>> /\ output' = Tail(output)
  <2>1. /\ Len(output') = Len(output) - 1
        /\ \A i \in 1..Len(output') : output'[i] = output[i + 1]
    BY <1>3, HeadTailProperties DEF TypeOK
  <2>2. Len(output) \in Nat /\ \A i \in 1..Len(output') : i + 1 \in 1..Len(output)
    BY <2>1 DEF TypeOK
  <2> QED
    BY <2>1, <2>2 DEF Prints, InOutput
<1> QED
  BY <1>1, <1>2, <1>3

LEMMA WritePrints ==
  ASSUME TypeOK, NEW l \in Echoes, WriteTTY(l)
  PROVE  Prints({l}) /\ (~HungUp /\ ~echo => Prints({}))
<1>1. l \in Pieces
  BY DEF Pieces
<1>2. Prints({}) => Prints({l})
  BY DEF Prints
<1> QED
  BY <1>1, <1>2, PrintOne, PrintNone DEF WriteTTY

LEMMA RefusalPrints ==
  ASSUME TypeOK, SuRefuses
  PROVE  Prints({"blank", "line"})
<1> DEFINE t == IF su = "asking" THEN <<"blank", "line">> ELSE <<"line">>
<1>1. t \in Seq(Pieces) /\ \A i \in 1..Len(t) : t[i] \in {"blank", "line"}
  <2>1. CASE su = "asking"
    <3>1. t = <<"blank", "line">>
      BY <2>1
    <3>2. <<"blank", "line">> \in Seq(Pieces)
      BY DEF Pieces, Output
    <3>3. \A i \in 1..2 : i = 1 \/ i = 2
      OBVIOUS
    <3>4. Len(t) = 2 /\ t[1] = "blank" /\ t[2] = "line"
      BY <3>1
    <3> HIDE DEF t
    <3> QED
      BY <3>1, <3>2, <3>3, <3>4
  <2>2. CASE su # "asking"
    <3>1. t = <<"line">>
      BY <2>2
    <3> QED
      BY <3>1 DEF Pieces, Output
  <2> QED
    BY <2>1, <2>2
<1>2. output' = output \o t
  BY DEF SuRefuses
<1> HIDE DEF t
<1>3. /\ Len(output') = Len(output) + Len(t)
      /\ \A i \in 1..Len(output) + Len(t) :
           output'[i] = IF i <= Len(output) THEN output[i] ELSE t[i - Len(output)]
  BY <1>1, <1>2, ConcatProperties DEF TypeOK
<1>4. \A i \in 1..Len(output') : i <= Len(output) \/ output'[i] \in {"blank", "line"}
  <2>1. Len(output) \in Nat /\ Len(t) \in Nat
    BY <1>1 DEF TypeOK
  <2>2. \A i \in 1..Len(output') : i > Len(output) => i - Len(output) \in 1..Len(t)
    BY <1>3, <2>1
  <2> QED
    BY <1>1, <1>3, <2>1, <2>2
<1> QED
  BY <1>3, <1>4 DEF Prints, InOutput, TypeOK

\* The piece that is read first is in the output.
LEMMA HeadIsInOutput ==
  ASSUME TypeOK, output # <<>>
  PROVE  Head(output) \in Pieces /\ InOutput(Head(output))
BY HeadTailProperties DEF TypeOK, InOutput

-----------------------------------------------------------------------------
(* The password and the stop key.                                          *)

\* The steps of the reader that take a piece.
TakeStep == ReadLine \/ ReadPart \/ ReadTooLong

LEMMA TakesHead ==
  ASSUME TypeOK, TakeStep
  PROVE  /\ reader = "reading" /\ output # <<>> /\ output' = Tail(output)
         /\ owed' = IF owed > 0 THEN owed - 1 ELSE 0
         /\ UNCHANGED <<pc, finish, typist, su, survivor, echo, input, printed, typed, granted,
                        unfinished>>
         /\ Head(output) \in Pieces
         /\ ReadLine => Deliver(Head(output)) /\ partial' = FALSE /\ Head(output) # "part"
         /\ ReadPart => Head(output) = "part" /\ partial' = TRUE
         /\ ~ReadLine => UNCHANGED <<chan, shown, swallowed>>
         /\ ReadTooLong => reader' = "cut" /\ partial' = FALSE
         /\ ReadPart => reader' = reader
         /\ reader' # "off"
<1>1. CASE ReadLine
  BY <1>1, HeadIsInOutput DEF ReadLine, ReadPart, ReadTooLong, Take, Deliver
<1>2. CASE ReadPart
  BY <1>2, HeadIsInOutput DEF ReadLine, ReadPart, ReadTooLong, Take
<1>3. CASE ReadTooLong
  BY <1>3, HeadIsInOutput DEF ReadLine, ReadPart, ReadTooLong, Take
<1> QED
  BY <1>1, <1>2, <1>3 DEF TakeStep

\* What RunProcessViaPTY knows of su at each of its steps: su is started by it,
\* prints nothing before it asks, refuses or starts the program, and waits for
\* the password if it asked.
SuInv ==
  /\ pc = "start" => su = "none"
  /\ su \in {"none", "start"} =>
       /\ output = <<>> /\ input = <<>> /\ typist = "off" /\ pc \in {"start", "prompt", "returned"}
       /\ ~survivor /\ ~granted
  /\ pc \in {"start", "prompt", "password"} =>
       reader = "off" /\ typist = "off" /\ ~partial /\ ~granted
  /\ su = "asking" => ~echo /\ ~survivor /\ ~granted
  /\ su = "asking" /\ pc \in {"start", "prompt", "password"} => input = <<>>
  /\ pc \in {"finish", "key", "join"} => su = "exited"
  /\ pc = "returned" => su \in {"none", "exited"}
  /\ reader = "off" => pc \in {"start", "prompt", "password", "returned"} /\ ~partial

PasswordInv ==
  (granted \/ su \in {"none", "start", "asking"}) =>
    shown["password"] = 0 /\ ~InOutput("password")

\* Where the key is in the output, and what is in front of it.
KeyInv ==
  /\ pc \in {"key", "join"} => finish
  /\ finish => pc \in {"key", "join", "returned"}
  /\ pc \notin {"join", "returned"} => ~unfinished
  /\ pc \notin {"join", "returned"} => ~InOutput("key")
  /\ InOutput("key") => finish
  /\ shown["key"] > 0 => unfinished
  /\ ~unfinished => \A i \in 1..Len(output) : output[i] = "key" =>
       IF i = 1 THEN ~partial ELSE output[i - 1] # "part"

RelayInv == SuInv /\ PasswordInv /\ KeyInv

LEMMA RelayInit == Init => RelayInv
<1> SUFFICES ASSUME Init PROVE RelayInv
  OBVIOUS
<1>1. Len(output) = 0 /\ \A l : ~InOutput(l)
  BY DEF Init, InOutput
<1>2. "password" \in Pieces /\ "key" \in Pieces
  BY DEF Pieces, Echoes
<1> QED
  BY <1>1, <1>2 DEF Init, RelayInv, SuInv, PasswordInv, KeyInv

LEMMA SuStays ==
  ASSUME TypeOK, SuInv, [Next]_vars
  PROVE  SuInv'
<1> USE DEF SuInv, threadVars, ttyVars, ghostVars
<1>1. CASE MainStep
  <2>1. CASE StartFails \/ StartPTY \/ AwaitPrompt
    BY <2>1 DEF StartFails, StartPTY, AwaitPrompt, PromptSeen, HungUp
  <2>2. CASE EnterPassword
    BY <2>2 DEF EnterPassword, WriteTTY
  <2>3. CASE WaitSu \/ SetFinish \/ Join
    BY <2>3 DEF WaitSu, SetFinish, Join
  <2>4. CASE WriteStopKey
    BY <2>4 DEF WriteStopKey, WriteTTY
  <2> QED
    BY <1>1, <2>1, <2>2, <2>3, <2>4 DEF MainStep
<1>2. CASE TakeStep
  BY <1>2, TakesHead
<1>3. CASE ReadLast \/ ReadHungUp
  BY <1>3 DEF ReadLast, ReadHungUp, Deliver
<1>4. CASE Type
  BY <1>4 DEF Type
<1>5. CASE TypistStep
  BY <1>5 DEF TypistStep, PutMessage, WriteLine, WriteTTY
<1>6. CASE SuStep
  BY <1>6 DEF SuStep, SuAsks, SuTrusts, SuDecides, SuRefuses, SuExits
<1>7. CASE ProgramStep
  BY <1>7 DEF ProgramStep, InUse, PrintText, ReadInput, SetEcho, LeaveSurvivor, SurvivorExits
<1>8. CASE UNCHANGED vars
  BY <1>8 DEF vars
<1> QED
  BY <1>1, <1>2, <1>3, <1>4, <1>5, <1>6, <1>7, <1>8 DEF Next, ReaderStep, TakeStep, Terminated

\* Who prints what, and who shows what.
LEMMA StepPrints ==
  ASSUME TypeOK, SuInv, [Next]_vars
  PROVE  \/ Prints({"typed", "prompt", "blank", "line", "part", "long"}) /\ shown' = shown
         \/ EnterPassword /\ Prints({"password"}) /\ shown' = shown
         \/ WriteStopKey /\ Prints({"key"}) /\ shown' = shown
         \/ (TakeStep \/ ReadLast) /\ Prints({})
<1> DEFINE S == {"typed", "prompt", "blank", "line", "part", "long"}
<1>1. \A T \in SUBSET S : Prints(T) => Prints(S)
  BY DEF Prints
<1> HIDE DEF S
<1> USE DEF threadVars, ttyVars, ghostVars
<1>2. {} \subseteq S /\ {"blank", "line"} \subseteq S
      /\ \A l \in {"typed", "prompt", "blank", "line", "part", "long"} : {l} \subseteq S
  BY DEF S
<1>3. CASE StartFails \/ StartPTY \/ WaitSu \/ SetFinish \/ Join \/ AwaitPrompt
  BY <1>1, <1>2, <1>3, PrintNone
  DEF StartFails, StartPTY, WaitSu, SetFinish, Join, AwaitPrompt, S
<1>4. CASE EnterPassword
  BY <1>4, WritePrints DEF EnterPassword, Echoes
<1>5. CASE WriteStopKey
  BY <1>5, WritePrints DEF WriteStopKey, Echoes
<1>6. CASE TakeStep
  BY <1>6, TakesHead, PrintNone
<1>7. CASE ReadLast
  BY <1>7, PrintNone DEF ReadLast
<1>8. CASE ReadHungUp \/ Type \/ SuTrusts \/ SuExits
  BY <1>1, <1>2, <1>8, PrintNone DEF ReadHungUp, Type, SuTrusts, SuExits, S
<1>9. CASE ReadInput \/ SetEcho \/ LeaveSurvivor \/ SurvivorExits
  BY <1>1, <1>2, <1>9, PrintNone DEF ReadInput, SetEcho, LeaveSurvivor, SurvivorExits, S
<1>10. CASE TypistStep
  BY <1>1, <1>2, <1>10, PrintNone, WritePrints DEF TypistStep, PutMessage, WriteLine, Echoes, S
<1>11. CASE SuAsks \/ SuDecides
  BY <1>1, <1>2, <1>11, PrintOne DEF SuAsks, SuDecides, Pieces, S
<1>12. CASE PrintText
  BY <1>1, <1>2, <1>12, PrintOne DEF PrintText, Pieces, Output, S
<1>13. CASE SuRefuses
  BY <1>1, <1>2, <1>13, RefusalPrints DEF SuRefuses, S
<1>14. CASE UNCHANGED vars
  BY <1>1, <1>2, <1>14, PrintNone DEF vars, S
<1> QED
  BY <1>3, <1>4, <1>5, <1>6, <1>7, <1>8, <1>9, <1>10, <1>11, <1>12, <1>13, <1>14
  DEF Next, MainStep, ReaderStep, TakeStep, SuStep, ProgramStep, Terminated

\* su takes the password once, and not before it is written.
LEMMA GrantMovesOn ==
  ASSUME TypeOK, SuInv, [Next]_vars, granted' \/ su' \in {"none", "start", "asking"}
  PROVE  /\ granted \/ su \in {"none", "start", "asking"}
         /\ EnterPassword => ~HungUp /\ ~echo
<1> USE DEF SuInv, threadVars, ttyVars, ghostVars
<1>1. CASE MainStep
  BY <1>1 DEF TypeOK, MainStep, StartFails, StartPTY, AwaitPrompt, EnterPassword, WaitSu,
      SetFinish, WriteStopKey, Join, HungUp
<1>2. CASE ReaderStep
  BY <1>2, TakesHead DEF ReaderStep, TakeStep, ReadLast, ReadHungUp, EnterPassword
<1>3. CASE Type \/ TypistStep
  BY <1>3 DEF Type, TypistStep, PutMessage, WriteLine, EnterPassword
<1>4. CASE SuStep
  BY <1>4 DEF SuStep, SuAsks, SuTrusts, SuDecides, SuRefuses, SuExits, EnterPassword
<1>5. CASE ProgramStep
  BY <1>5 DEF ProgramStep, PrintText, ReadInput, SetEcho, LeaveSurvivor, SurvivorExits, EnterPassword
<1>6. CASE UNCHANGED vars
  BY <1>6 DEF vars, EnterPassword
<1> QED
  BY <1>1, <1>2, <1>3, <1>4, <1>5, <1>6 DEF Next, Terminated

\* What is shown when a line ends in l: that line or nothing.
LEMMA DeliverShows ==
  ASSUME TypeOK, NEW l \in Pieces, Deliver(l), NEW m \in Pieces
  PROVE  shown'[m] = shown[m] \/ (m = l /\ ~IsStop(l) /\ shown'[m] = shown[m] + 1)
BY DEF Deliver, TypeOK

\* The reader shows no piece that is not there.
LEMMA ShowsWhatIsThere ==
  ASSUME TypeOK, TakeStep \/ ReadLast, NEW m \in Pieces
  PROVE  \/ shown'[m] = shown[m]
         \/ m = "part"
         \/ ReadLine /\ m = Head(output) /\ InOutput(m) /\ ~IsStop(m) /\ partial' = FALSE
<1>1. CASE ReadLine
  BY <1>1, TakesHead, DeliverShows, HeadIsInOutput DEF TakeStep
<1>2. CASE ReadPart \/ ReadTooLong
  BY <1>2 DEF ReadPart, ReadTooLong
<1>3. CASE ReadLast
  <2>1. "part" \in Pieces
    BY DEF Pieces, Output
  <2> QED
    BY <1>3, <2>1, DeliverShows DEF ReadLast
<1> QED
  BY <1>1, <1>2, <1>3 DEF TakeStep

LEMMA PasswordStays ==
  ASSUME TypeOK, SuInv, PasswordInv, [Next]_vars
  PROVE  PasswordInv'
<1> SUFFICES ASSUME granted' \/ su' \in {"none", "start", "asking"}
             PROVE  shown'["password"] = 0 /\ ~InOutput("password")'
  BY DEF PasswordInv
<1>1. shown["password"] = 0 /\ ~InOutput("password")
  BY GrantMovesOn DEF PasswordInv
<1>2. "password" \in Pieces
  BY DEF Pieces, Echoes
<1>3. CASE Prints({"typed", "prompt", "blank", "line", "part", "long"}) /\ shown' = shown
  BY <1>1, <1>2, <1>3 DEF Prints
<1>4. CASE EnterPassword /\ shown' = shown
  <2>1. Prints({})
    BY <1>4, GrantMovesOn, WritePrints DEF EnterPassword, Echoes
  <2> QED
    BY <1>1, <1>2, <1>4, <2>1 DEF Prints
<1>5. CASE WriteStopKey /\ Prints({"key"}) /\ shown' = shown
  BY <1>1, <1>2, <1>5 DEF Prints
<1>6. CASE (TakeStep \/ ReadLast) /\ Prints({})
  BY <1>1, <1>2, <1>6, ShowsWhatIsThere DEF Prints
<1> QED
  BY <1>3, <1>4, <1>5, <1>6, StepPrints

\* Who raises the flag, and who writes the key.
LEMMA FlagStays ==
  ASSUME TypeOK, SuInv, KeyInv, [Next]_vars
  PROVE  /\ finish => finish'
         /\ pc' \in {"key", "join"} => finish'
         /\ finish' => pc' \in {"key", "join", "returned"}
         /\ pc \in {"join", "returned"} => pc' \in {"join", "returned"} /\ unfinished' = unfinished
         /\ ~WriteStopKey => unfinished' = unfinished
         /\ pc' \in {"join", "returned"} =>
              pc \in {"join", "returned"} \/ WriteStopKey \/ (pc = "start" /\ ~finish')
         /\ WriteStopKey => pc' = "join" /\ unfinished' = Unfinished /\ partial' = partial
<1> USE DEF KeyInv, SuInv, threadVars, ttyVars, ghostVars
<1>1. CASE MainStep
  BY <1>1 DEF TypeOK, MainStep, StartFails, StartPTY, AwaitPrompt, EnterPassword, WaitSu,
      SetFinish, Raise, WriteStopKey, Join
<1>2. CASE ReaderStep
  <2>1. UNCHANGED <<pc, finish, unfinished>>
    BY <1>2, TakesHead DEF ReaderStep, TakeStep, ReadLast, ReadHungUp
  <2> QED
    BY <2>1 DEF TypeOK, WriteStopKey
<1>3. CASE Type \/ TypistStep
  BY <1>3 DEF TypeOK, Type, TypistStep, PutMessage, WriteLine, WriteStopKey
<1>4. CASE SuStep
  BY <1>4 DEF TypeOK, SuStep, SuAsks, SuTrusts, SuDecides, SuRefuses, SuExits, WriteStopKey
<1>5. CASE ProgramStep
  BY <1>5 DEF TypeOK, ProgramStep, PrintText, ReadInput, SetEcho, LeaveSurvivor, SurvivorExits,
      WriteStopKey
<1>6. CASE UNCHANGED vars
  BY <1>6 DEF TypeOK, vars, WriteStopKey
<1> QED
  BY <1>1, <1>2, <1>3, <1>4, <1>5, <1>6 DEF Next, Terminated

\* What a step does to the output and to the line that is being read.
LEMMA StepShapes ==
  ASSUME TypeOK, SuInv, [Next]_vars
  PROVE  \/ output' = output /\ partial' = partial
         \/ output' = <<>>
         \/ \E l \in Pieces : /\ output' = Append(output, l) /\ partial' = partial
                              /\ l = "key" => WriteStopKey
         \/ TakeStep
         \/ SuRefuses
<1> USE DEF threadVars, ttyVars, ghostVars
<1>1. CASE StartFails \/ StartPTY \/ WaitSu \/ SetFinish \/ Join \/ AwaitPrompt
  BY <1>1 DEF StartFails, StartPTY, WaitSu, SetFinish, Join, AwaitPrompt
<1>2. CASE EnterPassword \/ WriteStopKey
  <2>1. "password" \in Pieces /\ "key" \in Pieces
    BY DEF Pieces, Echoes
  <2> QED
    BY <1>2, <2>1 DEF EnterPassword, WriteStopKey, WriteTTY
<1>3. CASE ReadLast \/ ReadHungUp
  BY <1>3 DEF ReadLast, ReadHungUp
<1>4. CASE Type \/ TypistStep
  <2>1. "typed" \in Pieces
    BY DEF Pieces, Echoes
  <2> QED
    BY <1>4, <2>1 DEF Type, TypistStep, PutMessage, WriteLine, WriteTTY
<1>5. CASE SuAsks \/ SuTrusts \/ SuDecides \/ SuExits
  BY <1>5 DEF SuAsks, SuTrusts, SuDecides, SuExits, Pieces
<1>6. CASE ProgramStep
  BY <1>6 DEF ProgramStep, PrintText, ReadInput, SetEcho, LeaveSurvivor, SurvivorExits, Pieces, Output
<1>7. CASE UNCHANGED vars
  BY <1>7 DEF vars
<1> QED
  BY <1>1, <1>2, <1>3, <1>4, <1>5, <1>6, <1>7
  DEF Next, MainStep, ReaderStep, TakeStep, SuStep, Terminated

\* No text without an end of line is in front of the key.
KeyIsAlone ==
  \A i \in 1..Len(output) : output[i] = "key" => IF i = 1 THEN ~partial ELSE output[i - 1] # "part"

LEMMA AloneAppend ==
  ASSUME TypeOK, KeyIsAlone, NEW l \in Pieces, output' = Append(output, l), partial' = partial,
         l = "key" => ~Unfinished
  PROVE  KeyIsAlone'
<1>1. /\ Len(output) \in Nat /\ Len(output') = Len(output) + 1
      /\ \A i \in 1..Len(output') : output'[i] = IF i <= Len(output) THEN output[i] ELSE l
  BY DEF TypeOK
<1>2. output = <<>> <=> Len(output) = 0
  BY DEF TypeOK
<1> SUFFICES ASSUME NEW i \in 1..Len(output'), output'[i] = "key"
             PROVE  IF i = 1 THEN ~partial' ELSE output'[i - 1] # "part"
  BY DEF KeyIsAlone
<1>3. CASE i <= Len(output)
  <2>1. i \in 1..Len(output) /\ (i # 1 => i - 1 \in 1..Len(output) /\ i - 1 \in 1..Len(output'))
    BY <1>1, <1>3
  <2> QED
    BY <1>1, <1>3, <2>1 DEF KeyIsAlone
<1>4. CASE i = Len(output) + 1
  <2>1. l = "key" /\ (i # 1 => i - 1 = Len(output) /\ i - 1 \in 1..Len(output'))
    BY <1>1, <1>4
  <2> QED
    BY <1>1, <1>2, <1>4, <2>1 DEF Unfinished
<1> QED
  BY <1>1, <1>3, <1>4

LEMMA AloneTake ==
  ASSUME TypeOK, KeyIsAlone, TakeStep
  PROVE  KeyIsAlone'
<1>1. /\ Len(output') = Len(output) - 1 /\ Len(output) \in Nat /\ output[1] = Head(output)
      /\ Len(output) > 0
      /\ \A i \in 1..Len(output') : output'[i] = output[i + 1] /\ i + 1 \in 1..Len(output)
  <2>1. output # <<>> /\ output \in Seq(Pieces) /\ output' = Tail(output)
    BY TakesHead DEF TypeOK
  <2> QED
    BY <2>1, HeadTailProperties
<1> SUFFICES ASSUME NEW i \in 1..Len(output'), output'[i] = "key"
             PROVE  IF i = 1 THEN ~partial' ELSE output'[i - 1] # "part"
  BY DEF KeyIsAlone
<1>2. output[i + 1] = "key" /\ i + 1 \in 1..Len(output) /\ i + 1 # 1 /\ (i + 1) - 1 = i
  BY <1>1
<1>3. output[i] # "part"
  BY <1>2 DEF KeyIsAlone
<1>4. CASE i = 1
  BY <1>1, <1>3, <1>4, TakesHead DEF TakeStep
<1>5. CASE i # 1
  <2>1. i - 1 \in 1..Len(output') /\ (i - 1) + 1 = i
    BY <1>1, <1>5
  <2> QED
    BY <1>1, <1>3, <1>5, <2>1
<1> QED
  BY <1>4, <1>5

LEMMA KeyStays ==
  ASSUME TypeOK, SuInv, KeyInv, [Next]_vars
  PROVE  KeyInv'
<1>1. "key" \in Pieces /\ "part" \in Pieces
  BY DEF Pieces, Output, Echoes
<1>2. InOutput("key")' => InOutput("key") \/ WriteStopKey
  BY <1>1, StepPrints DEF Prints
<1>3. InOutput("key")' => finish' /\ pc' \in {"join", "returned"}
  BY <1>2, FlagStays DEF KeyInv
<1>4. pc' \notin {"join", "returned"} => ~unfinished'
  BY FlagStays DEF KeyInv
<1>5. shown'["key"] > 0 => unfinished'
  <2>1. shown["key"] > 0 => unfinished'
    <3>1. shown["key"] > 0 => unfinished /\ pc \in {"join", "returned"}
      BY DEF KeyInv
    <3> QED
      BY <3>1, FlagStays
  <2>2. CASE shown'["key"] = shown["key"]
    BY <2>1, <2>2
  <2>3. CASE shown'["key"] # shown["key"]
    <3>1. ReadLine /\ "key" = Head(output) /\ InOutput("key") /\ ~IsStop("key")
      BY <1>1, <2>3, StepPrints, ShowsWhatIsThere
    <3>2. finish /\ partial /\ pc \in {"join", "returned"}
      BY <3>1 DEF IsStop, KeyInv
    <3>3. output[1] = "key" /\ 1 \in 1..Len(output)
      <4>1. output # <<>> /\ output \in Seq(Pieces)
        BY <3>1, TakesHead DEF TakeStep, TypeOK
      <4>2. Len(output) \in Nat /\ Len(output) > 0 /\ output[1] = Head(output)
        BY <4>1, HeadTailProperties
      <4> QED
        BY <3>1, <4>2
    <3> QED
      BY <3>2, <3>3, FlagStays DEF KeyInv
  <2> QED
    BY <2>2, <2>3
<1>6. ~unfinished' => KeyIsAlone'
  <2> SUFFICES ASSUME ~unfinished' PROVE KeyIsAlone'
    OBVIOUS
  <2>1. WriteStopKey => ~Unfinished
    BY FlagStays
  <2>2. KeyIsAlone
    <3>1. CASE WriteStopKey
      <4>1. ~InOutput("key")
        BY <3>1 DEF WriteStopKey, KeyInv
      <4> QED
        BY <4>1 DEF KeyIsAlone, InOutput
    <3>2. CASE ~WriteStopKey
      BY <3>2, FlagStays DEF KeyInv, KeyIsAlone
    <3> QED
      BY <3>1, <3>2
  <2>3. CASE output' = output /\ partial' = partial
    BY <2>2, <2>3 DEF KeyIsAlone
  <2>4. CASE output' = <<>>
    BY <2>4 DEF KeyIsAlone
  <2>5. CASE \E l \in Pieces : /\ output' = Append(output, l) /\ partial' = partial
                               /\ l = "key" => WriteStopKey
    BY <2>1, <2>2, <2>5, AloneAppend
  <2>6. CASE TakeStep
    BY <2>2, <2>6, AloneTake
  <2>7. CASE SuRefuses
    <3>1. ~InOutput("key")'
      BY <1>3, <2>7 DEF SuRefuses, SuInv, KeyInv, threadVars
    <3> QED
      BY <3>1 DEF KeyIsAlone, InOutput
  <2> QED
    BY <2>3, <2>4, <2>5, <2>6, <2>7, StepShapes
<1> QED
  BY <1>3, <1>4, <1>5, <1>6, FlagStays DEF KeyInv, KeyIsAlone

THEOREM RelayInvariance == Spec => [](TypeOK /\ RelayInv)
<1>1. Init => TypeOK /\ RelayInv
  BY TypeInit, RelayInit
<1>2. TypeOK /\ RelayInv /\ [Next]_vars => TypeOK' /\ RelayInv'
  BY TypeStep, SuStays, PasswordStays, KeyStays DEF RelayInv
<1> QED
  BY <1>1, <1>2, PTL DEF Spec

\* A password that su took, because it asked for it, is never shown
\* (execpty.go:136-145): it is written when the prompt has been seen, and until
\* su has decided the echo is off.
THEOREM PasswordIsNeverShown == Spec => []PasswordIsNotShown
<1>1. RelayInv => PasswordIsNotShown
  BY DEF RelayInv, PasswordInv, PasswordIsNotShown
<1> QED
  BY <1>1, RelayInvariance, PTL

\* The stop key is never shown unless text without an end of line was in front
\* of it when it was written (execpty.go:84-87, 127-129): there is no key in the
\* output before the flag is up, and nothing comes between it and what was
\* printed before it.
THEOREM StopKeyIsNeverShown == Spec => []StopKeyIsNotShown
<1>1. RelayInv => StopKeyIsNotShown
  BY DEF RelayInv, KeyInv, StopKeyIsNotShown
<1> QED
  BY <1>1, RelayInvariance, PTL

-----------------------------------------------------------------------------
(* What was printed before su ended.                                       *)

\* The key is behind all of it; the reader ends at the key or when nobody holds
\* the terminal, unless it is cut off.
OwedInv ==
  /\ su # "exited" => owed = 0
  /\ owed <= Len(output)
  /\ \A i \in 1..Len(output) : output[i] = "key" => i > owed
  /\ reader = "done" => su = "exited" /\ owed = 0 /\ ~partial
  /\ pc = "returned" => reader # "reading" /\ (reader = "off" => su = "none")

LEMMA KeyMeansExit ==
  ASSUME TypeOK, SuInv, KeyInv, InOutput("key")
  PROVE  su = "exited"
<1>1. output # <<>>
  BY DEF InOutput
<1> QED
  BY <1>1 DEF SuInv, KeyInv

\* How the output and what is owed of it move.
LEMMA OwedMoves ==
  ASSUME TypeOK, SuInv, [Next]_vars
  PROVE  \/ output' = output /\ owed' = owed /\ (su' = "exited" <=> su = "exited")
         \/ /\ owed' = owed /\ (su' = "exited" <=> su = "exited")
            /\ \E l \in Pieces : output' = Append(output, l)
         \/ output' = <<>> /\ owed' = 0
         \/ TakeStep
         \/ SuExits
         \/ SuRefuses
<1> USE DEF threadVars, ttyVars, ghostVars
<1>1. CASE StartFails \/ StartPTY \/ WaitSu \/ SetFinish \/ Join \/ AwaitPrompt
  BY <1>1 DEF StartFails, StartPTY, WaitSu, SetFinish, Join, AwaitPrompt, SuInv
<1>2. CASE EnterPassword \/ WriteStopKey
  <2>1. "password" \in Pieces /\ "key" \in Pieces
    BY DEF Pieces, Echoes
  <2> QED
    BY <1>2, <2>1 DEF EnterPassword, WriteStopKey, WriteTTY
<1>3. CASE ReadLast \/ ReadHungUp
  BY <1>3 DEF ReadLast, ReadHungUp
<1>4. CASE Type \/ TypistStep
  <2>1. "typed" \in Pieces
    BY DEF Pieces, Echoes
  <2> QED
    BY <1>4, <2>1 DEF Type, TypistStep, PutMessage, WriteLine, WriteTTY
<1>5. CASE SuAsks \/ SuTrusts \/ SuDecides
  BY <1>5 DEF SuAsks, SuTrusts, SuDecides, Pieces
<1>6. CASE ProgramStep
  BY <1>6 DEF ProgramStep, PrintText, ReadInput, SetEcho, LeaveSurvivor, SurvivorExits, Pieces, Output
<1>7. CASE UNCHANGED vars
  BY <1>7 DEF vars
<1> QED
  BY <1>1, <1>2, <1>3, <1>4, <1>5, <1>6, <1>7
  DEF Next, MainStep, ReaderStep, TakeStep, SuStep, Terminated

\* su does not come back, and neither does the terminal.
LEMMA SuIsGone ==
  ASSUME TypeOK, SuInv, [Next]_vars, su = "exited"
  PROVE  su' = "exited" /\ (HungUp => HungUp') /\ ~SuStep
<1> USE DEF HungUp, threadVars, ttyVars, ghostVars
<1>1. CASE MainStep
  BY <1>1 DEF SuInv, MainStep, StartFails, StartPTY, AwaitPrompt, EnterPassword, WaitSu, SetFinish,
      WriteStopKey, Join, SuStep, SuAsks, SuTrusts, SuDecides, SuRefuses, SuExits
<1>2. CASE ReaderStep
  <2>1. su' = su /\ survivor' = survivor
    BY <1>2, TakesHead DEF ReaderStep, TakeStep, ReadLast, ReadHungUp
  <2> QED
    BY <2>1 DEF SuStep, SuAsks, SuTrusts, SuDecides, SuRefuses, SuExits
<1>3. CASE Type \/ TypistStep
  BY <1>3 DEF Type, TypistStep, PutMessage, WriteLine, SuStep, SuAsks, SuTrusts, SuDecides, SuRefuses,
      SuExits
<1>4. CASE ProgramStep
  BY <1>4 DEF ProgramStep, PrintText, ReadInput, SetEcho, LeaveSurvivor, SurvivorExits, SuStep, SuAsks,
      SuTrusts, SuDecides, SuRefuses, SuExits
<1>5. CASE UNCHANGED vars
  BY <1>5 DEF vars, SuStep, SuAsks, SuTrusts, SuDecides, SuRefuses, SuExits
<1>6. ~SuStep
  BY DEF SuStep, SuAsks, SuTrusts, SuDecides, SuRefuses, SuExits
<1> QED
  BY <1>1, <1>2, <1>3, <1>4, <1>5, <1>6 DEF Next, Terminated

\* Who ends the reader.
LEMMA ReaderEnds ==
  ASSUME TypeOK, SuInv, [Next]_vars
  PROVE  /\ reader' = "done" => \/ reader = "done" /\ UNCHANGED <<partial, reader>>
                                \/ ReadHungUp
                                \/ ReadLine /\ Head(output) = "key" /\ partial' = FALSE
         /\ reader' = "reading" => reader = "reading" \/ EnterPassword
         /\ reader' = "off" => reader = "off"
         /\ pc' = "returned" => \/ pc = "returned" /\ su' = su
                                \/ Join /\ su' = su
                                \/ StartFails /\ su' = "none"
<1> USE DEF threadVars, ttyVars, ghostVars
<1>1. CASE MainStep
  BY <1>1 DEF TypeOK, SuInv, MainStep, StartFails, StartPTY, AwaitPrompt, EnterPassword, WaitSu,
      SetFinish, WriteStopKey, Join
<1>2. CASE ReadLine
  <2>1. reader' = "done" => IsStop(Head(output))
    BY <1>2, TakesHead DEF TakeStep, Deliver
  <2> QED
    BY <1>2, <2>1, TakesHead DEF TakeStep, IsStop
<1>3. CASE ReadPart \/ ReadTooLong
  BY <1>3, TakesHead DEF TakeStep, ReadPart, ReadTooLong
<1>4. CASE ReadLast \/ ReadHungUp
  BY <1>4 DEF ReadLast, ReadHungUp, Deliver, IsStop
<1>5. CASE Type \/ TypistStep
  BY <1>5 DEF Type, TypistStep, PutMessage, WriteLine
<1>6. CASE SuStep
  BY <1>6 DEF SuInv, SuStep, SuAsks, SuTrusts, SuDecides, SuRefuses, SuExits
<1>7. CASE ProgramStep
  BY <1>7 DEF ProgramStep, PrintText, ReadInput, SetEcho, LeaveSurvivor, SurvivorExits
<1>8. CASE UNCHANGED vars
  BY <1>8 DEF vars
<1> QED
  BY <1>1, <1>2, <1>3, <1>4, <1>5, <1>6, <1>7, <1>8 DEF Next, ReaderStep, Terminated

\* The key stays behind what is owed.
OwedIsFirst ==
  owed <= Len(output) /\ \A i \in 1..Len(output) : output[i] = "key" => i > owed

LEMMA OrderStays ==
  ASSUME TypeOK, SuInv, KeyInv, OwedInv, [Next]_vars
  PROVE  OwedIsFirst' /\ (su' # "exited" => owed' = 0)
<1> USE DEF OwedInv, OwedIsFirst
<1>1. CASE output' = output /\ owed' = owed /\ (su' = "exited" <=> su = "exited")
  BY <1>1
<1>2. CASE /\ owed' = owed /\ (su' = "exited" <=> su = "exited")
           /\ \E l \in Pieces : output' = Append(output, l)
  <2>1. PICK l \in Pieces : output' = Append(output, l)
    BY <1>2
  <2>2. /\ Len(output) \in Nat /\ Len(output') = Len(output) + 1
        /\ \A i \in 1..Len(output') : output'[i] = IF i <= Len(output) THEN output[i] ELSE l
    BY <2>1 DEF TypeOK
  <2> QED
    BY <1>2, <2>2 DEF TypeOK
<1>3. CASE output' = <<>> /\ owed' = 0
  BY <1>3
<1>4. CASE TakeStep
  <2>1. output # <<>> /\ output \in Seq(Pieces) /\ output' = Tail(output) /\ su' = su
        /\ owed' = IF owed > 0 THEN owed - 1 ELSE 0
    BY <1>4, TakesHead DEF TypeOK
  <2>2. /\ Len(output') = Len(output) - 1 /\ Len(output) \in Nat
        /\ \A i \in 1..Len(output') : output'[i] = output[i + 1]
    BY <2>1, HeadTailProperties
  <2>3. \A i \in 1..Len(output') : i + 1 \in 1..Len(output)
    BY <2>2
  <2> QED
    BY <2>1, <2>2, <2>3 DEF TypeOK
<1>5. CASE SuExits
  <2>1. ~InOutput("key")
    BY <1>5, KeyMeansExit DEF SuExits
  <2> QED
    BY <1>5, <2>1 DEF SuExits, InOutput, TypeOK
<1>6. CASE SuRefuses
  <2>1. su # "exited" /\ su' # "exited" /\ owed' = owed /\ finish' = finish /\ pc' = pc
    BY <1>6 DEF SuRefuses, threadVars, ghostVars
  <2>2. ~InOutput("key")'
    <3>1. pc \notin {"key", "join", "returned"}
      BY <1>6 DEF SuRefuses, SuInv
    <3> QED
      BY <2>1, <3>1, KeyStays DEF KeyInv
  <2>3. Len(output') \in Nat
    BY TypeStep DEF TypeOK
  <2> QED
    BY <2>1, <2>2, <2>3 DEF InOutput
<1> QED
  BY <1>1, <1>2, <1>3, <1>4, <1>5, <1>6, OwedMoves

LEMMA OwedStays ==
  ASSUME TypeOK, SuInv, KeyInv, OwedInv, [Next]_vars
  PROVE  OwedInv'
<1>1. ASSUME reader' = "done"
      PROVE  su' = "exited" /\ owed' = 0 /\ ~partial'
  <2>1. CASE reader = "done" /\ UNCHANGED <<partial, reader>>
    <3>1. su = "exited" /\ owed = 0 /\ ~partial
      BY <2>1 DEF OwedInv
    <3>2. su' = "exited" /\ owed' = 0
      <4>1. ~SuExits /\ ~SuRefuses /\ ~TakeStep /\ ~AwaitPrompt
        BY <2>1, <3>1, TakesHead DEF SuExits, SuRefuses, AwaitPrompt, SuInv
      <4>2. owed' = 0
        BY <3>1, <4>1, OwedMoves
      <4>3. su' = "exited"
        BY <3>1, SuIsGone
      <4> QED
        BY <4>2, <4>3
    <3> QED
      BY <2>1, <3>1, <3>2
  <2>2. CASE ReadHungUp
    BY <2>2 DEF ReadHungUp, HungUp, OwedInv, TypeOK, ttyVars, ghostVars
  <2>3. CASE ReadLine /\ Head(output) = "key" /\ partial' = FALSE
    <3>1. output # <<>> /\ output \in Seq(Pieces) /\ su' = su
          /\ owed' = IF owed > 0 THEN owed - 1 ELSE 0
      BY <2>3, TakesHead DEF TakeStep, TypeOK
    <3>2. 1 \in 1..Len(output) /\ output[1] = "key"
      BY <2>3, <3>1, HeadTailProperties
    <3> QED
      BY <2>3, <3>1, <3>2, KeyMeansExit DEF OwedInv, InOutput, TypeOK
  <2> QED
    BY <1>1, <2>1, <2>2, <2>3, ReaderEnds
<1>2. ASSUME pc' = "returned"
      PROVE  reader' # "reading" /\ (reader' = "off" => su' = "none")
  <2>1. CASE pc = "returned" /\ su' = su
    <3>1. ~EnterPassword
      BY <2>1 DEF EnterPassword
    <3> QED
      BY <2>1, <3>1, ReaderEnds DEF OwedInv
  <2>2. CASE Join
    BY <2>2 DEF Join
  <2>3. CASE StartFails /\ su' = "none"
    BY <2>3 DEF StartFails, SuInv
  <2> QED
    BY <1>2, <2>1, <2>2, <2>3, ReaderEnds
<1> QED
  BY <1>1, <1>2, OrderStays DEF OwedInv, OwedIsFirst

\* When RunProcessViaPTY returns nothing that was printed before su ended is
\* left in the terminal or in the scanner, however much it was and whatever
\* survivors print meanwhile, unless a line was too long (execpty.go:74-94,
\* 127-131).
THEOREM OutputIsAlwaysRelayed == Spec => []OutputIsRelayed
<1>1. Init => OwedInv
  BY DEF Init, OwedInv
<1>2. TypeOK /\ RelayInv /\ OwedInv /\ [Next]_vars => OwedInv'
  BY OwedStays DEF RelayInv
<1>3. TypeOK /\ RelayInv /\ OwedInv => OutputIsRelayed
  BY DEF TypeOK, OwedInv, OutputIsRelayed, RelayInv, SuInv
<1> QED
  BY <1>1, <1>2, <1>3, RelayInvariance, PTL DEF Spec

-----------------------------------------------------------------------------
(* Echoes and messages.                                                    *)

\* Where the echoes in s are, and how many of them.
EchoesIn(s) == {i \in 1..Len(s) : s[i] = "typed"}
Count(s) == Cardinality(EchoesIn(s))

LEMMA CountIsNat ==
  ASSUME NEW s \in Seq(Pieces)
  PROVE  IsFiniteSet(EchoesIn(s)) /\ Count(s) \in Nat /\ (s = <<>> => Count(s) = 0)
<1>1. Len(s) \in Nat /\ EchoesIn(s) \in SUBSET (1..Len(s))
  BY DEF EchoesIn
<1>2. IsFiniteSet(1..Len(s))
  BY <1>1, FS_Interval
<1>3. IsFiniteSet(EchoesIn(s))
  BY <1>1, <1>2, FS_Subset
<1>4. s = <<>> => EchoesIn(s) = {}
  BY DEF EchoesIn
<1> QED
  BY <1>3, <1>4, FS_CardinalityType, FS_EmptySet DEF Count

LEMMA CountAppend ==
  ASSUME NEW s \in Seq(Pieces), NEW l \in Pieces
  PROVE  Count(Append(s, l)) = IF l = "typed" THEN Count(s) + 1 ELSE Count(s)
<1> DEFINE t == Append(s, l)
<1>1. /\ Len(s) \in Nat /\ Len(t) = Len(s) + 1
      /\ \A i \in 1..Len(t) : t[i] = IF i <= Len(s) THEN s[i] ELSE l
  OBVIOUS
<1> HIDE DEF t
<1>2. CASE l = "typed"
  <2>1. EchoesIn(t) = EchoesIn(s) \cup {Len(s) + 1} /\ Len(s) + 1 \notin EchoesIn(s)
    BY <1>1, <1>2 DEF EchoesIn
  <2> QED
    BY <1>2, <2>1, CountIsNat, FS_AddElement DEF Count, t
<1>3. CASE l # "typed"
  <2>1. EchoesIn(t) = EchoesIn(s)
    BY <1>1, <1>3 DEF EchoesIn
  <2> QED
    BY <1>3, <2>1 DEF Count, t
<1> QED
  BY <1>2, <1>3

LEMMA CountTail ==
  ASSUME NEW s \in Seq(Pieces), s # <<>>
  PROVE  Count(s) = IF Head(s) = "typed" THEN Count(Tail(s)) + 1 ELSE Count(Tail(s))
<1> DEFINE t == Tail(s)
           f == [i \in EchoesIn(t) |-> i + 1]
           U == EchoesIn(s) \ {1}
<1>1. /\ t \in Seq(Pieces) /\ Len(t) = Len(s) - 1 /\ Len(s) \in Nat /\ Len(s) > 0
      /\ s[1] = Head(s) /\ \A i \in 1..Len(t) : t[i] = s[i + 1]
  BY HeadTailProperties
<1> HIDE DEF t
<1>2. f \in [EchoesIn(t) -> U]
  BY <1>1 DEF EchoesIn
<1>3. \A i, j \in EchoesIn(t) : f[i] = f[j] => i = j
  BY <1>1 DEF EchoesIn
<1>4. \A k \in U : \E i \in EchoesIn(t) : f[i] = k
  <2> TAKE k \in U
  <2>1. k - 1 \in EchoesIn(t) /\ (k - 1) + 1 = k
    BY <1>1 DEF EchoesIn
  <2> QED
    BY <2>1
<1>5. ExistsBijection(EchoesIn(t), U)
  BY <1>2, <1>3, <1>4 DEF ExistsBijection, Bijection, Injection, Surjection, IsInjective
<1>6. Cardinality(U) = Count(t)
  BY <1>1, <1>5, CountIsNat, FS_Bijection DEF Count
<1>7. 1 \in EchoesIn(s) <=> Head(s) = "typed"
  BY <1>1 DEF EchoesIn
<1>8. Cardinality(U) = IF Head(s) = "typed" THEN Count(s) - 1 ELSE Count(s)
  BY <1>7, CountIsNat, FS_RemoveElement DEF Count
<1> QED
  BY <1>1, <1>6, <1>8, CountIsNat DEF t

\* The refusal has no echo in it.
LEMMA CountRefusal ==
  ASSUME TypeOK, SuRefuses
  PROVE  Count(output') = Count(output)
<1>1. output \in Seq(Pieces) /\ "blank" \in Pieces /\ "line" \in Pieces
  BY DEF TypeOK, Pieces, Output
<1>2. CASE su = "asking"
  <2>1. output' = Append(Append(output, "blank"), "line")
    BY <1>1, <1>2 DEF SuRefuses
  <2>2. Append(output, "blank") \in Seq(Pieces)
    BY <1>1, AppendIsTyped
  <2> QED
    BY <1>1, <2>1, <2>2, CountAppend
<1>3. CASE su # "asking"
  <2>1. output' = Append(output, "line")
    BY <1>1, <1>3 DEF SuRefuses
  <2> QED
    BY <1>1, <2>1, CountAppend
<1> QED
  BY <1>2, <1>3

Others == swallowed["prompt"] + swallowed["blank"] + swallowed["line"] + swallowed["part"]
            + swallowed["password"] + swallowed["key"]

\* The line for which the message is in the channel and which is not yet
\* written into the terminal.
Pending == IF typist = "write" THEN 1 ELSE 0

\* Echoes, those still to come among them, are never more than messages, of
\* which others may have taken some.
EchoInv ==
  /\ shown["typed"] + Count(output) + Pending <= Others + chan
  /\ shown["typed"] <= Others

\* What the steps that show and swallow nothing can do to the two sides.
LEMMA CountsMove ==
  ASSUME TypeOK, SuInv, [Next]_vars, ~TakeStep, ~ReadLast
  PROVE  /\ shown' = shown /\ swallowed' = swallowed
         /\ \/ Count(output') <= Count(output) /\ Pending' = Pending /\ chan' = chan
            \/ Count(output') = Count(output) /\ Pending' = Pending + 1 /\ chan' = chan + 1
            \/ Count(output') <= Count(output) + 1 /\ Pending' = Pending - 1 /\ chan' = chan
<1> USE DEF threadVars, ttyVars, ghostVars
<1>1. output \in Seq(Pieces) /\ Count(output) \in Nat /\ chan \in Int
  BY CountIsNat DEF TypeOK
<1>2. \A l \in Pieces \ {"typed"} : Count(Append(output, l)) = Count(output)
  BY <1>1, CountAppend
<1>3. Count(<<>>) = 0
  BY CountIsNat, EmptyIsTyped
<1>4. CASE StartFails \/ StartPTY \/ WaitSu \/ SetFinish \/ Join
  BY <1>1, <1>4 DEF StartFails, StartPTY, WaitSu, SetFinish, Join, Pending
<1>5. CASE AwaitPrompt
  BY <1>1, <1>3, <1>5 DEF AwaitPrompt, Pending
<1>6. CASE EnterPassword \/ WriteStopKey
  <2>1. \/ output' = output
        \/ output' = Append(output, "password")
        \/ output' = Append(output, "key")
    BY <1>6 DEF EnterPassword, WriteStopKey, WriteTTY
  <2>2. Count(output') = Count(output)
    <3>1. /\ Count(Append(output, "password")) = Count(output)
          /\ Count(Append(output, "key")) = Count(output)
      BY <1>2 DEF Pieces, Echoes
    <3> QED
      BY <2>1, <3>1, Zenon
  <2>3. Pending' = Pending
    BY <1>6 DEF EnterPassword, WriteStopKey, SuInv, Pending
  <2> QED
    BY <1>1, <1>6, <2>2, <2>3 DEF EnterPassword, WriteStopKey
<1>7. CASE PutMessage("put", "write")
  BY <1>1, <1>7 DEF PutMessage, Pending
<1>8. CASE WriteLine("write", "idle")
  <2>1. Count(output') <= Count(output) + 1
    <3>1. "typed" \in Pieces
      BY DEF Pieces, Echoes
    <3>2. Count(Append(output, "typed")) = Count(output) + 1
      BY <1>1, <3>1, CountAppend
    <3>3. output' = output \/ output' = Append(output, "typed")
      BY <1>8 DEF WriteLine, WriteTTY
    <3>4. Count(output') = Count(output) \/ Count(output') = Count(output) + 1
      BY <3>2, <3>3, Zenon
    <3> QED
      BY <1>1, <3>4
  <2> QED
    BY <1>1, <1>8, <2>1 DEF WriteLine, Pending
<1>9. CASE SuAsks \/ SuDecides \/ PrintText
  <2>1. \E l \in Pieces \ {"typed"} : output' = Append(output, l)
    BY <1>9 DEF SuAsks, SuDecides, PrintText, Pieces, Output
  <2>2. UNCHANGED <<threadVars, shown, swallowed>>
    BY <1>9 DEF SuAsks, SuDecides, PrintText
  <2> QED
    BY <1>1, <1>2, <2>1, <2>2 DEF Pending
<1>10. CASE SuRefuses
  BY <1>1, <1>10, CountRefusal DEF SuRefuses, Pending
<1>11. CASE \/ ReadHungUp \/ Type \/ SuTrusts \/ SuExits
            \/ ReadInput \/ SetEcho \/ LeaveSurvivor \/ SurvivorExits
  BY <1>1, <1>11 DEF ReadHungUp, Type, SuTrusts, SuExits, ReadInput, SetEcho, LeaveSurvivor,
      SurvivorExits, Pending
<1>12. CASE UNCHANGED vars
  BY <1>1, <1>12 DEF vars, Pending
<1> QED
  BY <1>4, <1>5, <1>6, <1>7, <1>8, <1>9, <1>10, <1>11, <1>12
  DEF Next, MainStep, ReaderStep, TakeStep, TypistStep, SuStep, ProgramStep, Terminated

\* What delivering a line does to them.
LEMMA DeliverCounts ==
  ASSUME TypeOK, NEW l \in Pieces \ {"long"}, Deliver(l)
  PROVE  \/ /\ chan' = chan - 1 /\ shown'["typed"] = shown["typed"]
            /\ Others' = IF l = "typed" THEN Others ELSE Others + 1
         \/ /\ chan' = chan /\ chan = 0 /\ Others' = Others
            /\ \/ shown'["typed"] = shown["typed"]
               \/ l = "typed" /\ shown'["typed"] = shown["typed"] + 1
<1>1. Pieces \ {"long"} = {"prompt", "blank", "line", "part", "typed", "password", "key"}
  BY DEF Pieces, Output, Echoes
<1>2. CASE chan > 0 /\ swallowed' = [swallowed EXCEPT ![l] = @ + 1]
  <2>1. chan' = chan - 1 /\ shown' = shown
    BY <1>2 DEF Deliver, AfterTake
  <2>2. \A m \in Pieces \ {"long"} :
          /\ swallowed[m] \in Nat
          /\ swallowed'[m] = IF m = l THEN swallowed[m] + 1 ELSE swallowed[m]
    BY <1>2 DEF TypeOK
  <2>3. Others' = IF l = "typed" THEN Others ELSE Others + 1
    BY <1>1, <2>2 DEF Others
  <2> QED
    BY <2>1, <2>3
<1>3. CASE chan = 0
  <2>1. /\ chan' = chan /\ swallowed' = swallowed
        /\ shown' = shown \/ shown' = [shown EXCEPT ![l] = @ + 1]
    BY <1>3 DEF Deliver
  <2>2. "typed" \in Pieces
    BY DEF Pieces, Echoes
  <2>3. shown'["typed"] = shown["typed"] \/ (l = "typed" /\ shown'["typed"] = shown["typed"] + 1)
    BY <2>1, <2>2 DEF TypeOK
  <2> QED
    BY <1>3, <2>1, <2>3 DEF Others
<1> QED
  BY <1>2, <1>3 DEF Deliver, TypeOK

LEMMA EchoStays ==
  ASSUME TypeOK, SuInv, EchoInv, [Next]_vars
  PROVE  EchoInv'
<1>1. /\ Count(output) \in Nat /\ Count(output') \in Nat /\ chan \in 0..1 /\ chan' \in 0..1
      /\ shown["typed"] \in Nat /\ Others \in Nat
      /\ Pending \in {0, 1} /\ Pending' \in {0, 1}
  <2>1. output \in Seq(Pieces) /\ output' \in Seq(Pieces) /\ chan \in 0..1 /\ chan' \in 0..1
    BY TypeStep DEF TypeOK
  <2>2. \A l \in Pieces : shown[l] \in Nat /\ swallowed[l] \in Nat
    BY DEF TypeOK
  <2>3. Pieces = {"prompt", "blank", "line", "part", "long", "typed", "password", "key"}
    BY DEF Pieces, Output, Echoes
  <2>4. Others \in Nat
    BY <2>2, <2>3 DEF Others
  <2>5. Pending \in {0, 1} /\ Pending' \in {0, 1}
    BY DEF Pending
  <2>6. shown["typed"] \in Nat
    BY <2>2, <2>3
  <2>7. Count(output) \in Nat /\ Count(output') \in Nat
    BY <2>1, CountIsNat
  <2> QED
    BY <2>1, <2>4, <2>5, <2>6, <2>7
<1>2. CASE ~TakeStep /\ ~ReadLast
  <2>1. Others' = Others
    BY <1>2, CountsMove DEF Others
  <2> QED
    BY <1>1, <1>2, <2>1, CountsMove DEF EchoInv
<1>3. CASE TakeStep
  <2> DEFINE l == Head(output)
  <2>1. /\ l \in Pieces /\ Pending' = Pending
        /\ Count(output) = IF l = "typed" THEN Count(output') + 1 ELSE Count(output')
    BY <1>3, TakesHead, CountTail DEF TypeOK, Pending
  <2>2. CASE ReadLine
    <3>1. l \in Pieces \ {"long"} /\ Deliver(l)
      BY <2>2, TakesHead DEF ReadLine, Take, TakeStep
    <3> HIDE DEF l
    <3>2. \/ /\ chan' = chan - 1 /\ shown'["typed"] = shown["typed"]
             /\ Others' = IF l = "typed" THEN Others ELSE Others + 1
          \/ /\ chan' = chan /\ chan = 0 /\ Others' = Others
             /\ \/ shown'["typed"] = shown["typed"]
                \/ l = "typed" /\ shown'["typed"] = shown["typed"] + 1
      BY <3>1, DeliverCounts
    <3> QED
      BY <1>1, <2>1, <3>2 DEF EchoInv
  <2>3. CASE ~ReadLine
    <3>1. UNCHANGED <<chan, shown, swallowed>>
      BY <1>3, <2>3, TakesHead
    <3>2. Others' = Others
      BY <3>1 DEF Others
    <3> HIDE DEF l
    <3> QED
      BY <1>1, <2>1, <3>1, <3>2 DEF EchoInv
  <2> QED
    BY <2>2, <2>3
<1>4. CASE ReadLast
  <2>1. /\ "part" \in Pieces \ {"long"} /\ "part" # "typed"
        /\ Deliver("part") /\ output' = output /\ Pending' = Pending
    BY <1>4 DEF ReadLast, Pieces, Output, ttyVars, Pending
  <2>2. \/ chan' = chan - 1 /\ shown'["typed"] = shown["typed"] /\ Others' = Others + 1
        \/ chan' = chan /\ Others' = Others /\ shown'["typed"] = shown["typed"]
    BY <2>1, DeliverCounts
  <2> QED
    BY <1>1, <2>1, <2>2 DEF EchoInv
<1> QED
  BY <1>2, <1>3, <1>4

\* Echoes shown are never more than other lines swallowed in their place
\* (execpty.go:105-107 against 76-80), for any number of lines typed.
THEOREM EchoIsAlwaysShownForAnother == Spec => []EchoShownForAnother
<1>1. Init => EchoInv
  <2> SUFFICES ASSUME Init PROVE EchoInv
    OBVIOUS
  <2>1. Count(output) = 0 /\ Pending = 0 /\ chan = 0
    BY CountIsNat, EmptyIsTyped DEF Init, Pending
  <2>2. \A l \in {"prompt", "blank", "line", "part", "typed", "password", "key"} :
          shown[l] = 0 /\ swallowed[l] = 0
    BY DEF Init, Pieces, Output, Echoes
  <2>3. Others = 0
    BY <2>2 DEF Others
  <2> QED
    BY <2>1, <2>2, <2>3 DEF EchoInv
<1>2. TypeOK /\ RelayInv /\ EchoInv /\ [Next]_vars => EchoInv'
  BY EchoStays DEF RelayInv
<1>3. EchoInv => EchoShownForAnother
  BY DEF EchoInv, Others, EchoShownForAnother
<1> QED
  BY <1>1, <1>2, <1>3, RelayInvariance, PTL DEF Spec

-----------------------------------------------------------------------------
(* The way to the return.                                                  *)

PcRank ==
  CASE pc = "prompt"   -> 11
    [] pc = "password" -> 10
    [] pc = "wait"     -> 6
    [] pc = "finish"   -> 5
    [] pc = "key"      -> 4
    [] pc = "join"     -> 1
    [] OTHER           -> 0
ReaderRank == (IF reader = "reading" THEN 1 ELSE 0) + (IF partial THEN 1 ELSE 0)
TypistRank == IF typist = "put" THEN 4 ELSE IF typist = "write" THEN 3 ELSE 0

\* Once nobody holds the terminal: no more steps than these can follow.  A
\* piece costs two, itself and the line it may begin; a line that is typed
\* costs five: itself, its message, its echo, and reading that.
StepsLeft == PcRank + ReaderRank + TypistRank + 2 * Len(output) + 5 * (MaxTyped - typed)

LEMMA RanksAreNat ==
  ASSUME TypeOK
  PROVE  /\ PcRank \in Nat /\ ReaderRank \in Nat /\ TypistRank \in Nat /\ Len(output) \in Nat
         /\ MaxTyped \in Nat /\ typed \in 0..MaxTyped
BY PtyAssumption DEF PtyAssumption, PcRank, ReaderRank, TypistRank, TypeOK

LEMMA StepsAreFewer ==
  ASSUME TypeOK, SuInv, HungUp, [Next]_vars, vars' # vars
  PROVE  StepsLeft \in Nat /\ StepsLeft' < StepsLeft
<1> USE DEF threadVars, ttyVars, ghostVars
<1>1. /\ PcRank \in Nat /\ ReaderRank \in Nat /\ TypistRank \in Nat /\ Len(output) \in Nat
      /\ MaxTyped \in Nat /\ typed \in 0..MaxTyped
  BY RanksAreNat
<1>2. /\ PcRank' \in Nat /\ ReaderRank' \in Nat /\ TypistRank' \in Nat /\ Len(output') \in Nat
      /\ typed' \in 0..MaxTyped
  <2>1. TypeOK'
    BY TypeStep
  <2> QED
    BY <2>1, PtyAssumption DEF PtyAssumption, PcRank, ReaderRank, TypistRank, TypeOK
<1>3. StepsLeft \in Nat
  BY <1>1 DEF StepsLeft
<1>4. ASSUME NEW l \in Echoes, WriteTTY(l)
      PROVE  Len(output') <= Len(output) + 1
  BY <1>4 DEF WriteTTY, TypeOK
<1>5. CASE WaitSu \/ SetFinish \/ Join
  <2>1. PcRank' < PcRank
    BY <1>5 DEF WaitSu, SetFinish, Join, PcRank
  <2>2. UNCHANGED <<reader, partial, typist, output, typed>>
    BY <1>5 DEF WaitSu, SetFinish, Join
  <2> QED
    BY <1>1, <1>2, <1>3, <2>1, <2>2 DEF StepsLeft, ReaderRank, TypistRank
<1>6. CASE AwaitPrompt
  <2>1. PcRank = 11 /\ PcRank' = 10 /\ Len(output') = 0
    BY <1>6 DEF AwaitPrompt, PcRank
  <2>2. UNCHANGED <<reader, partial, typist, typed>>
    BY <1>6 DEF AwaitPrompt
  <2> QED
    BY <1>1, <1>2, <1>3, <2>1, <2>2 DEF StepsLeft, ReaderRank, TypistRank
<1>7. CASE EnterPassword
  <2>1. PcRank = 10 /\ PcRank' = 6 /\ ReaderRank = 0 /\ ReaderRank' = 1
    BY <1>7 DEF EnterPassword, PcRank, ReaderRank, SuInv
  <2>2. TypistRank = 0 /\ TypistRank' = 0 /\ typed' = typed
    BY <1>7 DEF EnterPassword, TypistRank, SuInv
  <2>3. Len(output') <= Len(output) + 1
    BY <1>4, <1>7 DEF EnterPassword, Echoes
  <2> QED
    BY <1>1, <1>2, <1>3, <2>1, <2>2, <2>3 DEF StepsLeft
<1>8. CASE WriteStopKey
  <2>1. PcRank = 4 /\ PcRank' = 1 /\ UNCHANGED <<reader, partial, typist, typed>>
    BY <1>8 DEF WriteStopKey, PcRank
  <2>2. Len(output') <= Len(output) + 1
    BY <1>4, <1>8 DEF WriteStopKey, Echoes
  <2> QED
    BY <1>1, <1>2, <1>3, <2>1, <2>2 DEF StepsLeft, ReaderRank, TypistRank
<1>9. CASE TakeStep
  <2>1. output \in Seq(Pieces) /\ output # <<>> /\ output' = Tail(output) /\ reader = "reading"
    BY <1>9, TakesHead DEF TypeOK
  <2>2. Len(output') = Len(output) - 1
    BY <2>1, HeadTailProperties
  <2>3. UNCHANGED <<pc, typist, typed>>
    BY <1>9, TakesHead
  <2>4. PcRank' = PcRank /\ TypistRank' = TypistRank
    BY <2>3 DEF PcRank, TypistRank
  <2>5. ReaderRank' <= ReaderRank + 1
    BY <2>1 DEF ReaderRank
  <2> QED
    BY <1>1, <1>2, <1>3, <2>2, <2>3, <2>4, <2>5 DEF StepsLeft
<1>10. CASE ReadLast \/ ReadHungUp
  <2>1. ReaderRank' < ReaderRank
    BY <1>10 DEF ReadLast, ReadHungUp, Deliver, ReaderRank
  <2>2. UNCHANGED <<pc, typist, typed, output>>
    BY <1>10 DEF ReadLast, ReadHungUp
  <2>3. PcRank' = PcRank /\ TypistRank' = TypistRank
    BY <2>2 DEF PcRank, TypistRank
  <2> QED
    BY <1>1, <1>2, <1>3, <2>1, <2>2, <2>3 DEF StepsLeft
<1>11. CASE Type
  <2>1. TypistRank = 0 /\ TypistRank' = 4 /\ typed' = typed + 1
    BY <1>11 DEF Type, TypistRank
  <2>2. UNCHANGED <<pc, reader, partial, output>>
    BY <1>11 DEF Type
  <2> QED
    BY <1>1, <1>2, <1>3, <2>1, <2>2 DEF StepsLeft, PcRank, ReaderRank
<1>12. CASE PutMessage("put", "write")
  <2>1. TypistRank = 4 /\ TypistRank' = 3 /\ UNCHANGED <<pc, reader, partial, output, typed>>
    BY <1>12 DEF PutMessage, TypistRank
  <2> QED
    BY <1>1, <1>2, <1>3, <2>1 DEF StepsLeft, PcRank, ReaderRank
<1>13. CASE WriteLine("write", "idle")
  <2>1. TypistRank = 3 /\ TypistRank' = 0 /\ UNCHANGED <<pc, reader, partial, typed>>
    BY <1>13 DEF WriteLine, TypistRank
  <2>2. Len(output') <= Len(output) + 1
    BY <1>4, <1>13 DEF WriteLine, Echoes
  <2> QED
    BY <1>1, <1>2, <1>3, <2>1, <2>2 DEF StepsLeft, PcRank, ReaderRank
<1>14. ~SuStep /\ ~StartFails /\ ~StartPTY
  BY SuIsGone DEF HungUp, StartFails, StartPTY, SuInv
<1>15. ~ProgramStep
  BY DEF HungUp, ProgramStep, InUse, PrintText, ReadInput, SetEcho, LeaveSurvivor, SurvivorExits
<1> QED
  BY <1>5, <1>6, <1>7, <1>8, <1>9, <1>10, <1>11, <1>12, <1>13, <1>14, <1>15
  DEF Next, MainStep, ReaderStep, TakeStep, TypistStep, Terminated

\* The goroutines are there when RunProcessViaPTY waits.
ReaderInv == pc \in {"wait", "finish", "key", "join"} => reader # "off"

\* Once nobody holds the terminal, nothing that happens -- lines typed, echoes,
\* a stop key that is swallowed -- puts the return of RunProcessViaPTY off:
\* StepsLeft bounds what can still be done (execpty.go:113-134).
THEOREM StepsAfterSuAreBounded ==
  Spec => [][HungUp => HungUp' /\ StepsLeft \in Nat /\ StepsLeft' < StepsLeft]_vars
<1>1. TypeOK /\ RelayInv /\ [Next]_vars
        => [HungUp => HungUp' /\ StepsLeft \in Nat /\ StepsLeft' < StepsLeft]_vars
  BY StepsAreFewer, SuIsGone DEF RelayInv, HungUp
<1> QED
  BY <1>1, RelayInvariance, PTL DEF Spec

\* The guards of the steps of RunProcessViaPTY and of the goroutine it joins.
CanGoOn ==
  \/ pc = "prompt" /\ PromptSeen
  \/ pc \in {"password", "finish", "key"}
  \/ pc = "wait" /\ su = "exited"
  \/ pc = "join" /\ reader \in {"done", "cut"}
  \/ reader = "reading" /\ (output # <<>> \/ HungUp)

\* And until it returns, one of the two can go on: the prompt that never comes
\* is an error, and the reader was started before the join, where a read gives
\* it a line or an error; neither waits for the goroutine that reads stdin and
\* may be stuck at a full channel.  Only a process that outlives su and keeps
\* the terminal can hold the reader up, and only when all has been read and the
\* stop key was not recognised (execpty.go:70-98, 113-134).
THEOREM NothingBlocksTheReturn ==
  Spec => [](su = "exited" /\ pc # "returned" =>
               \/ CanGoOn
               \/ survivor /\ pc \in {"prompt", "join"} /\ output = <<>>)
<1>1. Init => ReaderInv
  BY DEF Init, ReaderInv
<1>2. TypeOK /\ RelayInv /\ ReaderInv /\ [Next]_vars => ReaderInv'
  <2> SUFFICES ASSUME TypeOK, RelayInv, ReaderInv, [Next]_vars PROVE ReaderInv'
    OBVIOUS
  <2>1. reader' = "off" => reader = "off"
    BY ReaderEnds DEF RelayInv
  <2>2. pc' = pc \/ reader # "off" \/ pc' \in {"prompt", "password", "returned"} \/ reader' = "reading"
    BY TakesHead DEF ReaderInv, Next, MainStep, StartFails, StartPTY, AwaitPrompt, EnterPassword,
        WaitSu, SetFinish, WriteStopKey, Join, ReaderStep, TakeStep, ReadLast, ReadHungUp, Type,
        TypistStep, PutMessage, WriteLine, SuStep, SuAsks, SuTrusts, SuDecides, SuRefuses, SuExits,
        ProgramStep, PrintText, ReadInput, SetEcho, LeaveSurvivor, SurvivorExits, Terminated, vars,
        threadVars
  <2> QED
    BY <2>1, <2>2 DEF ReaderInv
<1>3. TypeOK /\ RelayInv /\ ReaderInv =>
        (su = "exited" /\ pc # "returned" =>
           \/ CanGoOn
           \/ survivor /\ pc \in {"prompt", "join"} /\ output = <<>>)
  BY DEF TypeOK, RelayInv, SuInv, ReaderInv, CanGoOn, PromptSeen, HungUp
<1> QED
  BY <1>1, <1>2, <1>3, RelayInvariance, PTL DEF Spec
=============================================================================

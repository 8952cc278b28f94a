------------------------------ MODULE PtyRelay ------------------------------
(***************************************************************************)
(* runner.RunProcessViaPTY: the program restarts itself through /bin/su on *)
(* a pseudoterminal, answers the password prompt, and relays both ways.    *)
(* Three threads share the terminal: Run itself, the goroutine that shows  *)
(* what the terminal prints, and the one that writes what the user types.  *)
(* What is typed comes back as the terminal's echo; a channel of capacity  *)
(* one tells the first goroutine to swallow a line for each line typed.    *)
(*                                                                         *)
(* su, the program it starts and the terminal are external.  A process the *)
(* program started may outlive su and go on using the terminal: reads fail *)
(* only when nobody holds it any more and what was printed has been read.  *)
(***************************************************************************)
EXTENDS Integers, Sequences

CONSTANTS
  MaxTyped,  \* bound on the lines the user types
  MaxPrinted \* bound on the pieces of text the program prints

ASSUME PtyAssumption == MaxTyped \in Nat /\ MaxPrinted \in Nat

\* What the terminal prints, in pieces: su's prompt, an empty line, a line of
\* the program, text of the program that does not end its line ("part") or
\* makes it longer than the scanner's buffer ("long"), and echoes of what was
\* written into the terminal.  A piece after a "part" continues its line.
Echoes == {"typed", "password", "key"}
Output == {"line", "part", "long"}
Pieces == {"prompt", "blank"} \cup Output \cup Echoes

VARIABLES
  pc,         \* where RunProcessViaPTY is
  finish,     \* the flag of that name
  reader,     \* the goroutine that reads the terminal
  partial,    \* has its scanner the beginning of a line?
  typist,     \* the goroutine that reads stdin
  chan,       \* messages in messageChan
  su,         \* su, then the program it runs
  survivor,   \* does a process the program started hold the terminal?
  echo,       \* does the terminal echo?
  input,      \* what was written into the terminal and not yet read by su
  output,     \* what the terminal printed and was not yet read
  typed,      \* lines the user has typed
  printed,    \* pieces of text the program has printed
  shown,      \* ghost: how many lines were shown, by the piece that ended them
  swallowed,  \* ghost: how many were swallowed for a typed line
  granted,    \* ghost: did su start the program over a password?
  owed,       \* ghost: pieces of output printed before su ended
  unfinished  \* ghost: was the key written behind an unfinished line?

threadVars == <<pc, finish, reader, partial, typist, chan>>
ttyVars == <<su, survivor, echo, input, output, printed>>
ghostVars == <<shown, swallowed, granted, owed, unfinished>>
vars == <<threadVars, ttyVars, typed, ghostVars>>

TypeOK ==
  /\ pc \in {"start", "prompt", "password", "wait", "finish", "key", "join", "returned"}
  /\ finish \in BOOLEAN
  /\ reader \in {"off", "reading", "done", "cut"}
  /\ partial \in BOOLEAN
  /\ typist \in {"off", "idle", "put", "write"}
  /\ chan \in 0..1
  /\ su \in {"none", "start", "asking", "running", "refused", "exited"}
  /\ survivor \in BOOLEAN
  /\ echo \in BOOLEAN
  /\ input \in Seq(Echoes)
  /\ output \in Seq(Pieces)
  /\ typed \in 0..MaxTyped
  /\ printed \in 0..MaxPrinted
  /\ shown \in [Pieces -> Nat]
  /\ swallowed \in [Pieces -> Nat]
  /\ granted \in BOOLEAN
  /\ owed \in Nat
  /\ unfinished \in BOOLEAN

Init ==
  /\ pc = "start"
  /\ finish = FALSE
  /\ reader = "off"
  /\ partial = FALSE
  /\ typist = "off"
  /\ chan = 0
  /\ su = "none"
  /\ survivor = FALSE
  /\ echo = TRUE
  /\ input = <<>>
  /\ output = <<>>
  /\ typed = 0
  /\ printed = 0
  /\ shown = [l \in Pieces |-> 0]
  /\ swallowed = [l \in Pieces |-> 0]
  /\ granted = FALSE
  /\ owed = 0
  /\ unfinished = FALSE

-----------------------------------------------------------------------------
(* The terminal.                                                           *)

\* Nobody holds the terminal's slave side any more.
HungUp == su = "exited" /\ ~survivor

\* A line is written into the terminal.  While it is held the line is queued
\* and, if the echo is on, printed at once; after the hang-up it may or may
\* not be printed.
WriteTTY(l) ==
  \/ /\ ~HungUp
     /\ input' = Append(input, l)
     /\ output' = IF echo THEN Append(output, l) ELSE output
  \/ /\ HungUp
     /\ output' \in {output, Append(output, l)}
     /\ UNCHANGED input

\* Does what the terminal printed last leave its line unfinished?
Unfinished == IF output = <<>> THEN partial ELSE output[Len(output)] = "part"

-----------------------------------------------------------------------------
(* Defects: one plausible mistake each in the definition named before the  *)
(* underscore.  No action uses them; they show what the properties notice. *)

ChanHasRoom_Always == TRUE
IsStop_AnyLine(l) == finish
PromptSeen_NotAwaited == TRUE
Raise_Forgotten == UNCHANGED finish

ReadHungUp_Retries ==
  /\ reader = "reading"
  /\ output = <<>> /\ ~partial
  /\ HungUp
  /\ UNCHANGED vars

-----------------------------------------------------------------------------
(* RunProcessViaPTY.                                                       *)

StartFails ==
  /\ pc = "start"
  /\ pc' = "returned"
  /\ UNCHANGED <<finish, reader, partial, typist, chan, ttyVars, typed, ghostVars>>

StartPTY ==
  /\ pc = "start"
  /\ su' = "start"
  /\ pc' = "prompt"
  /\ UNCHANGED <<finish, reader, partial, typist, chan, survivor, echo, input, output,
                 printed, typed, ghostVars>>

\* enterPassword: the scanner wants one rune, and takes whatever there is.
PromptSeen == output # <<>> \/ HungUp

AwaitPrompt ==
  /\ pc = "prompt"
  /\ PromptSeen
  /\ output' = <<>>
  /\ owed' = 0
  /\ pc' = "password"
  /\ UNCHANGED <<finish, reader, partial, typist, chan, su, survivor, echo, input,
                 printed, typed, shown, swallowed, granted, unfinished>>

\* The password; then both goroutines start.
EnterPassword ==
  /\ pc = "password"
  /\ WriteTTY("password")
  /\ pc' = "wait"
  /\ reader' = "reading"
  /\ typist' = "idle"
  /\ UNCHANGED <<finish, partial, chan, su, survivor, echo, printed, typed, ghostVars>>

WaitSu ==
  /\ pc = "wait"
  /\ su = "exited"
  /\ pc' = "finish"
  /\ UNCHANGED <<finish, reader, partial, typist, chan, ttyVars, typed, ghostVars>>

Raise == finish' = TRUE

SetFinish ==
  /\ pc = "finish"
  /\ Raise
  /\ pc' = "key"
  /\ UNCHANGED <<reader, partial, typist, chan, ttyVars, typed, ghostVars>>

WriteStopKey ==
  /\ pc = "key"
  /\ WriteTTY("key")
  /\ unfinished' = Unfinished
  /\ pc' = "join"
  /\ UNCHANGED <<finish, reader, partial, typist, chan, su, survivor, echo, printed, typed,
                 shown, swallowed, granted, owed>>

\* wg counts the reader alone.
Join ==
  /\ pc = "join"
  /\ reader \in {"done", "cut"}
  /\ pc' = "returned"
  /\ UNCHANGED <<finish, reader, partial, typist, chan, ttyVars, typed, ghostVars>>

MainStep ==
  StartFails \/ StartPTY \/ AwaitPrompt \/ EnterPassword \/ WaitSu \/ SetFinish
  \/ WriteStopKey \/ Join

-----------------------------------------------------------------------------
(* The goroutine that reads the terminal.                                  *)

\* The whole line has to be the key.
IsStop(l) == finish /\ l = "key" /\ ~partial

\* Receiving from messageChan empties it.
AfterTake == chan - 1

\* What becomes of a line that l ended: it is swallowed if there is a message,
\* the stop key is the end, and any other line is shown.
Deliver(l) ==
  \/ /\ chan > 0
     /\ chan' = AfterTake
     /\ swallowed' = [swallowed EXCEPT ![l] = @ + 1]
     /\ UNCHANGED <<reader, shown>>
  \/ /\ chan = 0 /\ IsStop(l)
     /\ reader' = "done"
     /\ UNCHANGED <<chan, swallowed, shown>>
  \/ /\ chan = 0 /\ ~IsStop(l)
     /\ shown' = [shown EXCEPT ![l] = @ + 1]
     /\ UNCHANGED <<reader, chan, swallowed>>

\* The reader takes the next piece.
Take(l) ==
  /\ reader = "reading"
  /\ output # <<>> /\ l = Head(output)
  /\ output' = Tail(output)
  /\ owed' = IF owed > 0 THEN owed - 1 ELSE 0
  /\ UNCHANGED <<pc, finish, typist, su, survivor, echo, input, printed, typed,
                 granted, unfinished>>

ReadLine ==
  \E l \in Pieces \ {"part", "long"} : Take(l) /\ Deliver(l) /\ partial' = FALSE

ReadPart ==
  /\ Take("part")
  /\ partial' = TRUE
  /\ UNCHANGED <<reader, chan, shown, swallowed>>

\* Scan returns false; why is not looked at.
ReadTooLong ==
  /\ Take("long")
  /\ reader' = "cut"
  /\ partial' = FALSE
  /\ UNCHANGED <<chan, shown, swallowed>>

\* The read fails with EIO: first an unfinished line is delivered.
ReadLast ==
  /\ reader = "reading"
  /\ output = <<>> /\ partial
  /\ HungUp
  /\ Deliver("part")
  /\ partial' = FALSE
  /\ UNCHANGED <<pc, finish, typist, ttyVars, typed, granted, owed, unfinished>>

ReadHungUp ==
  /\ reader = "reading"
  /\ output = <<>> /\ ~partial
  /\ HungUp
  /\ reader' = "done"
  /\ UNCHANGED <<pc, finish, partial, typist, chan, ttyVars, typed, ghostVars>>

ReaderStep == ReadLine \/ ReadPart \/ ReadTooLong \/ ReadLast \/ ReadHungUp

-----------------------------------------------------------------------------
(* The goroutine that reads stdin.                                         *)

\* The user types a line.
Type ==
  /\ typist = "idle"
  /\ pc # "returned"
  /\ typed < MaxTyped
  /\ typed' = typed + 1
  /\ typist' = "put"
  /\ UNCHANGED <<pc, finish, reader, partial, chan, ttyVars, ghostVars>>

ChanHasRoom == chan < 1

\* messageChan <- text.
PutMessage(from, to) ==
  /\ typist = from
  /\ ChanHasRoom
  /\ chan' = chan + 1
  /\ typist' = to
  /\ UNCHANGED <<pc, finish, reader, partial, ttyVars, typed, ghostVars>>

WriteLine(from, to) ==
  /\ typist = from
  /\ WriteTTY("typed")
  /\ typist' = to
  /\ UNCHANGED <<pc, finish, reader, partial, chan, su, survivor, echo, printed, typed,
                 ghostVars>>

\* The line goes first, then the message.
TypistStep_WriteFirst == WriteLine("put", "write") \/ PutMessage("write", "idle")

\* The message goes first, then the line.
TypistStep == PutMessage("put", "write") \/ WriteLine("write", "idle")

-----------------------------------------------------------------------------
(* su and the program it runs.                                             *)

\* getpass: the echo is off before the prompt is printed.
SuAsks ==
  /\ su = "start"
  /\ su' = "asking"
  /\ echo' = FALSE
  /\ output' = Append(output, "prompt")
  /\ UNCHANGED <<threadVars, survivor, input, printed, typed, ghostVars>>

\* Run by root, or for an account without a password, su asks nothing.
SuTrusts ==
  /\ su = "start"
  /\ su' = "running"
  /\ UNCHANGED <<threadVars, survivor, echo, input, output, printed, typed, ghostVars>>

\* It takes the password, throws away what else was typed, and starts the
\* program.
SuDecides ==
  /\ su = "asking"
  /\ input # <<>>
  /\ su' = "running"
  /\ echo' = TRUE
  /\ input' = <<>>
  /\ output' = Append(output, "blank")
  /\ granted' = TRUE
  /\ UNCHANGED <<threadVars, survivor, printed, typed, shown, swallowed, owed, unfinished>>

\* It says why it does not start the program: no such user, wrong password.
SuRefuses ==
  /\ su = "start" \/ (su = "asking" /\ input # <<>>)
  /\ su' = "refused"
  /\ echo' = TRUE
  /\ input' = <<>>
  /\ output' = output \o (IF su = "asking" THEN <<"blank", "line">> ELSE <<"line">>)
  /\ UNCHANGED <<threadVars, survivor, printed, typed, ghostVars>>

\* The program, or what it left behind, uses the terminal.
InUse == su = "running" \/ survivor

PrintText ==
  /\ InUse
  /\ printed < MaxPrinted
  /\ printed' = printed + 1
  /\ \E l \in Output : output' = Append(output, l)
  /\ UNCHANGED <<threadVars, su, survivor, echo, input, typed, ghostVars>>

ReadInput ==
  /\ InUse
  /\ input # <<>>
  /\ input' = Tail(input)
  /\ UNCHANGED <<threadVars, su, survivor, echo, output, printed, typed, ghostVars>>

\* The echo is turned off, or on.
SetEcho ==
  /\ InUse
  /\ echo' = ~echo
  /\ UNCHANGED <<threadVars, su, survivor, input, output, printed, typed, ghostVars>>

\* The program starts a process that may outlive it.
LeaveSurvivor ==
  /\ su = "running"
  /\ survivor' = TRUE
  /\ UNCHANGED <<threadVars, su, echo, input, output, printed, typed, ghostVars>>

\* What was not read is gone with the last that held the terminal.
SurvivorExits ==
  /\ survivor
  /\ survivor' = FALSE
  /\ input' = IF su = "exited" THEN <<>> ELSE input
  /\ UNCHANGED <<threadVars, su, echo, output, printed, typed, ghostVars>>

\* su leads the session: its end sends SIGHUP to some of the others, and takes
\* the terminal from none of them.
SuExits ==
  /\ su \in {"start", "asking", "running", "refused"}
  /\ su' = "exited"
  /\ input' = IF survivor THEN input ELSE <<>>
  /\ owed' = Len(output)
  /\ UNCHANGED <<threadVars, survivor, echo, output, printed, typed, shown, swallowed,
                 granted, unfinished>>

SuStep == SuAsks \/ SuTrusts \/ SuDecides \/ SuRefuses \/ SuExits
ProgramStep == PrintText \/ ReadInput \/ SetEcho \/ LeaveSurvivor \/ SurvivorExits

-----------------------------------------------------------------------------
Terminated == pc = "returned" /\ UNCHANGED vars

Next ==
  \/ MainStep \/ ReaderStep \/ Type \/ TypistStep \/ SuStep \/ ProgramStep \/ Terminated

\* Threads are scheduled.  Nothing is assumed of su, its program or the user.
Fairness ==
  /\ WF_vars(MainStep)
  /\ WF_vars(ReaderStep)
  /\ WF_vars(TypistStep)

Spec == Init /\ [][Next]_vars
FairSpec == Spec /\ Fairness

-----------------------------------------------------------------------------
(* Properties.                                                             *)

InOutput(l) == \E i \in 1..Len(output) : output[i] = l

\* Nothing that was printed before su ended is left behind, the beginning of a
\* line included: when RunProcessViaPTY returns all of it, but what was taken
\* for the prompt, was shown or swallowed for a typed line -- unless one line
\* was too long, which ends the relay without a word (execpty.go:74-94,
\* 127-131).
OutputIsRelayed == pc = "returned" /\ reader # "cut" => owed = 0 /\ ~partial

\* An echo is shown only where another line was swallowed in its place: the
\* message is in the channel before the line is in the terminal, so messages
\* are never fewer than echoes (execpty.go:105-107 against 76-80).
EchoShownForAnother ==
  shown["typed"] <= swallowed["prompt"] + swallowed["blank"] + swallowed["line"]
                      + swallowed["part"] + swallowed["password"] + swallowed["key"]

\* A password su asked for, and took, is never shown: it is written when the
\* prompt has been seen, and the echo is off by then (execpty.go:136-145).
PasswordIsNotShown == (granted => shown["password"] = 0)

\* The stop key is shown only if text without an end of line was in front of
\* it when it was written: the flag is up before that (execpty.go:84-87,
\* 127-129).
StopKeyIsNotShown == shown["key"] > 0 => unfinished

\* The key is on its way to the reader, and nothing is in its way.
KeyIsNext ==
  /\ pc = "join" /\ reader = "reading"
  /\ InOutput("key") /\ ~InOutput("long") /\ ~unfinished
  /\ chan = 0 /\ typist = "idle"

\* Once su has ended RunProcessViaPTY returns.  When nobody holds the terminal
\* it does so even if the stop key is never echoed, is swallowed for a typed
\* line, or arrives when the reader is gone, and although the goroutine that
\* reads stdin may never end; when somebody does, the key alone makes it
\* return, unless the user types on (execpty.go:46-52, 84-87, 127-131).
ReturnsAfterSu ==
  /\ HungUp ~> (pc = "returned")
  /\ KeyIsNext ~> (pc = "returned" \/ typist # "idle")
=============================================================================

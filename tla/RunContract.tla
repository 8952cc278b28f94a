---------------------------- MODULE RunContract ----------------------------
(***************************************************************************)
(* What a supervised run promises to whoever started it, whatever happens  *)
(* inside: the verdict is final, it is clean only if the tracee kept every *)
(* rule, a clean tracee cannot break one any more, and when the run is     *)
(* over nothing of it is left.  instance.Run with the end of its process   *)
(* (main.go:101-108) keeps this promise: module Tracer implements it.      *)
(***************************************************************************)
EXTENDS Integers

VARIABLES
  verdict,  \* "none" while the run is open, then "clean" or "error"
  faulty,   \* has the tracee broken a rule of its configuration?
  alive,    \* does a process of the run exist?
  report    \* the exit status of the run; -1 before it has ended

contractVars == <<verdict, faulty, alive, report>>

Init ==
  /\ verdict = "none"
  /\ faulty = FALSE
  /\ alive = FALSE
  /\ report = -1

\* The tracee exists; a limit of 0 is reached at once.
Begin ==
  /\ verdict = "none"
  /\ ~alive
  /\ alive' = TRUE
  /\ faulty' \in BOOLEAN
  /\ UNCHANGED <<verdict, report>>

\* The run fails before it has begun, or just after.
GiveUp ==
  /\ verdict = "none"
  /\ ~alive
  /\ verdict' = "error"
  /\ alive' \in BOOLEAN
  /\ faulty' \in BOOLEAN
  /\ faulty' => alive'
  /\ UNCHANGED report

\* A tracee that has not been judged clean can break a rule.
Break ==
  /\ alive
  /\ verdict # "clean"
  /\ faulty' = TRUE
  /\ UNCHANGED <<verdict, alive, report>>

\* The last process ends by itself.
Vanish ==
  /\ alive
  /\ alive' = FALSE
  /\ UNCHANGED <<verdict, faulty, report>>

\* The verdict; waiting for the last process may be what decides it.
Judge ==
  /\ verdict = "none"
  /\ \/ verdict' = "error"
     \/ verdict' = "clean" /\ ~faulty
  /\ alive' => alive
  /\ alive' \in BOOLEAN
  /\ UNCHANGED <<faulty, report>>

\* The end of the run is the end of all its processes.
Report ==
  /\ verdict # "none"
  /\ report = -1
  /\ report' \in 0..255
  /\ report' = 0 => verdict = "clean"
  /\ alive' = FALSE
  /\ UNCHANGED <<verdict, faulty>>

Next == Begin \/ GiveUp \/ Break \/ Vanish \/ Judge \/ Report

Spec == Init /\ [][Next]_contractVars
=============================================================================

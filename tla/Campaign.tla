------------------------------ MODULE Campaign ------------------------------
(***************************************************************************)
(* What the measurement program (src/src/examples/src/traffic_test.c)      *)
(* promises to whoever starts it: a number of transmissions is made in     *)
(* sessions with the modem; a session that cannot be set up is a fault and *)
(* is retried; the program stops when all transmissions are counted, when  *)
(* too many set-ups failed in a row, when the user interrupted it, or when *)
(* the system gives it no thread for a session, and for no other reason    *)
(* and never while a session is open.                                      *)
(***************************************************************************)
EXTENDS Naturals

CONSTANTS
  Repeats,    \* number of transmissions the user asked for (option -n)
  MaxFaults   \* MAX_FAULTS_TO_CANCEL

VARIABLES
  counted,      \* transmissions counted so far, over all sessions
  faults,       \* faults since the last session was opened
  session,      \* a session is open
  interrupted,  \* the user pressed Ctrl-C
  outcome       \* "running", or why the program stopped

vars == <<counted, faults, session, interrupted, outcome>>

Outcomes == {"running", "finished", "gaveup", "interrupted", "aborted"}

TypeOK ==
  /\ counted \in 0..Repeats
  /\ faults \in 0..(MaxFaults + 1)
  /\ session \in BOOLEAN
  /\ interrupted \in BOOLEAN
  /\ outcome \in Outcomes

Init ==
  /\ counted = 0
  /\ faults = 0
  /\ session = FALSE
  /\ interrupted = FALSE
  /\ outcome = "running"

Idle == outcome = "running" /\ ~session

OpenSession ==
  /\ Idle
  /\ session' = TRUE
  /\ faults' = 0
  /\ UNCHANGED <<counted, interrupted, outcome>>

CloseSession ==
  /\ session
  /\ session' = FALSE
  /\ UNCHANGED <<counted, faults, interrupted, outcome>>

\* A transmission counts whatever became of it, but only inside a session.
Transmit ==
  /\ session
  /\ counted < Repeats
  /\ counted' = counted + 1
  /\ UNCHANGED <<faults, session, interrupted, outcome>>

Fault ==
  /\ Idle
  /\ faults <= MaxFaults
  /\ faults' = faults + 1
  /\ UNCHANGED <<counted, session, interrupted, outcome>>

Interrupt ==
  /\ outcome = "running"
  /\ interrupted' = TRUE
  /\ UNCHANGED <<counted, faults, session, outcome>>

Stop(why) ==
  /\ Idle
  /\ outcome' = why
  /\ UNCHANGED <<counted, faults, session, interrupted>>

Next ==
  \/ OpenSession
  \/ CloseSession
  \/ Transmit
  \/ Fault
  \/ Interrupt
  \/ counted = Repeats /\ Stop("finished")
  \/ faults > MaxFaults /\ Stop("gaveup")
  \/ interrupted /\ Stop("interrupted")
  \/ Stop("aborted")

Spec == Init /\ [][Next]_vars
=============================================================================

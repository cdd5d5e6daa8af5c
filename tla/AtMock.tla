------------------------------- MODULE AtMock -------------------------------
(***************************************************************************)
(* The AT interface of the unit tests                                      *)
(* (src/src/cmnalib/src/at/at_interface_mock.c): commands are compared     *)
(* with a file of recorded lines and answered from it.  A line is a        *)
(* command, a final line ("OK", "ERROR", "CME"), or another text; a line   *)
(* of an answer that ends in a final word is that final line.              *)
(***************************************************************************)
EXTENDS Naturals, Sequences

CONSTANTS
  Commands,  \* command lines, with their parameters
  Texts      \* the lines of answers that do not end them

Finals == {"OK", "ERROR", "CME"}
Lines == Commands \cup Texts \cup Finals

ASSUME AtMockAssumption ==
  /\ Commands # {} /\ Texts \cap (Commands \cup Finals) = {}
  /\ Commands \cap Finals = {}

VARIABLES
  script,    \* the lines of the file
  position,  \* how many of them have been read
  mpc,       \* "idle", or where at_interface_command_mock is
  asked,     \* history: the command of the last call
  answer,    \* the lines of the response
  status     \* what the last call returned, "NONE" during a call

mock == <<script, position, mpc, asked, answer, status>>

MockInit(s) ==
  /\ script = s /\ position = 0
  /\ mpc = "idle" /\ asked = "none" /\ answer = <<>> /\ status = "NONE"

Returns(s) ==
  /\ mpc' = "idle"
  /\ status' = s

Command(c) ==
  /\ mpc = "idle"
  /\ mpc' = "compare"
  /\ asked' = c
  /\ answer' = <<>>
  /\ status' = "NONE"
  /\ UNCHANGED <<script, position>>

NoMemory ==
  /\ mpc = "compare"
  /\ Returns("OUT_OF_MEMORY")
  /\ UNCHANGED <<script, position, asked, answer>>

\* The next line of the file is the command, or it is skipped all the same.
\* At the end of the file the buffer compared has what was on the stack, which
\* may be the command before this one.
Compare ==
  /\ mpc = "compare"
  /\ IF position < Len(script)
     THEN /\ position' = position + 1
          /\ IF script[position'] = asked THEN mpc' = "read" /\ UNCHANGED status
             ELSE Returns("TEST_COMMAND_MISMATCH")
     ELSE /\ UNCHANGED position
          /\ \/ mpc' = "read" /\ UNCHANGED status
             \/ Returns("TEST_COMMAND_MISMATCH")
  /\ UNCHANGED <<script, asked, answer>>

\* Mutant: the response ends with a failure that is reported as a success.
FinalStatusCareless(line) == IF line \in Finals THEN "SUCCESS" ELSE "NONE"

FinalStatus(line) ==
  CASE line = "OK" -> "SUCCESS"
    [] line \in {"ERROR", "CME"} -> "FAILED"
    [] OTHER -> "NONE"

\* Mutant: the lines of the response overwrite each other.
ReadLineOver ==
  /\ mpc = "read" /\ position < Len(script)
  /\ position' = position + 1
  /\ answer' = <<script[position']>>
  /\ IF FinalStatus(script[position']) = "NONE" THEN UNCHANGED <<mpc, status>>
     ELSE Returns(FinalStatus(script[position']))
  /\ UNCHANGED <<script, asked>>

ReadLine ==
  /\ mpc = "read" /\ position < Len(script)
  /\ position' = position + 1
  /\ answer' = Append(answer, script[position'])
  /\ IF FinalStatus(script[position']) = "NONE" THEN UNCHANGED <<mpc, status>>
     ELSE Returns(FinalStatus(script[position']))
  /\ UNCHANGED <<script, asked>>

\* The file ends within the answer.
ReadEnd ==
  /\ mpc = "read" /\ position = Len(script)
  /\ Returns("UNKNOWN")
  /\ UNCHANGED <<script, position, asked, answer>>

MockStep == NoMemory \/ Compare \/ ReadLine \/ ReadEnd

-----------------------------------------------------------------------------

Flat(lines) ==
  [j \in 1..(2 * Len(lines)) |->
     LET line == lines[(j + 1) \div 2] IN
       IF j % 2 = 0 THEN "CRLF" ELSE IF line \in Finals THEN line ELSE "TEXT"]

Interface == INSTANCE AtInterface WITH
  busy     <- mpc # "idle",
  response <- IF mpc = "idle" THEN Flat(answer) ELSE <<>>

\* The mock keeps the promise the drivers rely on with a modem, so that a test
\* over the mock is a test of the driver: whatever is in the file and whatever
\* is asked, a status tells how the response ends (at_interface_mock.c:102-121).
ImplementsInterface == Interface!Spec

\* A test never gets another exchange's answer: with a result code, the lines
\* just read from the file are the command asked and, all of them, its answer,
\* also after commands that the file did not have.
AnswersFromScript ==
  status \in {"SUCCESS", "FAILED"} =>
    /\ position > Len(answer)
    /\ SubSeq(script, position - Len(answer), position) = <<asked>> \o answer

=============================================================================

------------------------------- MODULE AtTty -------------------------------
(***************************************************************************)
(* The tty implementation of the AT interface,                             *)
(* src/src/cmnalib/src/at/at_interface.c: one command at a time is written *)
(* to a modem, and what arrives is read until a final result code shows    *)
(* up, nothing arrives for the command's timeout, or the device fails.     *)
(*                                                                         *)
(* The modem and the kernel's input queue are external.  The modem answers *)
(* the commands it has received in their order, each as late as it likes   *)
(* or never, and says things unasked.  Bytes are symbols of AtInterface,   *)
(* each with the number of the command it answers (0: unasked), so that a  *)
(* final result code can be split by two reads.                            *)
(***************************************************************************)
EXTENDS Naturals, Sequences

CONSTANTS
  BufSize,      \* sizeof(response_string), the terminating NUL included
  MaxTimeouts,  \* AT_INTERFACE_MAX_CONSECUTIVE_TIMEOUTS
  QueueSize,    \* capacity of the kernel's input queue
  MaxCommands,  \* bound: commands issued in a behaviour
  IoFaults      \* the device and the allocator may fail

ASSUME AtTtyAssumption ==
  /\ BufSize \in Nat \ {0}
  /\ MaxTimeouts \in Nat
  /\ QueueSize \in Nat \ {0}
  /\ MaxCommands \in Nat
  /\ IoFaults \in BOOLEAN

VARIABLES
  pc,           \* where the host is, "closed" without a handle
  nof_timeouts, \* of the handle
  result,       \* what the last call returned, "NONE" during a call
  resp,         \* (*response)->response_string
  n,            \* history: number of the current or last command
  abandoned,    \* history: the answer to an earlier command, on which its
                \* call gave up, was not all in the queue at the last flush
  input,        \* kernel: bytes received and not read
  inbox,        \* modem: commands received and not answered
  speaking      \* modem: the rest of the answer being sent

host  == <<pc, nof_timeouts, result, resp, n, abandoned>>
modem == <<inbox, speaking>>
vars  == <<host, input, modem>>

Text(r) == [j \in DOMAIN r |-> r[j].sym]

Abstract == INSTANCE AtInterface WITH
  busy     <- pc \notin {"closed", "idle"},
  status   <- result,
  response <- IF pc \in {"closed", "idle"} THEN Text(resp) ELSE <<>>

Bytes == [cmd : 0..MaxCommands, sym : Abstract!Symbols]

\* The answers a modem gives to command c.
Answers == {<<"OK", "CRLF">>, <<"TEXT", "OK", "CRLF">>,
            <<"ERROR", "CRLF">>, <<"CME", "TEXT", "CRLF">>}

Said(c, answer) == [j \in DOMAIN answer |-> [cmd |-> c, sym |-> answer[j]]]

TypeOK ==
  /\ pc \in {"closed", "idle", "flush", "write", "select", "read"}
  /\ nof_timeouts \in 0..n
  /\ result \in Abstract!Statuses \cup {"NONE"}
  /\ resp \in Seq(Bytes)
  /\ n \in 0..MaxCommands
  /\ abandoned \in BOOLEAN
  /\ input \in Seq(Bytes)
  /\ inbox \in Seq(1..MaxCommands)
  /\ speaking \in Seq(Bytes)

Init ==
  /\ pc = "closed"
  /\ nof_timeouts = 0
  /\ result = "NONE"
  /\ resp = <<>>
  /\ n = 0
  /\ abandoned = FALSE
  /\ input = <<>>
  /\ inbox = <<>>
  /\ speaking = <<>>

-----------------------------------------------------------------------------
(* The modem and the kernel                                                *)

StartAnswer ==
  /\ speaking = <<>>
  /\ inbox # <<>>
  /\ \E a \in Answers : speaking' = Said(Head(inbox), a)
  /\ inbox' = Tail(inbox)
  /\ UNCHANGED <<host, input>>

\* The modem never answers a command.
Forget ==
  /\ speaking = <<>>
  /\ inbox # <<>>
  /\ inbox' = Tail(inbox)
  /\ UNCHANGED <<host, input, speaking>>

Arrive ==
  /\ speaking # <<>>
  /\ Len(input) < QueueSize
  /\ input' = Append(input, Head(speaking))
  /\ speaking' = Tail(speaking)
  /\ UNCHANGED <<host, inbox>>

Unasked ==
  /\ speaking = <<>>
  /\ Len(input) < QueueSize
  /\ input' = Append(input, [cmd |-> 0, sym |-> "TEXT"])
  /\ UNCHANGED <<host, modem>>

\* Nothing is left to be said to the commands received so far.
Silent == inbox = <<>> /\ speaking = <<>>

ModemNext == StartAnswer \/ Forget \/ Arrive \/ Unasked

-----------------------------------------------------------------------------
(* at_interface_open_tty(), at_interface_close_tty()                       *)

\* A new handle starts without timeouts.  A failed open leaves no handle.
Open ==
  /\ pc = "closed"
  /\ pc' = "idle"
  /\ nof_timeouts' = 0
  /\ UNCHANGED <<result, resp, n, abandoned, input, modem>>

\* The kernel may drop what was not read when the tty is closed.
Close ==
  /\ pc = "idle"
  /\ pc' = "closed"
  /\ input' \in {input, <<>>}
  /\ UNCHANGED <<nof_timeouts, result, resp, n, abandoned, modem>>

-----------------------------------------------------------------------------
(* at_interface_command_tty()                                              *)

Call ==
  /\ pc = "idle"
  /\ n < MaxCommands
  /\ n' = n + 1
  /\ pc' = "flush"
  /\ result' = "NONE"
  /\ resp' = <<>>
  /\ UNCHANGED <<nof_timeouts, abandoned, input, modem>>

Return(ret) ==
  /\ pc' = "idle"
  /\ result' = ret

\* The call gives up on the answer, which may still arrive.
Abandon(ret) ==
  /\ Return(ret)
  /\ abandoned' = TRUE

\* No place for the response, or no memory: nothing is sent.
Refused ==
  /\ pc = "flush"
  /\ IoFaults
  /\ \E ret \in {"INVAL", "OUT_OF_MEMORY"} : Return(ret)
  /\ UNCHANGED <<nof_timeouts, resp, n, abandoned, input, modem>>

\* Mutant: what arrived before is left in the queue.
FlushNothing ==
  /\ pc = "flush"
  /\ pc' = "write"
  /\ abandoned' = (abandoned /\ ~Silent)
  /\ UNCHANGED <<nof_timeouts, result, resp, n, input, modem>>

\* tcflush(TCIOFLUSH): what has arrived by now is not the answer.
Flush ==
  /\ pc = "flush"
  /\ pc' = "write"
  /\ input' = <<>>
  /\ abandoned' = (abandoned /\ ~Silent)
  /\ UNCHANGED <<nof_timeouts, result, resp, n, modem>>

FlushFails ==
  /\ pc = "flush"
  /\ IoFaults
  /\ Return("IO_ERROR")
  /\ UNCHANGED <<nof_timeouts, resp, n, abandoned, input, modem>>

Write ==
  /\ pc = "write"
  /\ pc' = "select"
  /\ inbox' = Append(inbox, n)
  /\ UNCHANGED <<nof_timeouts, result, resp, n, abandoned, input, speaking>>

WriteFails ==
  /\ pc = "write"
  /\ IoFaults
  /\ Return("IO_ERROR")
  /\ UNCHANGED <<nof_timeouts, resp, n, abandoned, input, modem>>

\* Less than the command is written, which is not looked at.  Without its end it
\* is none to the modem.
WriteShort ==
  /\ pc = "write"
  /\ IoFaults
  /\ pc' = "select"
  /\ UNCHANGED <<nof_timeouts, result, resp, n, abandoned, input, modem>>

\* select() reports data: the file is ready.
Ready ==
  /\ pc = "select"
  /\ input # <<>>
  /\ pc' = "read"
  /\ UNCHANGED <<nof_timeouts, result, resp, n, abandoned, input, modem>>

SelectFails ==
  /\ pc = "select"
  /\ IoFaults
  /\ Abandon("IO_ERROR")
  /\ UNCHANGED <<nof_timeouts, resp, n, input, modem>>

\* Mutant: the call goes on waiting after a timeout.
TimeoutRetries ==
  /\ pc = "select"
  /\ input = <<>>
  /\ nof_timeouts' = nof_timeouts + 1
  /\ IF nof_timeouts' > MaxTimeouts
     THEN Abandon("IO_ERROR")
     ELSE UNCHANGED <<pc, result, abandoned>>
  /\ UNCHANGED <<resp, n, input, modem>>

\* Nothing arrived for the command's timeout, which starts anew after every
\* read.  One timeout too many in a row is taken for a dead device.
Timeout ==
  /\ pc = "select"
  /\ input = <<>>
  /\ nof_timeouts' = nof_timeouts + 1
  /\ Abandon(IF nof_timeouts' > MaxTimeouts THEN "IO_ERROR" ELSE "TIMEOUT")
  /\ UNCHANGED <<resp, n, input, modem>>

\* Mutant: the word OK is taken for the final result code.
VerdictWithoutLineEnd(r) ==
  IF \E j \in 1..Len(r) : r[j] = "OK" THEN "SUCCESS"
  ELSE IF Abstract!HasError(r) THEN "FAILED" ELSE "NONE"

\* The verdict on what is in the buffer, in the order of the code's tests.
Verdict(r) ==
  IF Abstract!HasOk(r) THEN "SUCCESS"
  ELSE IF Abstract!HasError(r) THEN "FAILED" ELSE "NONE"

\* Mutant: no byte is kept for the NUL.
RoomWithoutNul == BufSize - Len(resp)

\* read() returns what is there, as far as it fits; the last byte of the
\* buffer is for the NUL.
Room == BufSize - Len(resp) - 1

Got == SubSeq(input, 1, IF Len(input) < Room THEN Len(input) ELSE Room)

Read ==
  /\ pc = "read"
  /\ Got # <<>>
  /\ resp' = resp \o Got
  /\ input' = SubSeq(input, Len(Got) + 1, Len(input))
  /\ nof_timeouts' = 0
  /\ IF Verdict(Text(resp')) = "NONE"
     THEN pc' = "select" /\ UNCHANGED result
     ELSE Return(Verdict(Text(resp')))
  /\ UNCHANGED <<n, abandoned, modem>>

\* Mutant: reading nothing is taken for a wake-up without data.
ReadNothingRetries ==
  /\ pc = "read"
  /\ Got = <<>> \/ IoFaults
  /\ pc' = "select"
  /\ nof_timeouts' = 0
  /\ UNCHANGED <<result, resp, n, abandoned, input, modem>>

\* read() returns 0: the buffer is full, or the device has hung up.
ReadNothing ==
  /\ pc = "read"
  /\ Got = <<>> \/ IoFaults
  /\ nof_timeouts' = 0
  /\ Abandon("IO_ERROR")
  /\ UNCHANGED <<resp, n, input, modem>>

ReadFails ==
  /\ pc = "read"
  /\ IoFaults
  /\ Abandon("IO_ERROR")
  /\ UNCHANGED <<nof_timeouts, resp, n, input, modem>>

CommandNext ==
  \/ Refused \/ Flush \/ FlushFails \/ Write \/ WriteFails
  \/ WriteShort \/ Ready \/ SelectFails \/ Timeout \/ Read \/ ReadNothing \/ ReadFails

Next == Open \/ Close \/ Call \/ CommandNext \/ ModemNext

Spec == Init /\ [][Next]_vars

\* The caller's thread is scheduled; select() returns at the latest when the
\* timeout expires.  Nothing is assumed of the modem.
FairSpec == Spec /\ WF_vars(CommandNext)

-----------------------------------------------------------------------------
(* Properties                                                              *)

\* However the answer is cut into reads, and however much the modem says, the
\* response and its terminating NUL stay inside the buffer.
FitsBuffer == Len(resp) <= BufSize - 1

\* Statuses tell the truth about the responses: the implementation refines
\* the interface the drivers use.
ImplementsAtInterface == Abstract!Spec

\* All that r has in answer to command c is the text t, in one piece.
Holds(r, c, t) ==
  \E k \in 0..(Len(r) - Len(t)) :
    /\ \A j \in 1..Len(t) : r[k + j] = [cmd |-> c, sym |-> t[j]]
    /\ \A j \in 1..Len(r) : r[j].cmd = c => j \in (k + 1)..(k + Len(t))

\* There are no command numbers on the wire.  Still, unless the modem was yet
\* to answer, at the flush, a command on which an earlier call had given up, a
\* command that succeeds has received one complete answer to itself, and one
\* that fails was refused itself, even if that answer is not all there.  In
\* particular the rest of a +CME ERROR line, read by the next command, does
\* not spoil that one.
AnswersOwnCommand ==
  result \in {"SUCCESS", "FAILED"} /\ ~abandoned =>
    \E a \in Answers : \E m \in 1..Len(a) :
      /\ Holds(resp, n, SubSeq(a, 1, m))
      /\ result = "SUCCESS" => m = Len(a) /\ Abstract!HasOk(a)
      /\ result = "FAILED" => Abstract!HasError(SubSeq(a, 1, m))

\* Every command returns, even if the modem never stops sending: either it
\* falls silent for the timeout, or the buffer fills up.
CommandReturns == (pc = "flush") ~> (pc = "idle")

=============================================================================

---------------------------- MODULE AtInterface ----------------------------
(***************************************************************************)
(* What at_interface_command() promises to the device drivers, whichever   *)
(* implementation is linked in (src/src/cmnalib/include/cmnalib/           *)
(* at_interface.h): every call returns one status and one response, and    *)
(* the status says truly whether and how the response is terminated.       *)
(*                                                                         *)
(* A response is a sequence of symbols: "OK" and "ERROR" are the words,    *)
(* "CRLF" the line end, "CME" the text +CME ERROR, "TEXT" anything else.   *)
(***************************************************************************)
EXTENDS Naturals, Sequences

Symbols == {"OK", "ERROR", "CME", "CRLF", "TEXT"}

\* at_interface_response_status_t; "NONE" before a call returns.
Statuses == {"SUCCESS", "FAILED", "TIMEOUT", "INVAL", "IO_ERROR",
             "OUT_OF_MEMORY", "TEST_COMMAND_MISMATCH", "UNKNOWN"}

Line(r, word) == \E j \in 1..Len(r) : j < Len(r) /\ r[j] = word /\ r[j + 1] = "CRLF"

HasOk(r)    == Line(r, "OK")
HasError(r) == Line(r, "ERROR") \/ \E j \in 1..Len(r) : r[j] = "CME"

\* What the drivers may conclude from a status about the response.
Truthful(status, r) ==
  /\ status = "SUCCESS" => HasOk(r)
  /\ status = "FAILED" => HasError(r) /\ ~HasOk(r)
  /\ status \notin {"SUCCESS", "FAILED"} => ~HasOk(r) /\ ~HasError(r)

VARIABLES
  busy,      \* a call is in progress
  status,    \* what the last call returned, "NONE" during a call
  response   \* the response returned with it, empty during a call

vars == <<busy, status, response>>

Init ==
  /\ busy = FALSE
  /\ status = "NONE"
  /\ response = <<>>

Call ==
  /\ ~busy
  /\ busy' = TRUE
  /\ status' = "NONE"
  /\ response' = <<>>

Return ==
  /\ busy
  /\ busy' = FALSE
  /\ status' \in Statuses
  /\ response' \in Seq(Symbols)
  /\ Truthful(status', response')

Next == Call \/ Return

Spec == Init /\ [][Next]_vars
=============================================================================

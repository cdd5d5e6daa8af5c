------------------------------ MODULE Transfer ------------------------------
(***************************************************************************)
(* The protocol of a transfer of src/src/cmnalib/src/traffic/traffic_curl.c *)
(* as its caller sees it: one status report before the transfer, any       *)
(* number of reports while it is performed, one after it.  Only a report   *)
(* made while it is performed can cancel the transfer.                     *)
(***************************************************************************)
VARIABLE stage   \* "idle", "perform", or the report being made

Init == stage = "idle"

Step(from, to) == stage = from /\ stage' = to

Begin     == Step("idle", "first")
Start     == Step("first", "perform")
Report    == Step("perform", "progress")
Continue  == Step("progress", "perform")
Cancel    == Step("progress", "final")
Finish    == Step("perform", "final")
Return    == Step("final", "idle")

Next ==
  Begin \/ Start \/ Report \/ Continue \/ Cancel \/ Finish \/ Return

Spec == Init /\ [][Next]_stage
=============================================================================

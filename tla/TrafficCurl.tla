---------------------------- MODULE TrafficCurl ----------------------------
(***************************************************************************)
(* Transfers with libcurl: tc_download_and_discard() and                   *)
(* tc_upload_randomdata() of src/src/cmnalib/src/traffic/traffic_curl.c,   *)
(* with the callbacks they register.  libcurl, the server and the caller's *)
(* progress callback are external: libcurl passes chunks of any size up to *)
(* MaxChunk, calls xferinfo between them, and may end at any time.         *)
(***************************************************************************)
EXTENDS Integers

CONSTANTS
  MaxSize,   \* largest transfer asked for
  MaxChunk,  \* largest chunk libcurl passes to a callback
  MaxBytes   \* bound: bytes a server sends in a download

ASSUME TrafficCurlAssumption ==
  /\ MaxSize \in Nat
  /\ MaxChunk \in Nat \ {0}
  /\ MaxBytes \in Nat

VARIABLES
  pc,         \* where the transfer is; "idle" before and after
  kind,       \* "download" or "upload"
  size,       \* n_bytes_max, n_bytes
  remaining,  \* callbackdata.remaining_bytes
  last,       \* callbackdata.last_dl, last_ul
  now,        \* bytes the callbacks took, dlnow or ulnow
  reported,   \* history: the bytes of all progress reports
  code,       \* what curl_easy_perform() returned
  result      \* what the last call returned, 0 or -1

vars == <<pc, kind, size, remaining, last, now, reported, code, result>>

Kinds == {"download", "upload"}
Codes == {"none", "OK", "WRITE_ERROR", "ABORTED_BY_CALLBACK", "other"}

AtMost(a, b) == IF a > b THEN b ELSE a

TypeOK ==
  /\ pc \in {"idle", "first", "perform", "progress", "final"}
  /\ kind \in Kinds
  /\ size \in 0..MaxSize
  /\ remaining \in 0..size
  /\ last \in Nat
  /\ now \in Nat
  /\ reported \in Nat
  /\ code \in Codes
  /\ result \in {0, -1}

Init ==
  /\ pc = "idle"
  /\ kind \in Kinds
  /\ size = 0
  /\ remaining = 0
  /\ last = 0
  /\ now = 0
  /\ reported = 0
  /\ code = "none"
  /\ result = 0

-----------------------------------------------------------------------------
(* The callbacks: how many bytes of a chunk of c bytes are taken, given    *)
(* that r bytes remain.                                                    *)

\* discard_and_truncate_callback(): once nothing remains it takes it all.
Truncated(r, c) == IF r > 0 THEN AtMost(c, r) ELSE c

\* Mutant: the chunk is not bounded by what remains.
GeneratedUnbounded(r, c) == c

\* read_randomdata_callback()
Generated(r, c) == AtMost(c, r)

-----------------------------------------------------------------------------

Begin(k, n) ==
  /\ pc = "idle"
  /\ pc' = "first"
  /\ kind' = k
  /\ size' = n
  /\ remaining' = n
  /\ last' = 0 /\ now' = 0 /\ reported' = 0
  /\ code' = "none"
  /\ UNCHANGED result

\* curl_easy_init() gives no handle.
NoHandle ==
  /\ pc = "idle"
  /\ result' = -1
  /\ code' = "none"
  /\ UNCHANGED <<pc, kind, size, remaining, last, now, reported>>

\* Mutant: the first report ends the transfer.
FirstReportFinal ==
  /\ pc = "first"
  /\ pc' = "final"
  /\ code' = "OK"
  /\ UNCHANGED <<kind, size, remaining, last, now, reported, result>>

\* The first report; what the callback returns is ignored.
FirstReport ==
  /\ pc = "first"
  /\ pc' = "perform"
  /\ UNCHANGED <<kind, size, remaining, last, now, reported, code, result>>

EndPerform(c) ==
  /\ pc' = "final"
  /\ code' = c

\* A chunk has been received.  libcurl gives up unless all of it is taken.
Receive(c) ==
  /\ pc = "perform"
  /\ kind = "download"
  /\ now + c <= MaxBytes
  /\ LET taken == Truncated(remaining, c) IN
       /\ remaining' = IF remaining > 0 THEN remaining - taken ELSE remaining
       /\ now' = now + taken
       /\ IF taken = c THEN UNCHANGED <<pc, code>> ELSE EndPerform("WRITE_ERROR")
  /\ UNCHANGED <<kind, size, last, reported, result>>

\* Mutant: what was sent is not deducted.
SendUncounted(c) ==
  /\ pc = "perform"
  /\ kind = "upload"
  /\ now < size
  /\ now' = now + Generated(remaining, c)
  /\ UNCHANGED <<pc, kind, size, remaining, last, reported, code, result>>

\* libcurl has room for c bytes to send and does not have the whole POST yet.
Send(c) ==
  /\ pc = "perform"
  /\ kind = "upload"
  /\ now < size
  /\ LET taken == Generated(remaining, c) IN
       /\ remaining' = remaining - taken
       /\ now' = now + taken
  /\ UNCHANGED <<pc, kind, size, last, reported, code, result>>

\* Mutant: the position of the last report is not kept.
XferinfoForgets ==
  /\ pc = "perform"
  /\ pc' = "progress"
  /\ reported' = reported + (now - last)
  /\ UNCHANGED <<kind, size, remaining, last, now, code, result>>

\* xferinfo() after the minimal interval; before it, it only returns 0.
Xferinfo ==
  /\ pc = "perform"
  /\ pc' = "progress"
  /\ reported' = reported + (now - last)
  /\ last' = now
  /\ UNCHANGED <<kind, size, remaining, now, code, result>>

\* What the caller's callback returns is returned to libcurl.
Continue ==
  /\ pc = "progress"
  /\ pc' = "perform"
  /\ UNCHANGED <<kind, size, remaining, last, now, reported, code, result>>

Cancel ==
  /\ pc = "progress"
  /\ EndPerform("ABORTED_BY_CALLBACK")
  /\ UNCHANGED <<kind, size, remaining, last, now, reported, result>>

\* The server has answered or closed, or the network has failed.
PerformEnds ==
  /\ pc = "perform"
  /\ EndPerform("OK") \/ EndPerform("other")
  /\ UNCHANGED <<kind, size, remaining, last, now, reported, result>>

\* Mutant: a download that was cut off counts as failed.
SucceededUncut == code \in {"OK", "ABORTED_BY_CALLBACK"}

Succeeded ==
  \/ code \in {"OK", "ABORTED_BY_CALLBACK"}
  \/ kind = "download" /\ code = "WRITE_ERROR" /\ remaining = 0

\* The final report is made after failed transfers as well.
FinalReport ==
  /\ pc = "final"
  /\ pc' = "idle"
  /\ result' = IF Succeeded THEN 0 ELSE -1
  /\ UNCHANGED <<kind, size, remaining, last, now, reported, code>>

Next ==
  \/ \E k \in Kinds, n \in 0..MaxSize : Begin(k, n)
  \/ NoHandle
  \/ FirstReport
  \/ \E c \in 1..MaxChunk : Receive(c) \/ Send(c)
  \/ Xferinfo \/ Continue \/ Cancel
  \/ PerformEnds
  \/ FinalReport

Spec == Init /\ [][Next]_vars

-----------------------------------------------------------------------------
(* Properties                                                              *)

\* The count of remaining bytes, which decides about the result and gives the
\* average data rate, agrees with what libcurl has moved, up to the size asked
\* for; an upload "not exceeding the initial uploadsize" never moves more.
Accounted ==
  /\ size - remaining = AtMost(now, size)
  /\ kind = "upload" => now <= size

\* The data rates of the progress reports add up: no byte is reported twice,
\* none before the last report is missing.
ReportsAddUp == reported = last /\ last <= now

\* A transfer that returns without error was performed to its end, was
\* cancelled by the caller, or had its size cut off to exactly the bound; and
\* cutting it off is never taken for an error of the network.
ResultIsTrue ==
  pc = "idle" /\ code # "none" =>
    /\ result = 0 <=> code # "other"
    /\ code = "WRITE_ERROR" => now = size

\* The transfer follows the protocol its callers rely on.
Protocol == INSTANCE Transfer WITH stage <- pc

FollowsProtocol == Protocol!Spec

\* "truncate (=cancel) the download if limit is reached" (traffic_curl.c:41):
\* of a download with a limit no byte beyond it is taken.
StopsAtLimit == kind = "download" /\ size > 0 => now <= size

=============================================================================

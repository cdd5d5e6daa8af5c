-------------------------- MODULE TrafficCurlProofs --------------------------
(***************************************************************************)
(* Proofs about TrafficCurl for transfers of any size in chunks of any     *)
(* size.  The properties of the runs are inductive together once it is     *)
(* said which codes belong to which stage, and how a download was cut off. *)
(***************************************************************************)
EXTENDS TrafficCurl, TLAPS

\* Codes appear when curl_easy_perform() returns, and libcurl gives up on a
\* callback only in a download whose limit has just been reached.
CodeInv ==
  /\ pc \in {"first", "perform", "progress"} => code = "none"
  /\ pc = "final" => code # "none"
  /\ code = "WRITE_ERROR" => kind = "download" /\ remaining = 0 /\ now = size

IInv == TypeOK /\ Accounted /\ ReportsAddUp /\ ResultIsTrue /\ CodeInv

LEMMA InitEstablishes == Init => IInv
<1> SUFFICES ASSUME Init PROVE IInv
  OBVIOUS
<1> QED
  BY TrafficCurlAssumption DEF Init, IInv, TypeOK, Accounted, ReportsAddUp, ResultIsTrue,
     CodeInv, AtMost, Codes

LEMMA NextPreserves == IInv /\ [Next]_vars => IInv'
<1> SUFFICES ASSUME IInv, [Next]_vars PROVE IInv'
  OBVIOUS
<1> USE TrafficCurlAssumption DEF IInv, TypeOK, Accounted, ReportsAddUp, ResultIsTrue,
     CodeInv, AtMost, Codes, Kinds
<1>1. ASSUME NEW k \in Kinds, NEW m \in 0..MaxSize, Begin(k, m) PROVE IInv'
  BY <1>1 DEF Begin
<1>2. CASE NoHandle
  BY <1>2 DEF NoHandle
<1>3. CASE FirstReport
  BY <1>3 DEF FirstReport
<1>4. ASSUME NEW c \in 1..MaxChunk, Receive(c) PROVE IInv'
  <2> DEFINE taken == Truncated(remaining, c)
  <2>1. taken \in Nat /\ taken <= c /\ (remaining > 0 => taken <= remaining)
    BY DEF Truncated
  <2>2. taken # c => remaining' = 0 /\ now' = size
    BY <1>4 DEF Receive, Truncated
  <2>3. remaining' \in 0..size /\ now' \in Nat /\ now <= now'
    BY <1>4, <2>1 DEF Receive
  <2>4. size - remaining' = AtMost(now', size)
    BY <1>4, <2>1 DEF Receive
  <2> QED
    BY <1>4, <2>2, <2>3, <2>4 DEF Receive, EndPerform
<1>5. ASSUME NEW c \in 1..MaxChunk, Send(c) PROVE IInv'
  BY <1>5 DEF Send, Generated
<1>6. CASE Xferinfo
  BY <1>6 DEF Xferinfo
<1>7. CASE Continue
  BY <1>7 DEF Continue
<1>8. CASE Cancel
  BY <1>8 DEF Cancel, EndPerform
<1>9. CASE PerformEnds
  BY <1>9 DEF PerformEnds, EndPerform
<1>10. CASE FinalReport
  BY <1>10 DEF FinalReport, Succeeded
<1>11. CASE UNCHANGED vars
  BY <1>11 DEF vars
<1> QED
  BY <1>1, <1>2, <1>3, <1>4, <1>5, <1>6, <1>7, <1>8, <1>9, <1>10, <1>11 DEF Next

\* Every reachable state satisfies the inductive invariant and has the types.
THEOREM Invariance == Spec => [](TypeOK /\ IInv)
<1>1. IInv => TypeOK
  BY DEF IInv
<1> QED
  BY <1>1, InitEstablishes, NextPreserves, PTL DEF Spec

\* The count of remaining bytes agrees with the bytes moved, and an upload
\* never exceeds the size asked for.
THEOREM AccountingCorrect == Spec => []Accounted
<1>1. IInv => Accounted
  BY DEF IInv
<1> QED
  BY <1>1, Invariance, PTL

\* The progress reports of a transfer add up to the bytes moved.
THEOREM ReportsCorrect == Spec => []ReportsAddUp
<1>1. IInv => ReportsAddUp
  BY DEF IInv
<1> QED
  BY <1>1, Invariance, PTL

\* A transfer returns without error exactly if it was performed to its end,
\* was cancelled, or had its size cut off to exactly the bound.
THEOREM ResultCorrect == Spec => []ResultIsTrue
<1>1. IInv => ResultIsTrue
  BY DEF IInv
<1> QED
  BY <1>1, Invariance, PTL

\* Every transfer makes its reports in the order its callers rely on.
THEOREM ProtocolImplemented == Spec => FollowsProtocol
<1>1. Init => Protocol!Init
  BY DEF Init, Protocol!Init
<1>2. [Next]_vars => [Protocol!Next]_pc
  <2> SUFFICES ASSUME [Next]_vars PROVE Protocol!Next \/ UNCHANGED pc
    OBVIOUS
  <2> USE DEF Protocol!Next, Protocol!Begin, Protocol!Start, Protocol!Report,
       Protocol!Continue, Protocol!Cancel, Protocol!Finish, Protocol!Return, Protocol!Step
  <2> QED
    BY DEF Next, vars, Begin, NoHandle, FirstReport, Receive, Send, Xferinfo, Continue,
       Cancel, PerformEnds, EndPerform, FinalReport
<1> QED
  BY <1>1, <1>2, PTL DEF Spec, FollowsProtocol, Protocol!Spec

=============================================================================

----------------------------- MODULE AtTtyProofs -----------------------------
(***************************************************************************)
(* Proofs about AtTty for a buffer and an input queue of any size, any     *)
(* number of commands and any limit of timeouts.  A call that is still     *)
(* reading has seen no final result code, so that its status is decided by *)
(* the last bytes it reads.                                                *)
(*                                                                         *)
(* A call's answer is its own: what it has read, what is queued and what   *)
(* the modem is saying are one stream of bytes (Stream).  If nothing was   *)
(* outstanding at the flush, the stream has nothing of an earlier command  *)
(* that could end the call, and at most one answer, to its own (OwnInv).   *)
(***************************************************************************)
EXTENDS AtTty, SequenceTheorems, TLAPS

Calling == pc \notin {"closed", "idle"}

CallInv ==
  Calling => /\ result = "NONE"
             /\ nof_timeouts < n
             /\ Verdict(Text(resp)) = "NONE"
             /\ pc \in {"flush", "write"} => resp = <<>>

\* What cannot end a command c: no final word, and of earlier commands.
Foreign(s, c) ==
  \A j \in 1..Len(s) : s[j].cmd < c /\ s[j].sym \in {"TEXT", "CRLF"}

\* An answer a to command c, in one piece among what is foreign.
Carries(s, c, a) ==
  \E k \in 0..(Len(s) - Len(a)) :
    /\ \A j \in 1..Len(a) : s[k + j] = [cmd |-> c, sym |-> a[j]]
    /\ \A j \in 1..Len(s) :
         j \notin (k + 1)..(k + Len(a)) => s[j].cmd < c /\ s[j].sym \in {"TEXT", "CRLF"}

\* What the call has read, and what it is yet to read.
Stream == resp \o input \o speaking

\* If nothing that an earlier call gave up is outstanding: between calls the
\* modem has at most the rest of an error line to say, and what a call reads
\* is foreign but for at most one answer to its command.
OwnInv ==
  ~abandoned =>
    /\ pc \in {"closed", "idle"} => inbox = <<>> /\ Foreign(speaking, n + 1)
    /\ pc \in {"flush", "write"} => inbox = <<>> /\ Foreign(speaking, n)
    /\ pc = "write" => Foreign(input, n)
    /\ pc \in {"select", "read"} =>
         \/ inbox \in {<<>>, <<n>>} /\ Foreign(Stream, n)
         \/ inbox = <<>> /\ \E a \in Answers : Carries(Stream, n, a)

IInv == TypeOK /\ FitsBuffer /\ CallInv

-----------------------------------------------------------------------------
(* Lemmas about sequences of bytes                                         *)

\* What a call reads at once is a sequence of bytes, and what it leaves too.
LEMMA CutTypes ==
  ASSUME NEW s \in Seq(Bytes), NEW a \in Nat, a <= Len(s)
  PROVE  /\ SubSeq(s, 1, a) \in Seq(Bytes)
         /\ Len(SubSeq(s, 1, a)) = a
         /\ SubSeq(s, a + 1, Len(s)) \in Seq(Bytes)
<1>1. \A j \in 1..a : s[j] \in Bytes
  OBVIOUS
<1>2. \A j \in (a + 1)..Len(s) : s[j] \in Bytes
  OBVIOUS
<1>3. SubSeq(s, 1, a) \in Seq(Bytes) /\ Len(SubSeq(s, 1, a)) = a
  BY <1>1, SubSeqProperties
<1>4. SubSeq(s, a + 1, Len(s)) \in Seq(Bytes)
  BY <1>2, SubSeqProperties
<1> QED
  BY <1>3, <1>4

\* What is read fits into the rest of the buffer.
LEMMA GotFits ==
  ASSUME IInv
  PROVE  /\ Got \in Seq(Bytes)
         /\ Len(Got) \in Nat
         /\ Len(resp) + Len(Got) <= BufSize - 1
         /\ SubSeq(input, Len(Got) + 1, Len(input)) \in Seq(Bytes)
<1> DEFINE a == IF Len(input) < Room THEN Len(input) ELSE Room
<1>1. Room \in Nat
  BY AtTtyAssumption DEF IInv, TypeOK, FitsBuffer, Room
<1>2. a \in Nat /\ a <= Len(input) /\ a <= Room
  BY <1>1 DEF IInv, TypeOK
<1>3. Got = SubSeq(input, 1, a)
  BY DEF Got
<1>4. input \in Seq(Bytes)
  BY DEF IInv, TypeOK
<1>5. /\ SubSeq(input, 1, a) \in Seq(Bytes)
      /\ Len(SubSeq(input, 1, a)) = a
      /\ SubSeq(input, a + 1, Len(input)) \in Seq(Bytes)
  <2> HIDE DEF a
  <2> QED
    BY <1>2, <1>4, CutTypes
<1>6. Len(resp) + a <= BufSize - 1
  BY <1>1, <1>2, AtTtyAssumption DEF Room, IInv, TypeOK
<1> QED
  BY <1>2, <1>3, <1>5, <1>6

\* The symbols of a sequence of bytes are a response of the interface.
LEMMA TextType ==
  ASSUME NEW r \in Seq(Bytes)
  PROVE  Text(r) \in Seq(Abstract!Symbols)
<1>1. DOMAIN r = 1..Len(r) /\ Len(r) \in Nat
  OBVIOUS
<1>2. ASSUME NEW j \in 1..Len(r) PROVE r[j].sym \in Abstract!Symbols
  <2>1. r[j] \in Bytes
    OBVIOUS
  <2> QED
    BY <2>1 DEF Bytes
<1>3. Text(r) \in [1..Len(r) -> Abstract!Symbols]
  BY <1>1, <1>2, Zenon DEF Text
<1> QED
  BY <1>1, <1>3, SeqDef, Zenon

\* An empty response has no final result code.
LEMMA NoVerdictYet == Verdict(Text(<<>>)) = "NONE"
<1>1. Text(<<>>) = <<>>
  BY DEF Text
<1> QED
  BY <1>1 DEF Verdict, Abstract!HasOk, Abstract!HasError, Abstract!Line

\* The answers of the modem are sequences of bytes.
LEMMA SaidType ==
  ASSUME NEW c \in 1..MaxCommands, NEW answer \in Answers
  PROVE  Said(c, answer) \in Seq(Bytes)
<1>1. answer \in Seq(Abstract!Symbols)
  <2>1. CASE answer = <<"OK", "CRLF">>
    BY <2>1 DEF Abstract!Symbols
  <2>2. CASE answer = <<"TEXT", "OK", "CRLF">>
    BY <2>2 DEF Abstract!Symbols
  <2>3. CASE answer = <<"ERROR", "CRLF">>
    BY <2>3 DEF Abstract!Symbols
  <2>4. CASE answer = <<"CME", "TEXT", "CRLF">>
    BY <2>4 DEF Abstract!Symbols
  <2> QED
    BY <2>1, <2>2, <2>3, <2>4 DEF Answers
<1>2. DOMAIN answer = 1..Len(answer) /\ Len(answer) \in Nat
  BY <1>1
<1>3. \A j \in 1..Len(answer) : [cmd |-> c, sym |-> answer[j]] \in Bytes
  BY <1>1, AtTtyAssumption DEF Bytes
<1>4. Said(c, answer) \in [1..Len(answer) -> Bytes]
  BY <1>2, <1>3, Zenon DEF Said
<1> QED
  BY <1>2, <1>4, SeqDef, Zenon

-----------------------------------------------------------------------------
(* The inductive invariant                                                 *)

LEMMA InitEstablishes == Init => IInv
<1> SUFFICES ASSUME Init PROVE IInv
  OBVIOUS
<1>1. TypeOK
  <2>1. abandoned \in BOOLEAN
    BY DEF Init
  <2> QED
    BY <2>1, AtTtyAssumption DEF Init, TypeOK
<1>2. FitsBuffer /\ CallInv
  BY AtTtyAssumption DEF Init, FitsBuffer, CallInv, Calling
<1> QED
  BY <1>1, <1>2 DEF IInv

\* The steps of the modem and the kernel.
LEMMA ModemPreserves == IInv /\ ModemNext => IInv'
<1> SUFFICES ASSUME IInv, ModemNext PROVE IInv'
  OBVIOUS
<1> USE AtTtyAssumption DEF IInv, TypeOK, FitsBuffer, CallInv, Calling, host
<1>1. CASE StartAnswer
  <2>1. Head(inbox) \in 1..MaxCommands /\ Tail(inbox) \in Seq(1..MaxCommands)
    BY <1>1, HeadTailProperties DEF StartAnswer
  <2>2. speaking' \in Seq(Bytes)
    BY <1>1, <2>1, SaidType DEF StartAnswer
  <2> QED
    BY <1>1, <2>1, <2>2 DEF StartAnswer
<1>2. CASE Forget
  BY <1>2, HeadTailProperties DEF Forget
<1>3. CASE Arrive
  <2>1. Head(speaking) \in Bytes /\ Tail(speaking) \in Seq(Bytes)
    BY <1>3, HeadTailProperties DEF Arrive
  <2>2. input' \in Seq(Bytes)
    BY <1>3, <2>1, AppendProperties DEF Arrive
  <2> QED
    BY <1>3, <2>1, <2>2 DEF Arrive
<1>4. CASE Unasked
  <2>1. [cmd |-> 0, sym |-> "TEXT"] \in Bytes
    BY DEF Bytes, Abstract!Symbols
  <2>2. input' \in Seq(Bytes)
    BY <1>4, <2>1, AppendProperties DEF Unasked
  <2> QED
    BY <1>4, <2>2 DEF Unasked, modem
<1> QED
  BY <1>1, <1>2, <1>3, <1>4 DEF ModemNext

\* The steps of a call.
LEMMA CommandPreserves == IInv /\ CommandNext => IInv'
<1> SUFFICES ASSUME IInv, CommandNext PROVE IInv'
  OBVIOUS
<1> USE AtTtyAssumption DEF IInv, TypeOK, FitsBuffer, CallInv, Calling, modem, Return,
     Abandon, Abstract!Statuses
<1>1. CASE Refused \/ FlushFails \/ WriteFails
  <2>1. abandoned' \in BOOLEAN
    BY <1>1, Zenon DEF Refused, FlushFails, WriteFails
  <2> QED
    BY <1>1, <2>1 DEF Refused, FlushFails, WriteFails
<1>2. CASE Flush
  <2>1. abandoned' \in BOOLEAN
    BY <1>2, Zenon DEF Flush
  <2>2. input' \in Seq(Bytes)
    BY <1>2 DEF Flush
  <2> QED
    BY <1>2, <2>1, <2>2 DEF Flush
<1>3. CASE Write
  <2>1. abandoned' \in BOOLEAN
    BY <1>3, Zenon DEF Write
  <2>2. n \in 1..MaxCommands
    BY <1>3 DEF Write
  <2>3. inbox' \in Seq(1..MaxCommands)
    BY <1>3, <2>2, AppendProperties DEF Write
  <2> QED
    BY <1>3, <2>1, <2>3 DEF Write
<1>4. CASE WriteShort \/ Ready
  <2>1. abandoned' \in BOOLEAN
    BY <1>4, Zenon DEF WriteShort, Ready
  <2> QED
    BY <1>4, <2>1 DEF WriteShort, Ready
<1>5. CASE SelectFails \/ ReadNothing \/ ReadFails
  <2>1. abandoned' \in BOOLEAN
    BY <1>5, Zenon DEF SelectFails, ReadNothing, ReadFails
  <2> QED
    BY <1>5, <2>1 DEF SelectFails, ReadNothing, ReadFails
<1>6. CASE Timeout
  <2>1. abandoned' \in BOOLEAN
    BY <1>6, Zenon DEF Timeout
  <2> QED
    BY <1>6, <2>1 DEF Timeout
<1>7. CASE Read
  <2>1. abandoned' \in BOOLEAN
    BY <1>7, Zenon DEF Read
  <2>2. /\ Got \in Seq(Bytes)
        /\ Len(resp) + Len(Got) <= BufSize - 1
        /\ SubSeq(input, Len(Got) + 1, Len(input)) \in Seq(Bytes)
    BY GotFits
  <2>3. resp' \in Seq(Bytes) /\ Len(resp') = Len(resp) + Len(Got)
    BY <1>7, <2>2, ConcatProperties DEF Read
  <2>4. input' \in Seq(Bytes)
    BY <1>7, <2>2 DEF Read
  <2>5. Verdict(Text(resp')) \in {"SUCCESS", "FAILED", "NONE"}
    BY DEF Verdict
  <2>6. TypeOK'
    <3> HIDE DEF Read
    <3>1. pc' \in {"select", "idle"} /\ result' \in Abstract!Statuses \cup {"NONE"}
      BY <1>7, <2>5 DEF Read
    <3>2. /\ nof_timeouts' = 0 /\ n' = n
          /\ inbox' = inbox /\ speaking' = speaking
      BY <1>7 DEF Read
    <3> QED
      BY <2>1, <2>3, <2>4, <3>1, <3>2
  <2>7. FitsBuffer'
    BY <2>2, <2>3
  <2>8. CallInv'
    <3>1. pc' = "idle" \/ (pc' = "select" /\ Verdict(Text(resp')) = "NONE" /\ result' = result)
      BY <1>7 DEF Read
    <3>2. nof_timeouts' = 0 /\ n' = n /\ pc = "read"
      BY <1>7 DEF Read
    <3>3. n > 0 /\ result = "NONE"
      BY <3>2
    <3>4. CASE pc' = "idle"
      BY <3>4
    <3>5. CASE pc' = "select" /\ Verdict(Text(resp')) = "NONE" /\ result' = result
      <4>1. Verdict(Text(resp))' = "NONE"
        BY <3>5
      <4> QED
        BY <3>2, <3>3, <3>5, <4>1
    <3> QED
      BY <3>1, <3>4, <3>5
  <2> QED
    BY <2>6, <2>7, <2>8
<1> QED
  BY <1>1, <1>2, <1>3, <1>4, <1>5, <1>6, <1>7 DEF CommandNext

LEMMA NextPreserves == IInv /\ [Next]_vars => IInv'
<1> SUFFICES ASSUME IInv, [Next]_vars PROVE IInv'
  OBVIOUS
<1> USE AtTtyAssumption DEF IInv, TypeOK, FitsBuffer, CallInv, Calling, modem, host
<1>1. CASE Open
  <2>1. abandoned' \in BOOLEAN
    BY <1>1, Zenon DEF Open
  <2> QED
    BY <1>1, <2>1 DEF Open
<1>2. CASE Close
  <2>1. abandoned' \in BOOLEAN
    BY <1>2, Zenon DEF Close
  <2>2. input' \in Seq(Bytes)
    <3>1. input' = input \/ input' = <<>>
      BY <1>2 DEF Close
    <3>2. input \in Seq(Bytes) /\ <<>> \in Seq(Bytes)
      OBVIOUS
    <3> QED
      BY <3>1, <3>2, Zenon
  <2> QED
    BY <1>2, <2>1, <2>2 DEF Close
<1>3. CASE Call
  <2>1. abandoned' \in BOOLEAN
    BY <1>3, Zenon DEF Call
  <2>2. resp' = <<>> /\ Len(resp') = 0 /\ resp' \in Seq(Bytes)
    BY <1>3 DEF Call
  <2>3. Verdict(Text(resp))' = "NONE"
    BY <2>2, NoVerdictYet
  <2> QED
    BY <1>3, <2>1, <2>2, <2>3 DEF Call
<1>4. CASE CommandNext
  BY <1>4, CommandPreserves
<1>5. CASE ModemNext
  BY <1>5, ModemPreserves
<1>6. CASE UNCHANGED vars
  BY <1>6 DEF vars
<1> QED
  BY <1>1, <1>2, <1>3, <1>4, <1>5, <1>6 DEF Next

\* Every reachable state satisfies the inductive invariant and has the types.
THEOREM Invariance == Spec => [](TypeOK /\ IInv)
<1>1. IInv => TypeOK
  BY DEF IInv
<1> QED
  BY <1>1, InitEstablishes, NextPreserves, PTL DEF Spec

\* The response and its NUL never leave the buffer, whatever the modem sends
\* and however it is cut into reads.
THEOREM BufferSafety == Spec => []FitsBuffer
<1>1. IInv => FitsBuffer
  BY DEF IInv
<1> QED
  BY <1>1, Invariance, PTL

-----------------------------------------------------------------------------
(* The stream of bytes                                                     *)

LEMMA Halves ==
  ASSUME NEW s \in Seq(Bytes), NEW a \in Nat, a <= Len(s)
  PROVE  SubSeq(s, 1, a) \o SubSeq(s, a + 1, Len(s)) = s
<1>1. 1 \in 1..(Len(s) + 1) /\ a \in (1 - 1)..Len(s) /\ Len(s) \in a..Len(s)
  OBVIOUS
<1>2. SubSeq(s, 1, a) \o SubSeq(s, a + 1, Len(s)) = SubSeq(s, 1, Len(s))
  BY <1>1, ConcatAdjacentSubSeq, Zenon
<1> QED
  BY <1>2, SubSeqFull

LEMMA Rejoin ==
  ASSUME NEW r \in Seq(Bytes), NEW g \in Seq(Bytes), NEW u \in Seq(Bytes)
  PROVE  (r \o g) \o u = r \o (g \o u)
OBVIOUS

\* What the call reads and what it leaves are, joined again, what there was.
LEMMA StreamRead ==
  ASSUME IInv, Read, OwnInv
  PROVE  /\ resp' \in Seq(Bytes) /\ input' \in Seq(Bytes)
         /\ resp' \o input' = resp \o input
         /\ Stream' = Stream
<1>1. /\ Got \in Seq(Bytes) /\ Len(Got) \in Nat /\ Len(Got) <= Len(input)
      /\ SubSeq(input, Len(Got) + 1, Len(input)) \in Seq(Bytes)
      /\ Got = SubSeq(input, 1, Len(Got))
  <2> DEFINE a == IF Len(input) < Room THEN Len(input) ELSE Room
  <2>1. Room \in Nat
    BY AtTtyAssumption DEF IInv, TypeOK, FitsBuffer, Room
  <2>2. a \in Nat /\ a <= Len(input)
    BY <2>1 DEF IInv, TypeOK
  <2>3. Got = SubSeq(input, 1, a)
    BY DEF Got
  <2>4. input \in Seq(Bytes)
    BY DEF IInv, TypeOK
  <2> HIDE DEF a
  <2> QED
    BY <2>2, <2>3, <2>4, CutTypes
<1>2. input \in Seq(Bytes) /\ resp \in Seq(Bytes) /\ speaking \in Seq(Bytes)
  BY DEF IInv, TypeOK
<1>3. Got \o SubSeq(input, Len(Got) + 1, Len(input)) = input
  BY <1>1, <1>2, Halves
<1>4. /\ resp' = resp \o Got /\ input' = SubSeq(input, Len(Got) + 1, Len(input))
      /\ speaking' = speaking
  BY DEF Read, modem
<1>5. resp' \in Seq(Bytes) /\ input' \in Seq(Bytes)
  BY <1>1, <1>2, <1>4, ConcatProperties
<1>6. resp' \o input' = resp \o input
  <2>1. (resp \o Got) \o input' = resp \o (Got \o input')
    <3>1. resp \in Seq(Bytes) /\ Got \in Seq(Bytes) /\ input' \in Seq(Bytes)
      BY <1>1, <1>2, <1>5
    <3> QED
      BY <3>1, Rejoin
  <2>2. Got \o input' = input
    BY <1>3, <1>4, Zenon
  <2> QED
    BY <1>4, <2>1, <2>2, Zenon
<1> QED
  BY <1>4, <1>5, <1>6 DEF Stream

\* In a stream of foreign bytes there is no final result code.
LEMMA ForeignEndsNothing ==
  ASSUME NEW r \in Seq(Bytes), NEW c, Foreign(r, c)
  PROVE  Verdict(Text(r)) = "NONE"
<1>1. \A j \in 1..Len(r) : Text(r)[j] \in {"TEXT", "CRLF"}
  BY DEF Foreign, Text
<1>2. Len(Text(r)) = Len(r)
  BY TextType DEF Text
<1> QED
  BY <1>1, <1>2 DEF Verdict, Abstract!HasOk, Abstract!HasError, Abstract!Line

LEMMA AnswerShapes ==
  ASSUME NEW a \in Answers
  PROVE  /\ a \in Seq(Abstract!Symbols) /\ Len(a) \in {2, 3}
         /\ \A j \in 1..Len(a) : a[j] = "OK" => j = Len(a) - 1 /\ Abstract!HasOk(a)
         /\ \A j \in 1..Len(a) : a[j] = "ERROR" => j = 1 /\ a = <<"ERROR", "CRLF">>
         /\ \A j \in 1..Len(a) : a[j] = "CME" => j = 1 /\ a = <<"CME", "TEXT", "CRLF">>
<1> USE DEF Abstract!HasOk, Abstract!Line, Abstract!Symbols
<1>1. CASE a = <<"OK", "CRLF">>
  BY <1>1
<1>2. CASE a = <<"TEXT", "OK", "CRLF">>
  BY <1>2
<1>3. CASE a = <<"ERROR", "CRLF">>
  BY <1>3
<1>4. CASE a = <<"CME", "TEXT", "CRLF">>
  BY <1>4
<1> QED
  BY <1>1, <1>2, <1>3, <1>4 DEF Answers

\* What is foreign, or carries an answer, stays so when foreign bytes follow.
LEMMA ForeignAfter ==
  ASSUME NEW s \in Seq(Bytes), NEW t \in Seq(Bytes), NEW c \in Nat, Foreign(t, c)
  PROVE  /\ Foreign(s, c) => Foreign(s \o t, c)
         /\ \A a \in Answers : Carries(s, c, a) => Carries(s \o t, c, a)
<1> DEFINE u == s \o t
<1>1. /\ Len(u) = Len(s) + Len(t) /\ Len(s) \in Nat /\ Len(t) \in Nat
      /\ \A j \in 1..Len(u) :
           \/ j \in 1..Len(s) /\ u[j] = s[j]
           \/ j \notin 1..Len(s) /\ u[j].cmd < c /\ u[j].sym \in {"TEXT", "CRLF"}
      /\ \A j \in 1..Len(s) : u[j] = s[j]
  BY ConcatProperties DEF Foreign
<1> HIDE DEF u
<1>2. Foreign(s, c) => Foreign(u, c)
  BY <1>1 DEF Foreign
<1>3. ASSUME NEW a \in Answers, Carries(s, c, a) PROVE Carries(u, c, a)
  <2>1. PICK k \in 0..(Len(s) - Len(a)) :
          /\ \A j \in 1..Len(a) : s[k + j] = [cmd |-> c, sym |-> a[j]]
          /\ \A j \in 1..Len(s) :
               j \notin (k + 1)..(k + Len(a)) => s[j].cmd < c /\ s[j].sym \in {"TEXT", "CRLF"}
    BY <1>3, Zenon DEF Carries
  <2>2. Len(a) \in Nat
    BY AnswerShapes
  <2>3. k \in 0..(Len(u) - Len(a))
    BY <1>1, <2>2
  <2>4. \A j \in 1..Len(a) : u[k + j] = [cmd |-> c, sym |-> a[j]]
    <3>1. ASSUME NEW j \in 1..Len(a) PROVE u[k + j] = s[k + j]
      BY <1>1, <2>2
    <3> QED
      BY <2>1, <3>1
  <2>5. ASSUME NEW j \in 1..Len(u), j \notin (k + 1)..(k + Len(a))
        PROVE  u[j].cmd < c /\ u[j].sym \in {"TEXT", "CRLF"}
    BY <1>1, <2>1, <2>5
  <2> QED
    BY <2>3, <2>4, <2>5, Zenon DEF Carries
<1> QED
  BY <1>2, <1>3 DEF u

\* An answer that follows foreign bytes is carried.
LEMMA AnswerAfter ==
  ASSUME NEW s \in Seq(Bytes), NEW c \in 1..MaxCommands, NEW a \in Answers, Foreign(s, c)
  PROVE  Carries(s \o Said(c, a), c, a)
<1> DEFINE t == Said(c, a)
           u == s \o t
<1>1. Len(a) \in Nat /\ DOMAIN a = 1..Len(a)
  BY AnswerShapes
<1>2. t \in Seq(Bytes)
  BY SaidType
<1>3. Len(t) = Len(a) /\ \A j \in 1..Len(a) : t[j] = [cmd |-> c, sym |-> a[j]]
  BY <1>1, <1>2 DEF Said
<1> HIDE DEF t
<1>4. /\ Len(u) = Len(s) + Len(a) /\ Len(s) \in Nat
      /\ \A j \in 1..Len(s) : u[j] = s[j]
      /\ \A j \in 1..Len(a) : u[Len(s) + j] = t[j]
  <2>1. /\ Len(u) = Len(s) + Len(t) /\ Len(s) \in Nat
        /\ \A j \in 1..(Len(s) + Len(t)) : u[j] = IF j <= Len(s) THEN s[j] ELSE t[j - Len(s)]
    BY <1>2, ConcatProperties
  <2> HIDE DEF u
  <2> QED
    BY <1>1, <1>3, <2>1
<1> HIDE DEF u
<1>5. Len(s) \in 0..(Len(u) - Len(a))
  BY <1>1, <1>4
<1>6. \A j \in 1..Len(a) : u[Len(s) + j] = [cmd |-> c, sym |-> a[j]]
  BY <1>3, <1>4
<1>7. ASSUME NEW j \in 1..Len(u), j \notin (Len(s) + 1)..(Len(s) + Len(a))
      PROVE  u[j].cmd < c /\ u[j].sym \in {"TEXT", "CRLF"}
  BY <1>1, <1>4, <1>7 DEF Foreign
<1>8. Carries(u, c, a)
  BY <1>5, <1>6, <1>7, Zenon DEF Carries
<1> QED
  BY <1>8 DEF u, t

\* When a prefix r of a stream that carries an answer ends in a result code, it
\* holds the answer up to the code, and what follows can end no later command.
LEMMA VerdictOwn ==
  ASSUME NEW r \in Seq(Bytes), NEW s \in Seq(Bytes), NEW c \in Nat, NEW a \in Answers,
         Carries(r \o s, c, a), Verdict(Text(r)) # "NONE"
  PROVE  /\ \E m \in 1..Len(a) :
              /\ Holds(r, c, SubSeq(a, 1, m))
              /\ Verdict(Text(r)) = "SUCCESS" => m = Len(a) /\ Abstract!HasOk(a)
              /\ Verdict(Text(r)) = "FAILED" => Abstract!HasError(SubSeq(a, 1, m))
         /\ Foreign(s, c + 1)
<1> DEFINE u == r \o s
<1>1. /\ Len(u) = Len(r) + Len(s) /\ Len(r) \in Nat /\ Len(s) \in Nat
      /\ \A j \in 1..Len(r) : u[j] = r[j]
      /\ \A j \in 1..Len(s) : u[Len(r) + j] = s[j]
  BY ConcatProperties
<1>2. PICK k \in 0..(Len(u) - Len(a)) :
        /\ \A j \in 1..Len(a) : u[k + j] = [cmd |-> c, sym |-> a[j]]
        /\ \A j \in 1..Len(u) :
             j \notin (k + 1)..(k + Len(a)) => u[j].cmd < c /\ u[j].sym \in {"TEXT", "CRLF"}
  BY Zenon DEF Carries
<1> HIDE DEF u
<1>3. /\ a \in Seq(Abstract!Symbols) /\ Len(a) \in {2, 3}
      /\ \A j \in 1..Len(a) : a[j] = "OK" => j = Len(a) - 1 /\ Abstract!HasOk(a)
      /\ \A j \in 1..Len(a) : a[j] = "ERROR" => j = 1 /\ a = <<"ERROR", "CRLF">>
      /\ \A j \in 1..Len(a) : a[j] = "CME" => j = 1 /\ a = <<"CME", "TEXT", "CRLF">>
  BY AnswerShapes
<1>4. k \in Nat /\ k + Len(a) <= Len(u)
  BY <1>1, <1>3
<1>5. Len(Text(r)) = Len(r) /\ \A j \in 1..Len(r) : Text(r)[j] = u[j].sym
  BY <1>1, TextType DEF Text
\* Where a final word is, the answer is.
<1>6. ASSUME NEW j \in 1..Len(r), Text(r)[j] \in {"OK", "ERROR", "CME"}
      PROVE  j - k \in 1..Len(a) /\ a[j - k] = Text(r)[j]
  <2>1. j \in 1..Len(u) /\ u[j].sym \notin {"TEXT", "CRLF"}
    BY <1>1, <1>5, <1>6
  <2>2. j \in (k + 1)..(k + Len(a))
    BY <1>2, <2>1
  <2>3. j - k \in 1..Len(a) /\ k + (j - k) = j
    BY <1>3, <1>4, <2>2
  <2>4. u[j] = [cmd |-> c, sym |-> a[j - k]]
    BY <1>2, <2>3
  <2> QED
    BY <1>5, <2>3, <2>4
\* The prefix holds what of the answer is in it.
<1>7. ASSUME NEW m \in 1..Len(a), k + m <= Len(r), m = Len(a) \/ k + m = Len(r)
      PROVE  Holds(r, c, SubSeq(a, 1, m))
  <2> DEFINE p == SubSeq(a, 1, m)
  <2>1. m \in Nat /\ Len(p) = m /\ \A j \in 1..m : p[j] = a[j]
    BY <1>3
  <2> HIDE DEF p
  <2>2. k \in 0..(Len(r) - Len(p))
    BY <1>1, <1>4, <1>7, <2>1
  <2>3. \A j \in 1..Len(p) : r[k + j] = [cmd |-> c, sym |-> p[j]]
    <3>1. ASSUME NEW j \in 1..m PROVE j \in 1..Len(a) /\ k + j \in 1..Len(r)
      BY <1>1, <1>3, <1>4, <1>7, <2>1
    <3> QED
      BY <1>1, <1>2, <2>1, <3>1
  <2>4. ASSUME NEW j \in 1..Len(r), r[j].cmd = c PROVE j \in (k + 1)..(k + Len(p))
    <3>1. j \in 1..Len(u) /\ u[j].cmd = c
      BY <1>1, <2>4
    <3>2. ~(u[j].cmd < c)
      BY <3>1
    <3>3. j \in (k + 1)..(k + Len(a))
      BY <1>2, <3>1, <3>2
    <3> QED
      BY <1>3, <1>4, <1>7, <2>1, <3>3
  <2>5. Holds(r, c, p)
    BY <2>2, <2>3, <2>4, Zenon DEF Holds
  <2> QED
    BY <2>5 DEF p
\* Beyond the prefix there is none of the answer's final words.
<1>8. ASSUME NEW m \in 1..Len(a), k + m <= Len(r),
             \A j \in 1..Len(a) : j > m => a[j] \in {"TEXT", "CRLF"}
      PROVE  Foreign(s, c + 1)
  <2> SUFFICES ASSUME NEW i \in 1..Len(s)
               PROVE  s[i].cmd < c + 1 /\ s[i].sym \in {"TEXT", "CRLF"}
    BY DEF Foreign
  <2>1. Len(r) + i \in 1..Len(u) /\ s[i] = u[Len(r) + i]
    BY <1>1
  <2>2. s[i].cmd \in Nat
    <3>1. s[i] \in Bytes
      OBVIOUS
    <3> QED
      BY <3>1, AtTtyAssumption DEF Bytes
  <2>3. CASE Len(r) + i \notin (k + 1)..(k + Len(a))
    BY <1>2, <2>1, <2>2, <2>3
  <2>4. CASE Len(r) + i \in (k + 1)..(k + Len(a))
    <3>1. Len(r) + i - k \in 1..Len(a) /\ Len(r) + i - k > m /\ k + (Len(r) + i - k) = Len(r) + i
      BY <1>1, <1>3, <1>4, <1>8, <2>4
    <3>2. s[i] = [cmd |-> c, sym |-> a[Len(r) + i - k]]
      BY <1>2, <2>1, <3>1
    <3> QED
      BY <1>8, <3>1, <3>2
  <2> QED
    BY <2>3, <2>4
<1>9. CASE Verdict(Text(r)) = "SUCCESS"
  <2>1. PICK j \in 1..Len(Text(r)) : j < Len(Text(r)) /\ Text(r)[j] = "OK"
    BY <1>9 DEF Verdict, Abstract!HasOk, Abstract!Line
  <2>2. j \in 1..Len(r) /\ j + 1 <= Len(r)
    BY <1>1, <1>5, <2>1
  <2>3. j - k = Len(a) - 1 /\ Abstract!HasOk(a)
    BY <1>3, <1>6, <2>1, <2>2
  <2>4. k + Len(a) <= Len(r) /\ Len(a) \in 1..Len(a)
    <3>1. Len(a) \in Nat /\ Len(a) > 0
      BY <1>3
    <3> QED
      BY <1>1, <1>4, <2>2, <2>3, <3>1
  <2>5. Holds(r, c, SubSeq(a, 1, Len(a))) /\ Foreign(s, c + 1)
    BY <1>3, <1>7, <1>8, <2>4
  <2> QED
    BY <1>9, <2>3, <2>4, <2>5
<1>10. CASE Verdict(Text(r)) = "FAILED"
  <2>1. \/ Abstract!Line(Text(r), "ERROR")
        \/ \E j \in 1..Len(Text(r)) : Text(r)[j] = "CME"
    BY <1>10 DEF Verdict, Abstract!HasError
  <2>2. CASE Abstract!Line(Text(r), "ERROR")
    <3>1. PICK j \in 1..Len(Text(r)) : j < Len(Text(r)) /\ Text(r)[j] = "ERROR"
      BY <2>2 DEF Abstract!Line
    <3>2. j \in 1..Len(r) /\ j + 1 <= Len(r)
      BY <1>1, <1>5, <3>1
    <3>3. j - k = 1 /\ a = <<"ERROR", "CRLF">>
      BY <1>3, <1>6, <3>1, <3>2
    <3>4. Len(a) = 2 /\ k + 2 <= Len(r) /\ SubSeq(a, 1, 2) = a /\ Abstract!HasError(a)
      <4>1. Len(a) = 2 /\ SubSeq(a, 1, 2) = a
        <5>1. Len(a) = 2
          BY <3>3
        <5>2. SubSeq(a, 1, Len(a)) = a
          BY <1>3, SubSeqFull
        <5> QED
          BY <5>1, <5>2
      <4>2. Abstract!HasError(a)
        BY <3>3 DEF Abstract!HasError, Abstract!Line
      <4>3. k + 2 <= Len(r)
        BY <1>4, <3>2, <3>3
      <4> QED
        BY <4>1, <4>2, <4>3
    <3>5. Holds(r, c, SubSeq(a, 1, 2)) /\ Foreign(s, c + 1)
      BY <1>7, <1>8, <3>4
    <3>6. 2 \in 1..Len(a) /\ Abstract!HasError(SubSeq(a, 1, 2))
      <4>1. 2 \in 1..Len(a)
        BY <3>4
      <4> QED
        BY <3>4, <4>1, Zenon
    <3> QED
      BY <1>10, <3>5, <3>6, Zenon
  <2>3. CASE \E j \in 1..Len(Text(r)) : Text(r)[j] = "CME"
    <3>1. PICK j \in 1..Len(r) : Text(r)[j] = "CME"
      BY <1>5, <2>3
    <3>2. j - k = 1 /\ a = <<"CME", "TEXT", "CRLF">>
      BY <1>3, <1>6, <3>1
    <3> DEFINE m == IF k + 3 <= Len(r) THEN 3 ELSE Len(r) - k
    <3>3. Len(a) = 3 /\ m \in 1..3 /\ k + m <= Len(r) /\ (m = 3 \/ k + m = Len(r))
      BY <1>1, <1>4, <3>1, <3>2
    <3> HIDE DEF m
    <3>4. Abstract!HasError(SubSeq(a, 1, m))
      <4>1. Len(SubSeq(a, 1, m)) = m /\ SubSeq(a, 1, m)[1] = "CME"
        BY <1>3, <3>2, <3>3
      <4> QED
        BY <3>3, <4>1 DEF Abstract!HasError
    <3>5. \A i \in 1..Len(a) : i > m => a[i] \in {"TEXT", "CRLF"}
      BY <3>2, <3>3
    <3>6. Holds(r, c, SubSeq(a, 1, m)) /\ Foreign(s, c + 1)
      BY <1>7, <1>8, <3>3, <3>5
    <3> QED
      BY <1>10, <3>3, <3>4, <3>6
  <2> QED
    BY <2>1, <2>2, <2>3
<1> QED
  BY <1>9, <1>10 DEF Verdict

-----------------------------------------------------------------------------
(* Answers belong to their commands                                        *)

AnswerInv == IInv /\ OwnInv /\ AnswersOwnCommand

\* Without bytes there are no foreign ones that could end a command.
LEMMA NothingForeign == ASSUME NEW c PROVE Foreign(<<>>, c)
BY DEF Foreign

\* What the modem and the kernel do to the stream of a call in progress.
LEMMA ModemKeepsAnswers == ASSUME AnswerInv, ModemNext PROVE OwnInv' /\ AnswersOwnCommand'
<1>1. UNCHANGED host
  BY DEF ModemNext, StartAnswer, Forget, Arrive, Unasked
<1>2. AnswersOwnCommand'
  BY <1>1 DEF AnswerInv, AnswersOwnCommand, host
<1>3. /\ resp \in Seq(Bytes) /\ input \in Seq(Bytes) /\ speaking \in Seq(Bytes)
      /\ n \in Nat /\ (Calling => n > 0)
      /\ inbox \in Seq(1..MaxCommands)
  BY AtTtyAssumption DEF AnswerInv, IInv, TypeOK, CallInv
<1>4. OwnInv'
  <2> SUFFICES ASSUME ~abandoned PROVE OwnInv'
    BY <1>1 DEF host, OwnInv
  <2>1. /\ pc \in {"closed", "idle"} => inbox = <<>> /\ Foreign(speaking, n + 1)
        /\ pc \in {"flush", "write"} => inbox = <<>> /\ Foreign(speaking, n)
        /\ pc = "write" => Foreign(input, n)
        /\ pc \in {"select", "read"} =>
             \/ inbox \in {<<>>, <<n>>} /\ Foreign(Stream, n)
             \/ inbox = <<>> /\ \E a \in Answers : Carries(Stream, n, a)
    BY DEF AnswerInv, OwnInv
  <2>2. CASE StartAnswer
    <3>1. /\ speaking = <<>> /\ inbox # <<>> /\ inbox' = Tail(inbox) /\ UNCHANGED <<resp, input>>
      BY <2>2 DEF StartAnswer, host
    <3>2. pc \in {"select", "read"} /\ inbox = <<n>> /\ Foreign(Stream, n)
      BY <2>1, <3>1 DEF AnswerInv, IInv, TypeOK
    <3>3. PICK a \in Answers : speaking' = Said(n, a)
      BY <2>2, <3>2 DEF StartAnswer
    <3>4. inbox' = <<>> /\ n \in 1..MaxCommands
      BY <1>3, <3>1, <3>2
    <3>5. Stream = resp \o input /\ resp \o input \in Seq(Bytes)
      BY <1>3, <3>1, ConcatProperties, ConcatEmptySeq DEF Stream
    <3>6. Stream' = Stream \o Said(n, a)
      BY <3>1, <3>3, <3>5 DEF Stream
    <3>7. Carries(Stream', n, a)
      BY <3>2, <3>4, <3>5, <3>6, AnswerAfter
    <3> QED
      BY <1>1, <3>2, <3>4, <3>7 DEF OwnInv, host
  <2>3. CASE Forget
    <3>1. /\ speaking = <<>> /\ inbox # <<>> /\ inbox' = Tail(inbox)
          /\ UNCHANGED <<resp, input, speaking>>
      BY <2>3 DEF Forget, host
    <3>2. pc \in {"select", "read"} /\ inbox = <<n>> /\ Foreign(Stream, n)
      BY <2>1, <3>1 DEF AnswerInv, IInv, TypeOK
    <3>3. inbox' = <<>> /\ Stream' = Stream
      BY <3>1, <3>2 DEF Stream
    <3> QED
      BY <1>1, <3>2, <3>3 DEF OwnInv, host
  <2>4. CASE Arrive
    <3>1. /\ speaking # <<>> /\ input' = Append(input, Head(speaking))
          /\ speaking' = Tail(speaking) /\ UNCHANGED <<resp, inbox>>
      BY <2>4 DEF Arrive, host
    <3>2. Stream' = Stream
      <4>1. Append(input, Head(speaking)) \o Tail(speaking) = input \o speaking
        BY <1>3, <3>1
      <4> QED
        <5>1. input' \in Seq(Bytes) /\ speaking' \in Seq(Bytes)
          BY <1>3, <3>1, HeadTailProperties, AppendProperties
        <5>2. (resp \o input') \o speaking' = resp \o (input' \o speaking')
          BY <1>3, <5>1, Rejoin
        <5>3. (resp \o input) \o speaking = resp \o (input \o speaking)
          BY <1>3, Rejoin
        <5> QED
          BY <3>1, <4>1, <5>2, <5>3, Zenon DEF Stream
    <3>3. \A c : Foreign(speaking, c) => Foreign(speaking', c)
      BY <1>3, <3>1 DEF Foreign
    <3>4. \A c : Foreign(speaking, c) /\ Foreign(input, c) => Foreign(input', c)
      BY <1>3, <3>1 DEF Foreign
    <3> QED
      BY <1>1, <2>1, <3>1, <3>2, <3>3, <3>4 DEF OwnInv, host
  <2>5. CASE Unasked
    <3> DEFINE b == [cmd |-> 0, sym |-> "TEXT"]
    <3>1. /\ speaking = <<>> /\ input' = Append(input, b) /\ UNCHANGED <<resp, inbox, speaking>>
      BY <2>5 DEF Unasked, host, modem
    <3>2. b \in Bytes
      BY AtTtyAssumption DEF Bytes, Abstract!Symbols
    <3>3. Calling => Foreign(<<b>>, n)
      BY <1>3 DEF Foreign
    <3> HIDE DEF b
    <3>4. <<b>> \in Seq(Bytes) /\ input' = input \o <<b>>
      BY <1>3, <3>1, <3>2
    <3>5. Foreign(input, n) /\ Calling => Foreign(input', n)
      BY <1>3, <3>3, <3>4, ForeignAfter
    <3>6. Stream = resp \o input /\ Stream \in Seq(Bytes)
      BY <1>3, <3>1, ConcatProperties, ConcatEmptySeq DEF Stream
    <3>7. Stream' = Stream \o <<b>>
      <4>1. input' \in Seq(Bytes)
        BY <1>3, <3>4
      <4>2. Stream' = resp \o input'
        BY <1>3, <3>1, <4>1, ConcatProperties, ConcatEmptySeq DEF Stream
      <4>3. (resp \o input) \o <<b>> = resp \o (input \o <<b>>)
        BY <1>3, <3>4, Rejoin
      <4> QED
        BY <3>4, <3>6, <4>2, <4>3, Zenon
    <3>8. Calling => /\ Foreign(Stream, n) => Foreign(Stream', n)
                     /\ \A a \in Answers : Carries(Stream, n, a) => Carries(Stream', n, a)
      BY <1>3, <3>3, <3>4, <3>6, <3>7, ForeignAfter
    <3> QED
      BY <1>1, <2>1, <3>1, <3>5, <3>8 DEF OwnInv, host, Calling
  <2> QED
    BY <2>2, <2>3, <2>4, <2>5 DEF ModemNext
<1> QED
  BY <1>2, <1>4

\* A call that returns without a final result code says nothing about answers.
LEMMA ReturnSaysNothing ==
  ASSUME result' \notin {"SUCCESS", "FAILED"} PROVE AnswersOwnCommand'
BY DEF AnswersOwnCommand

\* Reading decides: with a final result code the response holds the answer.
LEMMA ReadKeepsAnswers == ASSUME AnswerInv, Read PROVE OwnInv' /\ AnswersOwnCommand'
<1>1. /\ pc = "read" /\ UNCHANGED <<n, abandoned, inbox, speaking>> /\ result = "NONE"
      /\ n \in Nat
  BY DEF Read, modem, AnswerInv, IInv, TypeOK, CallInv, Calling
<1>2. /\ resp' \in Seq(Bytes) /\ input' \in Seq(Bytes) /\ speaking \in Seq(Bytes)
      /\ Stream' = Stream
  BY StreamRead DEF AnswerInv, IInv, TypeOK
<1>3. CASE Verdict(Text(resp')) = "NONE"
  <2>1. pc' = "select" /\ result' = "NONE"
    BY <1>1, <1>3 DEF Read
  <2> QED
    BY <1>1, <1>2, <2>1, ReturnSaysNothing DEF AnswerInv, OwnInv
<1>4. CASE Verdict(Text(resp')) # "NONE"
  <2>1. pc' = "idle" /\ result' = Verdict(Text(resp'))
    BY <1>4 DEF Read, Return
  <2> SUFFICES ASSUME ~abandoned' PROVE OwnInv' /\ AnswersOwnCommand'
    BY DEF OwnInv, AnswersOwnCommand
  <2> DEFINE rest == input' \o speaking
  <2>2. rest \in Seq(Bytes) /\ Stream = resp' \o rest
    <3>1. (resp' \o input') \o speaking = resp' \o (input' \o speaking)
      BY <1>2, Rejoin
    <3>2. Stream = (resp' \o input') \o speaking
      BY <1>1, <1>2, Zenon DEF Stream
    <3> QED
      BY <1>2, <3>1, <3>2, ConcatProperties
  <2>3. ~Foreign(Stream, n)
    <3>1. \A j \in 1..Len(resp') : Stream[j] = resp'[j] /\ j \in 1..Len(Stream)
      BY <1>2, <2>2, ConcatProperties
    <3>2. Foreign(Stream, n) => Foreign(resp', n)
      BY <3>1 DEF Foreign
    <3> QED
      BY <1>2, <1>4, <3>2, ForeignEndsNothing
  <2>4. PICK a \in Answers : inbox = <<>> /\ Carries(Stream, n, a)
    BY <1>1, <2>3 DEF AnswerInv, OwnInv
  <2>5. /\ \E m \in 1..Len(a) :
             /\ Holds(resp', n, SubSeq(a, 1, m))
             /\ Verdict(Text(resp')) = "SUCCESS" => m = Len(a) /\ Abstract!HasOk(a)
             /\ Verdict(Text(resp')) = "FAILED" => Abstract!HasError(SubSeq(a, 1, m))
        /\ Foreign(rest, n + 1)
    <3> HIDE DEF rest
    <3> QED
      BY <1>1, <1>2, <1>4, <2>2, <2>4, VerdictOwn
  <2>6. AnswersOwnCommand'
    BY <1>1, <2>1, <2>5, Zenon DEF AnswersOwnCommand
  <2>7. Foreign(speaking, n + 1)
    <3>1. \A j \in 1..Len(speaking) :
            rest[Len(input') + j] = speaking[j] /\ Len(input') + j \in 1..Len(rest)
      BY <1>2, ConcatProperties
    <3> HIDE DEF rest
    <3> QED
      BY <2>5, <3>1 DEF Foreign
  <2> QED
    BY <1>1, <2>1, <2>4, <2>6, <2>7 DEF OwnInv
<1> QED
  BY <1>3, <1>4

\* The other steps of a call.
LEMMA CommandKeepsAnswers ==
  ASSUME AnswerInv, CommandNext PROVE OwnInv' /\ AnswersOwnCommand'
<1>1. n \in Nat /\ (Calling => result = "NONE")
  BY DEF AnswerInv, IInv, TypeOK, CallInv
<1>2. OwnInv
  BY DEF AnswerInv
<1>3. CASE Refused \/ FlushFails \/ WriteFails
  <2>1. /\ pc \in {"flush", "write"} /\ pc' = "idle" /\ result' \notin {"SUCCESS", "FAILED"}
        /\ UNCHANGED <<resp, n, abandoned, input, inbox, speaking>>
    BY <1>3 DEF Refused, FlushFails, WriteFails, Return, modem
  <2>2. speaking \in Seq(Bytes)
    BY DEF AnswerInv, IInv, TypeOK
  <2>3. Foreign(speaking, n) => Foreign(speaking, n + 1)
    <3>1. \A j \in 1..Len(speaking) : speaking[j].cmd \in Nat
      <4>1. \A j \in 1..Len(speaking) : speaking[j] \in Bytes
        BY <2>2
      <4> QED
        BY <4>1, AtTtyAssumption DEF Bytes
    <3> QED
      BY <1>1, <3>1 DEF Foreign
  <2> QED
    BY <1>2, <2>1, <2>3, ReturnSaysNothing DEF OwnInv
<1>4. CASE Flush
  <2>1. /\ pc = "flush" /\ pc' = "write" /\ input' = <<>> /\ (abandoned' <=> abandoned /\ ~Silent)
        /\ UNCHANGED <<result, resp, n, inbox, speaking>> /\ result = "NONE"
    BY <1>1, <1>4 DEF Flush, modem, Calling
  <2>2. resp = <<>>
    BY <2>1 DEF AnswerInv, IInv, CallInv, Calling
  <2>3. ~abandoned' => inbox = <<>> /\ Foreign(speaking, n)
    BY <1>2, <2>1, NothingForeign DEF OwnInv, Silent
  <2> QED
    BY <2>1, <2>2, <2>3, NothingForeign, ReturnSaysNothing DEF OwnInv
<1>5. CASE Write
  <2>1. /\ pc = "write" /\ pc' = "select" /\ inbox' = Append(inbox, n)
        /\ UNCHANGED <<result, resp, n, abandoned, input, speaking>> /\ result = "NONE"
    BY <1>1, <1>5 DEF Write, Calling
  <2> SUFFICES ASSUME ~abandoned PROVE OwnInv' /\ AnswersOwnCommand'
    BY <2>1, ReturnSaysNothing DEF OwnInv
  <2>2. inbox = <<>> /\ resp = <<>> /\ Foreign(input, n) /\ Foreign(speaking, n)
    BY <1>2, <2>1 DEF OwnInv, AnswerInv, IInv, CallInv, Calling
  <2>3. inbox' = <<n>>
    BY <2>1, <2>2
  <2>4. Foreign(Stream, n)
    <3>1. input \in Seq(Bytes) /\ speaking \in Seq(Bytes)
      BY DEF AnswerInv, IInv, TypeOK
    <3>2. Stream = input \o speaking
      BY <2>2, <3>1, ConcatEmptySeq DEF Stream
    <3> QED
      BY <1>1, <2>2, <3>1, <3>2, ForeignAfter
  <2>5. Stream' = Stream
    BY <2>1 DEF Stream
  <2> QED
    BY <2>1, <2>3, <2>4, <2>5, ReturnSaysNothing DEF OwnInv
<1>6. CASE WriteShort
  <2>1. /\ pc = "write" /\ pc' = "select" /\ result' = "NONE"
        /\ UNCHANGED <<resp, n, abandoned, input, inbox, speaking>>
    BY <1>1, <1>6 DEF WriteShort, Calling, modem
  <2> SUFFICES ASSUME ~abandoned PROVE OwnInv' /\ AnswersOwnCommand'
    BY <2>1, ReturnSaysNothing DEF OwnInv
  <2>2. inbox = <<>> /\ resp = <<>> /\ Foreign(input, n) /\ Foreign(speaking, n)
    BY <1>2, <2>1 DEF OwnInv, AnswerInv, IInv, CallInv, Calling
  <2>3. Foreign(Stream, n)
    <3>1. input \in Seq(Bytes) /\ speaking \in Seq(Bytes)
      BY DEF AnswerInv, IInv, TypeOK
    <3>2. Stream = input \o speaking
      BY <2>2, <3>1, ConcatEmptySeq DEF Stream
    <3> QED
      BY <1>1, <2>2, <3>1, <3>2, ForeignAfter
  <2>4. Stream' = Stream
    BY <2>1 DEF Stream
  <2> QED
    BY <2>1, <2>2, <2>3, <2>4, ReturnSaysNothing DEF OwnInv
<1>7. CASE Ready
  <2>1. /\ pc = "select" /\ pc' = "read" /\ result' = "NONE"
        /\ UNCHANGED <<resp, n, abandoned, input, inbox, speaking>>
    BY <1>1, <1>7 DEF Ready, Calling, modem
  <2>2. Stream' = Stream
    BY <2>1 DEF Stream
  <2> QED
    BY <1>2, <2>1, <2>2, ReturnSaysNothing DEF OwnInv
<1>8. CASE SelectFails \/ Timeout \/ ReadNothing \/ ReadFails
  <2>1. abandoned' = TRUE
    BY <1>8 DEF SelectFails, Timeout, ReadNothing, ReadFails, Abandon
  <2> QED
    BY <2>1 DEF OwnInv, AnswersOwnCommand
<1>9. CASE Read
  BY <1>9, ReadKeepsAnswers
<1> QED
  BY <1>3, <1>4, <1>5, <1>6, <1>7, <1>8, <1>9 DEF CommandNext

LEMMA NextKeepsAnswers == AnswerInv /\ [Next]_vars => AnswerInv'
<1> SUFFICES ASSUME AnswerInv, [Next]_vars PROVE AnswerInv'
  OBVIOUS
<1>1. IInv'
  BY NextPreserves DEF AnswerInv
<1>2. OwnInv /\ AnswersOwnCommand
  BY DEF AnswerInv
<1>3. OwnInv' /\ AnswersOwnCommand'
  <2>1. CASE Open \/ Close
    <3>1. /\ {pc, pc'} \subseteq {"closed", "idle"}
          /\ UNCHANGED <<result, resp, n, abandoned, inbox, speaking>>
      BY <2>1 DEF Open, Close, modem
    <3> QED
      BY <1>2, <3>1 DEF OwnInv, AnswersOwnCommand
  <2>2. CASE Call
    <3>1. /\ pc = "idle" /\ pc' = "flush" /\ result' = "NONE" /\ n' = n + 1
          /\ UNCHANGED <<abandoned, inbox, speaking>>
      BY <2>2 DEF Call, modem
    <3> QED
      BY <1>2, <3>1, ReturnSaysNothing DEF OwnInv
  <2>3. CASE CommandNext
    BY <2>3, CommandKeepsAnswers
  <2>4. CASE ModemNext
    BY <2>4, ModemKeepsAnswers
  <2>5. CASE UNCHANGED vars
    BY <1>2, <2>5 DEF vars, host, modem, OwnInv, AnswersOwnCommand, Stream
  <2> QED
    BY <2>1, <2>2, <2>3, <2>4, <2>5 DEF Next
<1> QED
  BY <1>1, <1>3 DEF AnswerInv

\* However answers are delayed, cut by reads and mixed with what the modem says
\* unasked, a command with a final result code has its own answer, unless an
\* earlier command was given up and still to be answered at the flush.
THEOREM AnswersCorrect == Spec => []AnswersOwnCommand
<1>1. Init => AnswerInv
  <2>1. Init => OwnInv /\ AnswersOwnCommand
    BY NothingForeign DEF Init, OwnInv, AnswersOwnCommand
  <2> QED
    BY <2>1, InitEstablishes DEF AnswerInv
<1>2. AnswerInv => AnswersOwnCommand
  BY DEF AnswerInv
<1> QED
  BY <1>1, <1>2, NextKeepsAnswers, PTL DEF Spec

-----------------------------------------------------------------------------
(* Refinement                                                              *)

\* The tests of the code, in their order, decide what the interface calls a
\* true status.
LEMMA VerdictTrue ==
  ASSUME NEW r, NEW ret \in Abstract!Statuses,
         \/ Verdict(r) = ret
         \/ Verdict(r) = "NONE" /\ ret \notin {"SUCCESS", "FAILED"}
  PROVE  Abstract!Truthful(ret, r)
BY DEF Verdict, Abstract!Truthful, Abstract!Statuses

\* Every status this implementation returns is true of the response returned
\* with it: the implementation refines the interface the drivers use.
THEOREM InterfaceImplemented == Spec => ImplementsAtInterface
<1>1. Init => Abstract!Init
  <2> SUFFICES ASSUME Init PROVE Abstract!Init
    OBVIOUS
  <2>1. (pc \notin {"closed", "idle"}) = FALSE
    BY DEF Init
  <2>2. Text(<<>>) = <<>>
    BY DEF Text
  <2> QED
    BY <2>1, <2>2 DEF Init, Abstract!Init
<1>2. IInv /\ IInv' /\ [Next]_vars => [Abstract!Next]_(Abstract!vars)
  <2> SUFFICES ASSUME IInv, IInv', [Next]_vars
               PROVE  Abstract!Next \/ UNCHANGED Abstract!vars
    OBVIOUS
  <2> USE DEF Abstract!vars
  <2>1. CASE Open \/ Close
    BY <2>1 DEF Open, Close
  <2>2. CASE Call
    BY <2>2 DEF Call, Abstract!Next, Abstract!Call
  <2>3. CASE ModemNext \/ UNCHANGED vars
    <3>1. UNCHANGED host
      BY <2>3 DEF ModemNext, StartAnswer, Forget, Arrive, Unasked, vars
    <3> QED
      BY <3>1 DEF host
  <2>4. CASE Flush \/ Write \/ WriteShort \/ Ready
    BY <2>4 DEF Flush, Write, WriteShort, Ready
  <2>5. ASSUME Calling, NEW ret \in Abstract!Statuses, Return(ret),
               Abstract!Truthful(ret, Text(resp'))
        PROVE  Abstract!Next
    <3>1. Text(resp') \in Seq(Abstract!Symbols)
      BY TextType DEF IInv, TypeOK
    <3> QED
      BY <2>5, <3>1 DEF Return, Calling, Abstract!Next, Abstract!Return
  <2>6. ASSUME Calling, NEW ret \in Abstract!Statuses \ {"SUCCESS", "FAILED"},
               Return(ret), resp' = resp
        PROVE  Abstract!Next
    <3>1. Verdict(Text(resp')) = "NONE"
      BY <2>6 DEF IInv, CallInv
    <3>2. Abstract!Truthful(ret, Text(resp'))
      BY <3>1, VerdictTrue
    <3> QED
      BY <2>5, <2>6, <3>2
  <2>7. CASE Refused
    BY <2>6, <2>7 DEF Refused, Calling, Abstract!Statuses
  <2>8. CASE FlushFails \/ WriteFails
    BY <2>6, <2>8 DEF FlushFails, WriteFails, Calling, Abstract!Statuses
  <2>9. CASE SelectFails \/ ReadNothing \/ ReadFails
    BY <2>6, <2>9 DEF SelectFails, ReadNothing, ReadFails, Abandon, Calling, Abstract!Statuses
  <2>10. CASE Timeout
    BY <2>6, <2>10 DEF Timeout, Abandon, Calling, Abstract!Statuses
  <2>11. CASE Read
    <3>1. CASE Verdict(Text(resp')) = "NONE"
      BY <2>11, <3>1 DEF Read
    <3>2. CASE Verdict(Text(resp')) # "NONE"
      <4> DEFINE ret == Verdict(Text(resp'))
      <4>1. ret \in Abstract!Statuses
        BY <3>2 DEF Verdict, Abstract!Statuses
      <4>2. Abstract!Truthful(ret, Text(resp'))
        BY <4>1, VerdictTrue
      <4>3. Return(ret) /\ Calling
        BY <2>11, <3>2 DEF Read, Calling
      <4> HIDE DEF ret
      <4> QED
        BY <2>5, <4>1, <4>2, <4>3
    <3> QED
      BY <3>1, <3>2
  <2> QED
    BY <2>1, <2>2, <2>3, <2>4, <2>7, <2>8, <2>9, <2>10, <2>11 DEF Next, CommandNext
<1> QED
  BY <1>1, <1>2, Invariance, PTL DEF Spec, ImplementsAtInterface, Abstract!Spec

=============================================================================

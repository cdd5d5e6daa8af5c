-------------------------- MODULE TrafficTestProofs --------------------------
(***************************************************************************)
(* Proofs about TrafficTest for any number of transmissions, any limit of  *)
(* faults and any set of addresses.  The inductive invariant IInv has one  *)
(* part for each thing the three actors must agree on.                     *)
(***************************************************************************)
EXTENDS TrafficTest, FiniteSetTheorems, TLAPS

\* The labels of main while it transmits, and while a collector exists.
Transmitting ==
  {"tx", "perform", "cblock", "cbcopy", "cbreturn", "txdone", "endtx"}

InSession == Transmitting \cup {"finish", "join"}

\* Who may hold which status object: the published one, and one more while
\* the collector is between allocating a new one and freeing the old one, or
\* when it failed half-way through a collection.
HeapInv ==
  /\ shared \in live \cup {None}
  /\ cpc \in {"while", "collect"} => live \subseteq {shared}
  /\ cpc \in {"off", "fail", "ended"} => live \subseteq {shared, new}
  /\ cpc \in {"lock", "swap"} =>
       new \in live /\ new # shared /\ live \subseteq {shared, new}
  /\ cpc = "free" =>
       old \in live \cup {None} /\ old # shared /\ live \subseteq {shared, old}

\* The mutex protects the published pointers.
LockInv ==
  /\ mpc = "cbcopy" => lock = "main" /\ seen = shared
  /\ cpc = "swap" => lock = "collector"

\* The session encloses the life of the collector.
SessionInv ==
  /\ cpc # "off" <=> mpc \in InSession
  /\ mpc \in {"setrat", "getdata", "setdata", "startgps", "launch"} => modem
  /\ mpc \in InSession \cup {"release"} => modem /\ lock # "none"

\* The several counts of transmissions agree.
CountInv ==
  /\ finished <= i
  /\ mpc \notin Transmitting => i = finished
  /\ mpc \in Transmitting => counter = i
  /\ mpc \in Transmitting \ {"tx", "endtx"} => i < Repeats
  /\ row <= i
  /\ completed <= i + 1
  /\ ~(mpc \in {"cblock", "cbcopy", "cbreturn"} /\ phase = "final") /\ mpc # "txdone"
       => completed <= i

\* Why the program may leave the loop.
StopInv ==
  /\ mpc \notin {"giveup", "closetrace", "done"} => faultcount <= MaxFaults
  /\ mpc = "giveup" => faultcount > MaxFaults
  /\ state = EXIT => mpc \in {"closetrace", "done"} /\ faultcount > MaxFaults
  /\ mpc \in {"closetrace", "done"} => state \in {EXIT, FINISH}
  /\ mpc = "endtx" => i = Repeats \/ state # NORMAL
  /\ mpc = "finish" => finished = Repeats
  /\ state = FINISH => finished = Repeats \/ sig = "ignored"
  /\ mpc # "done" => trace

\* A handler runs in a thread that exists, and none while the signal is armed.
SignalInv ==
  /\ sig = "armed" => handlers = {}
  /\ "main" \in handlers => ~Gone
  /\ "collector" \in handlers => cpc \notin {"off", "ended"}

IInv ==
  TypeOK /\ HeapInv /\ LockInv /\ SessionInv /\ CountInv /\ StopInv /\ SignalInv

LEMMA InitEstablishes == Init => IInv
<1> SUFFICES ASSUME Init PROVE IInv
  OBVIOUS
<1> USE TrafficTestAssumption DEF Init, NORMAL, RESUME, EXIT, FINISH
<1>1. TypeOK
  <2>1. modem \in BOOLEAN /\ trace \in BOOLEAN /\ eintr \subseteq Threads
    OBVIOUS
  <2> QED
    BY <2>1 DEF TypeOK, MainLabels, CollectorLabels
<1>2. HeapInv /\ LockInv
  BY DEF HeapInv, LockInv
<1>3. SessionInv /\ CountInv
  BY DEF SessionInv, CountInv, InSession, Transmitting
<1>4. StopInv /\ SignalInv
  BY DEF StopInv, SignalInv
<1> QED
  BY <1>1, <1>2, <1>3, <1>4 DEF IInv

LEMMA NextPreserves == IInv /\ [Next]_vars => IInv'
<1> SUFFICES ASSUME IInv, [Next]_vars PROVE IInv'
  OBVIOUS
<1> USE TrafficTestAssumption DEF IInv, TypeOK, HeapInv, LockInv, SessionInv, CountInv,
     StopInv, SignalInv, InSession, Transmitting, MainLabels, CollectorLabels, Threads,
     NORMAL, RESUME, EXIT, FINISH, counters, heap, device, Gone
<1>1. CASE LoopTest
  BY <1>1 DEF LoopTest, Main
<1>2. CASE ResumeTest
  BY <1>2 DEF ResumeTest, Main
<1>3. CASE GiveUp
  BY <1>3 DEF GiveUp, Main
<1>4. CASE CtrlCTest
  BY <1>4 DEF CtrlCTest, Main
<1>5. CASE Renew
  BY <1>5 DEF Renew, Main
<1>6. CASE OpenModem
  <2> USE <1>6 DEF OpenModem, Main
  <2>1. modem' \in BOOLEAN /\ trace' \in BOOLEAN
    BY Zenon
  <2>2. TypeOK'
    BY <2>1
  <2>3. HeapInv'
    OBVIOUS
  <2>4. LockInv'
    OBVIOUS
  <2>5. SessionInv'
    OBVIOUS
  <2>6. CountInv'
    OBVIOUS
  <2>7. StopInv'
    OBVIOUS
  <2>8. SignalInv'
    OBVIOUS
  <2> QED
    BY <2>2, <2>3, <2>4, <2>5, <2>6, <2>7, <2>8
<1>7. CASE OpenFailed
  BY <1>7 DEF OpenFailed, Main
<1>8. CASE SetRadioAccessType
  <2> USE <1>8 DEF SetRadioAccessType, Main, ConfigureStep, Succeeds, Fails
  <2>1. TypeOK'
    <3> HIDE DEF Threads
    <3> QED
      OBVIOUS
  <2>2. HeapInv'
    OBVIOUS
  <2>3. LockInv'
    OBVIOUS
  <2>4. SessionInv'
    OBVIOUS
  <2>5. CountInv'
    OBVIOUS
  <2>6. StopInv'
    OBVIOUS
  <2>7. SignalInv'
    OBVIOUS
  <2> QED
    BY <2>1, <2>2, <2>3, <2>4, <2>5, <2>6, <2>7
<1>9. CASE GetDataConnection
  <2> USE <1>9 DEF GetDataConnection, Main, ConfigureStep, Succeeds, Fails
  <2>1. TypeOK'
    <3> HIDE DEF Threads
    <3> QED
      OBVIOUS
  <2>2. HeapInv'
    OBVIOUS
  <2>3. LockInv'
    OBVIOUS
  <2>4. SessionInv'
    OBVIOUS
  <2>5. CountInv'
    OBVIOUS
  <2>6. StopInv'
    OBVIOUS
  <2>7. SignalInv'
    OBVIOUS
  <2> QED
    BY <2>1, <2>2, <2>3, <2>4, <2>5, <2>6, <2>7
<1>10. CASE SetDataConnection
  <2> USE <1>10 DEF SetDataConnection, Main, ConfigureStep, Succeeds, Fails
  <2>1. TypeOK'
    <3> HIDE DEF Threads
    <3> QED
      OBVIOUS
  <2>2. HeapInv'
    OBVIOUS
  <2>3. LockInv'
    OBVIOUS
  <2>4. SessionInv'
    OBVIOUS
  <2>5. CountInv'
    OBVIOUS
  <2>6. StopInv'
    OBVIOUS
  <2>7. SignalInv'
    OBVIOUS
  <2> QED
    BY <2>1, <2>2, <2>3, <2>4, <2>5, <2>6, <2>7
<1>11. CASE StartGps
  <2> USE <1>11 DEF StartGps, Main, ConfigureStep, Succeeds, Fails
  <2>1. TypeOK'
    <3> HIDE DEF Threads
    <3> QED
      OBVIOUS
  <2>2. HeapInv'
    OBVIOUS
  <2>3. LockInv'
    OBVIOUS
  <2>4. SessionInv'
    OBVIOUS
  <2>5. CountInv'
    OBVIOUS
  <2>6. StopInv'
    OBVIOUS
  <2>7. SignalInv'
    OBVIOUS
  <2> QED
    BY <2>1, <2>2, <2>3, <2>4, <2>5, <2>6, <2>7
<1>12. CASE ConfigureFailed
  BY <1>12 DEF ConfigureFailed, Main
<1>13. CASE DestroyUnconfigured
  <2> USE <1>13 DEF DestroyUnconfigured, Main
  <2>1. modem' \in BOOLEAN /\ trace' \in BOOLEAN
    BY Zenon
  <2>2. TypeOK'
    BY <2>1
  <2>3. HeapInv'
    OBVIOUS
  <2>4. LockInv'
    OBVIOUS
  <2>5. SessionInv'
    OBVIOUS
  <2>6. CountInv'
    OBVIOUS
  <2>7. StopInv'
    OBVIOUS
  <2>8. SignalInv'
    OBVIOUS
  <2> QED
    BY <2>2, <2>3, <2>4, <2>5, <2>6, <2>7, <2>8
<1>14. CASE Launch
  <2> USE <1>14 DEF Launch, Main
  <2>1. modem' \in BOOLEAN /\ trace' \in BOOLEAN
    BY Zenon
  <2>2. TypeOK'
    BY <2>1
  <2>3. HeapInv'
    OBVIOUS
  <2>4. LockInv'
    OBVIOUS
  <2>5. SessionInv'
    BY <2>1
  <2>6. CountInv'
    OBVIOUS
  <2>7. StopInv'
    OBVIOUS
  <2>8. SignalInv'
    OBVIOUS
  <2> QED
    BY <2>2, <2>3, <2>4, <2>5, <2>6, <2>7, <2>8
<1>15. CASE NextTransmission
  BY <1>15 DEF NextTransmission, Main
<1>16. CASE ReportProgress
  BY <1>16 DEF ReportProgress, Main
<1>17. CASE UploadComplete
  BY <1>17 DEF UploadComplete, Main
<1>18. CASE UploadFailed
  BY <1>18 DEF UploadFailed, Main
<1>19. CASE CallbackLock
  BY <1>19 DEF CallbackLock, Main
<1>20. CASE CallbackCopy
  BY <1>20 DEF CallbackCopy, Main
<1>21. CASE CallbackReturn
  BY <1>21 DEF CallbackReturn, Main
<1>22. CASE TransmissionDone
  BY <1>22 DEF TransmissionDone, Main
<1>23. CASE EndTransmissions
  BY <1>23 DEF EndTransmissions, Main
<1>24. CASE Finish
  BY <1>24 DEF Finish, Main
<1>25. CASE JoinCollector
  BY <1>25 DEF JoinCollector, Main
<1>26. CASE ReleaseSession
  <2> USE <1>26 DEF ReleaseSession, Main
  <2>1. modem' \in BOOLEAN /\ trace' \in BOOLEAN
    BY Zenon
  <2>2. TypeOK'
    BY <2>1
  <2>3. HeapInv'
    OBVIOUS
  <2>4. LockInv'
    OBVIOUS
  <2>5. SessionInv'
    OBVIOUS
  <2>6. CountInv'
    OBVIOUS
  <2>7. StopInv'
    OBVIOUS
  <2>8. SignalInv'
    OBVIOUS
  <2> QED
    BY <2>2, <2>3, <2>4, <2>5, <2>6, <2>7, <2>8
<1>27. CASE CloseTrace
  <2> USE <1>27 DEF CloseTrace, Main
  <2>1. modem' \in BOOLEAN /\ trace' \in BOOLEAN
    BY Zenon
  <2>2. TypeOK'
    BY <2>1
  <2>3. HeapInv'
    OBVIOUS
  <2>4. LockInv'
    OBVIOUS
  <2>5. SessionInv'
    OBVIOUS
  <2>6. CountInv'
    OBVIOUS
  <2>7. StopInv'
    OBVIOUS
  <2>8. SignalInv'
    OBVIOUS
  <2> QED
    BY <2>2, <2>3, <2>4, <2>5, <2>6, <2>7, <2>8
<1>28. CASE CollectorTest
  BY <1>28 DEF CollectorTest, Collector
<1>29. CASE Collect
  <2> USE <1>29 DEF Collect, Collector, Succeeds, Fails
  <2>1. TypeOK'
    <3> HIDE DEF Threads
    <3> QED
      OBVIOUS
  <2>2. HeapInv'
    OBVIOUS
  <2>3. LockInv'
    OBVIOUS
  <2>4. SessionInv'
    OBVIOUS
  <2>5. CountInv'
    OBVIOUS
  <2>6. StopInv'
    OBVIOUS
  <2>7. SignalInv'
    OBVIOUS
  <2> QED
    BY <2>1, <2>2, <2>3, <2>4, <2>5, <2>6, <2>7
<1>30. CASE CollectorFailed
  BY <1>30 DEF CollectorFailed, Collector
<1>31. CASE CollectorLock
  BY <1>31 DEF CollectorLock, Collector
<1>32. CASE Swap
  BY <1>32 DEF Swap, Collector
<1>33. CASE FreeOld
  BY <1>33 DEF FreeOld, Collector
<1>34. ASSUME NEW T \in SUBSET Threads \ {{}}, Sigint(T) PROVE IInv'
  <2>1. handlers' \subseteq Threads /\ eintr' \subseteq Threads
    BY <1>34, Zenon DEF Sigint
  <2> QED
    BY <1>34, <2>1 DEF Sigint
<1>35. ASSUME NEW t \in Threads, HandlerStore(t) PROVE IInv'
  <2>1. handlers' \subseteq handlers
    BY <1>35 DEF HandlerStore
  <2>2. TypeOK'
    <3>1. handlers' \in SUBSET Threads
      <4> HIDE DEF Threads
      <4> QED
        BY <2>1
    <3> QED
      BY <1>35, <3>1 DEF HandlerStore
  <2>3. StopInv'
    <3>1. sig = "ignored"
      BY <1>35 DEF HandlerStore
    <3> QED
      BY <1>35, <3>1 DEF HandlerStore
  <2>4. HeapInv' /\ LockInv' /\ SessionInv' /\ CountInv' /\ SignalInv'
    BY <1>35, <2>1 DEF HandlerStore
  <2> QED
    BY <2>2, <2>3, <2>4
<1>36. CASE Abort
  BY <1>36 DEF Abort, Main
<1>37. CASE UNCHANGED vars
  BY <1>37 DEF vars
<1> QED
  BY <1>1, <1>2, <1>3, <1>4, <1>5, <1>6, <1>7, <1>8, <1>9, <1>10, <1>11, <1>12, <1>13, <1>14, <1>15, <1>16, <1>17, <1>18, <1>19, <1>20, <1>21, <1>22, <1>23, <1>24, <1>25, <1>26, <1>27, <1>28, <1>29, <1>30, <1>31, <1>32, <1>33, <1>34, <1>35, <1>36, <1>37
     DEF Next, MainNext, CollectorNext, HandlerNext, Exited

-----------------------------------------------------------------------------

\* Every reachable state satisfies the inductive invariant, and with it the
\* types of all variables: in particular no count exceeds the number of
\* transmissions, and faultcount stops one above the limit.
THEOREM Invariance == Spec => [](TypeOK /\ IInv)
<1>1. IInv => TypeOK
  BY DEF IInv
<1> QED
  BY <1>1, InitEstablishes, NextPreserves, PTL DEF Spec

\* The callback reads, and the collector frees, only live status objects,
\* and the collector frees none that is published.
THEOREM MemorySafety == Spec => []NoUseAfterFree
<1>1. IInv => NoUseAfterFree
  BY DEF IInv, HeapInv, LockInv, NoUseAfterFree
<1> QED
  BY <1>1, Invariance, PTL

\* At most two status objects are live in a session of any length.
THEOREM MemoryBound == Spec => []HeapBounded
<1>1. IInv => HeapBounded
  <2> SUFFICES ASSUME IInv PROVE HeapBounded
    OBVIOUS
  <2>1. PICK a, b : live \subseteq {a, b}
    BY DEF IInv, HeapInv, TypeOK, CollectorLabels
  <2>2. IsFiniteSet({a, b}) /\ Cardinality({a, b}) <= 2
    <3>1. IsFiniteSet({a}) /\ Cardinality({a}) = 1
      BY FS_Singleton
    <3>2. {a, b} = {a} \cup {b}
      OBVIOUS
    <3> QED
      BY <3>1, <3>2, FS_AddElement
  <2> QED
    BY <2>1, <2>2, FS_Subset, FS_CardinalityType DEF HeapBounded
<1> QED
  BY <1>1, Invariance, PTL

\* The modem handle and the mutex outlive the collector thread.
THEOREM SessionOutlives == Spec => []SessionOutlivesCollector
<1>1. IInv => SessionOutlivesCollector
  BY DEF IInv, SessionInv, SessionOutlivesCollector, InSession, Transmitting
<1> QED
  BY <1>1, Invariance, PTL

\* Normal operation is only resumed when no collector exists.
THEOREM RenewsCorrectly == Spec => RenewsOnlyAlone
<1>1. IInv /\ [Next]_vars => [state # NORMAL /\ state' = NORMAL => cpc = "off"]_vars
  <2> SUFFICES ASSUME IInv, [Next]_vars, state # NORMAL, state' = NORMAL
               PROVE  cpc = "off"
    BY DEF vars
  <2>1. Renew
    BY DEF vars, Next, MainNext, CollectorNext, Exited, Gone, LoopTest, ResumeTest,
       GiveUp, CtrlCTest, OpenModem, OpenFailed, SetRadioAccessType, GetDataConnection,
       SetDataConnection, StartGps, ConfigureStep, ConfigureFailed, DestroyUnconfigured,
       Launch, Abort, NextTransmission, ReportProgress, UploadComplete, UploadFailed,
       CallbackLock, CallbackCopy, CallbackReturn, TransmissionDone, EndTransmissions,
       Finish, JoinCollector, ReleaseSession, CloseTrace, CollectorTest, Collect,
       CollectorFailed, CollectorLock, Swap, FreeOld, Sigint, HandlerNext, HandlerStore,
       NORMAL, RESUME, EXIT, FINISH
  <2> QED
    BY <2>1 DEF Renew, Main, IInv, SessionInv, InSession, Transmitting
<1> QED
  BY <1>1, Invariance, PTL DEF Spec, RenewsOnlyAlone

\* The rows of the trace carry the number of their transmission, ascend over
\* all sessions, and none is written once the trace is closed.
THEOREM TraceCorrect == Spec => TraceInOrder
<1> DEFINE Ordered ==
      /\ row' >= row
      /\ mpc = "cbcopy" => trace
      /\ mpc = "cbcopy" /\ mpc' # "cbcopy" => row' = i
<1>1. IInv /\ [Next]_vars => [Ordered]_vars
  <2> SUFFICES ASSUME IInv, [Next]_vars PROVE Ordered
    OBVIOUS
  <2>1. mpc = "cbcopy" => trace /\ counter = i /\ row <= counter
    BY DEF IInv, StopInv, CountInv, Transmitting
  <2>2. row \in Nat /\ counter \in Nat
    BY TrafficTestAssumption DEF IInv, TypeOK
  <2>3. CASE CallbackCopy
    BY <2>1, <2>2, <2>3 DEF CallbackCopy, Main
  <2>4. CASE ~CallbackCopy
    <3>1. row' = row /\ (mpc = "cbcopy" => mpc' = "cbcopy")
      BY <2>4 DEF Main, Collector, vars, device, Next, MainNext, CollectorNext, Exited, Gone, LoopTest, ResumeTest,
         GiveUp, CtrlCTest, Renew, OpenModem, OpenFailed, SetRadioAccessType,
         GetDataConnection, SetDataConnection, StartGps, ConfigureStep, ConfigureFailed,
         DestroyUnconfigured, Launch, Abort, NextTransmission, ReportProgress, UploadComplete,
         UploadFailed, CallbackLock, CallbackReturn, TransmissionDone, EndTransmissions,
         Finish, JoinCollector, ReleaseSession, CloseTrace, CollectorTest, Collect,
         CollectorFailed, CollectorLock, Swap, FreeOld, Sigint, HandlerNext, HandlerStore
    <3> QED
      BY <2>1, <2>2, <3>1
  <2> QED
    BY <2>3, <2>4
<1> QED
  BY <1>1, Invariance, PTL DEF Spec, TraceInOrder

-----------------------------------------------------------------------------
(* Refinement                                                              *)

\* The program implements the campaign: transmissions are counted one by one
\* and only in a session, faults are counted and forgotten when a session
\* opens, and the program stops outside sessions for one of three reasons.
THEOREM CampaignImplemented == Spec => ImplementsCampaign
<1>1. Init => Promise!Init
  BY DEF Init, Gone, Promise!Init
<1>2. IInv /\ IInv' /\ [Next]_vars => [Promise!Next]_(Promise!vars)
  <2> SUFFICES ASSUME IInv, IInv', [Next]_vars
               PROVE  Promise!Next \/ UNCHANGED Promise!vars
    OBVIOUS
  <2> USE TrafficTestAssumption DEF IInv, counters, Gone, Promise!vars, NORMAL, RESUME, EXIT, FINISH
  <2>1. CASE ResumeTest
    BY <2>1 DEF ResumeTest, Main, Promise!Next, Promise!Fault, Promise!Idle, StopInv,
       SessionInv, InSession, Transmitting, TypeOK
  <2>2. CASE Launch
    BY <2>2 DEF Launch, Main, Promise!Next, Promise!OpenSession, Promise!Idle, CountInv,
       SessionInv, InSession, Transmitting
  <2>3. CASE TransmissionDone
    BY <2>3 DEF TransmissionDone, Main, Promise!Next, Promise!Transmit, CountInv,
       SessionInv, InSession, Transmitting
  <2>4. CASE JoinCollector
    BY <2>4 DEF JoinCollector, Main, Promise!Next, Promise!CloseSession
  <2>5. CASE CloseTrace
    BY <2>5 DEF CloseTrace, Main, Promise!Next, Promise!Stop, Promise!Idle, StopInv,
       CountInv, SessionInv, InSession, Transmitting
  <2>6. ASSUME NEW T \in SUBSET Threads \ {{}}, Sigint(T) PROVE Promise!Next
    BY <2>6 DEF Sigint, Promise!Next, Promise!Interrupt
  <2>7. ASSUME NEW t \in Threads, HandlerStore(t) PROVE UNCHANGED Promise!vars
    BY <2>7 DEF HandlerStore, SignalInv, SessionInv, InSession, Transmitting, Threads
  <2>8. CASE MainNext /\ ~ResumeTest /\ ~Launch /\ ~TransmissionDone /\ ~JoinCollector
             /\ ~CloseTrace /\ ~Abort
    BY <2>8 DEF MainNext, Main, LoopTest, GiveUp, CtrlCTest, Renew, OpenModem, OpenFailed,
       SetRadioAccessType, GetDataConnection, SetDataConnection, StartGps, ConfigureStep,
       ConfigureFailed, DestroyUnconfigured, NextTransmission, ReportProgress,
       UploadComplete, UploadFailed, CallbackLock, CallbackCopy, CallbackReturn,
       EndTransmissions, Finish, ReleaseSession
  <2>9. CASE CollectorNext
    BY <2>9 DEF CollectorNext, Collector, CollectorTest, Collect, CollectorFailed,
       CollectorLock, Swap, FreeOld, SessionInv, InSession, Transmitting
  <2>10. CASE UNCHANGED vars \/ Exited
    BY <2>10 DEF vars, Exited
  <2>11. CASE Abort
    BY <2>11 DEF Abort, Main, Promise!Next, Promise!Stop, Promise!Idle, SessionInv,
       InSession, Transmitting
  <2> QED
    BY <2>1, <2>2, <2>3, <2>4, <2>5, <2>6, <2>7, <2>8, <2>9, <2>10, <2>11
       DEF Next, HandlerNext
<1> QED
  BY <1>1, <1>2, Invariance, PTL DEF Spec, ImplementsCampaign, Promise!Spec

\* Every upload of the program, cancelled or not, makes its reports in the
\* order that TrafficCurl implements.
THEOREM UploadsCorrect == Spec => UploadsFollowProtocol
<1>1. Init => Upload!Init
  BY DEF Init, Upload!Init
<1>2. IInv /\ [Next]_vars =>
        [Upload!Next]_(IF mpc \in {"cblock", "cbcopy", "cbreturn"} THEN phase
                       ELSE IF mpc = "perform" THEN "perform" ELSE "idle")
  <2> DEFINE stage == IF mpc \in {"cblock", "cbcopy", "cbreturn"} THEN phase
                      ELSE IF mpc = "perform" THEN "perform" ELSE "idle"
  <2> SUFFICES ASSUME IInv, [Next]_vars PROVE Upload!Next \/ UNCHANGED stage
    OBVIOUS
  <2> USE DEF Upload!Next, Upload!Begin, Upload!Start, Upload!Report, Upload!Continue,
       Upload!Cancel, Upload!Finish, Upload!Return, Upload!Step
  <2>1. CASE CallbackLock \/ CallbackCopy
    BY <2>1 DEF CallbackLock, CallbackCopy, Main
  <2>2. CASE CallbackReturn
    BY <2>2 DEF CallbackReturn, Main
  <2>3. CASE ReportProgress \/ UploadComplete \/ UploadFailed
    BY <2>3 DEF ReportProgress, UploadComplete, UploadFailed, Main
  <2>4. CASE NextTransmission
    BY <2>4 DEF NextTransmission, Main
  <2>5. CASE CollectorNext \/ HandlerNext \/ \E T \in SUBSET Threads \ {{}} : Sigint(T)
    BY <2>5 DEF CollectorNext, CollectorTest, Collect, CollectorFailed, CollectorLock,
       Swap, FreeOld, HandlerNext, HandlerStore, Sigint
  <2>6. CASE UNCHANGED vars \/ Exited
    BY <2>6 DEF vars, Exited
  <2>7. CASE LoopTest \/ ResumeTest \/ GiveUp \/ CtrlCTest \/ Renew \/ OpenModem \/ OpenFailed
             \/ SetRadioAccessType \/ GetDataConnection \/ SetDataConnection \/ StartGps
             \/ ConfigureFailed \/ DestroyUnconfigured \/ Launch \/ Abort
    BY <2>7 DEF LoopTest, ResumeTest, GiveUp, CtrlCTest, Renew, OpenModem, OpenFailed,
       SetRadioAccessType, GetDataConnection, SetDataConnection, StartGps, ConfigureStep,
       ConfigureFailed, DestroyUnconfigured, Launch, Abort, Main
  <2>8. CASE TransmissionDone \/ EndTransmissions \/ Finish \/ JoinCollector
             \/ ReleaseSession \/ CloseTrace
    BY <2>8 DEF TransmissionDone, EndTransmissions, Finish, JoinCollector,
       ReleaseSession, CloseTrace, Main
  <2> QED
    BY <2>1, <2>2, <2>3, <2>4, <2>5, <2>6, <2>7, <2>8 DEF Next, MainNext
<1> QED
  BY <1>1, <1>2, Invariance, PTL DEF Spec, UploadsFollowProtocol, Upload!Spec

=============================================================================

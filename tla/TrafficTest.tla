---------------------------- MODULE TrafficTest ----------------------------
(***************************************************************************)
(* The measurement program src/src/examples/src/traffic_test.c: the main   *)
(* thread with its recovery loop and transmissions, the status collector   *)
(* thread it launches in every session, and the SIGINT handler.  They      *)
(* share the volatile variable `state` without a lock, and the modem       *)
(* status (three pointers, here one object) under a mutex.                 *)
(*                                                                         *)
(* Every read and every write of `state` is a step of its own.  Sleeping,  *)
(* the trace's contents and the values in a status are left out.  A modem  *)
(* command and a libcurl transfer are long: the thread is at the label of  *)
(* the call while it lasts, and the step is its return.                    *)
(***************************************************************************)
EXTENDS Naturals, FiniteSets

CONSTANTS
  Repeats,    \* arguments.repeats
  MaxFaults,  \* MAX_FAULTS_TO_CANCEL
  Objects,    \* addresses of status objects
  None,       \* the NULL pointer
  Faults      \* what may fail by itself

ASSUME TrafficTestAssumption ==
  /\ Repeats \in Nat
  /\ MaxFaults \in Nat
  /\ None \notin Objects
  /\ Faults \subseteq {"modem", "net", "thread"}

VARIABLES
  state,       \* the shared program_state_t
  mpc,         \* where the main thread is
  cpc,         \* where the collector thread is
  sig,         \* disposition of SIGINT: "armed" or "ignored"
  handlers,    \* the threads that run int_handler
  eintr,       \* threads whose modem command was interrupted by the signal
  finished,    \* main: finished_repeats
  faultcount,  \* main: faultcount
  i,           \* perform_transmissions: i
  phase,       \* tc_upload_randomdata: which status report is being made
  counter,     \* progress context: trace_transmission_counter
  seen,        \* progress_callback: the status pointers it copied
  shared,      \* modem_status: the status pointers
  new, old,    \* status_collector: its local pointers
  live,        \* status objects allocated and not freed in this session
  lock,        \* modem_status.lock: "none" (not initialised), "free", owner
  modem,       \* the modem handle is open
  trace,       \* the trace file is open
  row,         \* history: transmission number of the last row of the trace
  completed    \* history: transmissions whose payload was sent completely

heap     == <<shared, new, old, live>>
counters == <<finished, faultcount, i, counter, completed>>
device   == <<modem, trace, row>>
vars == <<state, mpc, cpc, sig, handlers, eintr, counters, phase, seen, heap, lock, device>>

\* program_state_t
NORMAL == 0
RESUME == 1
EXIT   == 2
FINISH == 3

Threads == {"main", "collector"}

MainLabels ==
  {"while", "resume", "giveup", "recover", "renew", "open", "openfail",
   "setrat", "getdata", "setdata", "startgps", "conffail", "confdestroy",
   "launch", "tx", "perform", "cblock", "cbcopy", "cbreturn", "txdone",
   "endtx", "finish", "join", "release", "closetrace", "done", "aborted"}

CollectorLabels ==
  {"off", "while", "collect", "fail", "lock", "swap", "free", "ended"}

TypeOK ==
  /\ state \in {NORMAL, RESUME, EXIT, FINISH}
  /\ mpc \in MainLabels
  /\ cpc \in CollectorLabels
  /\ sig \in {"armed", "ignored"}
  /\ handlers \subseteq Threads
  /\ eintr \subseteq Threads
  /\ finished \in 0..Repeats
  /\ faultcount \in 0..(MaxFaults + 1)
  /\ i \in 0..Repeats
  /\ phase \in {"first", "progress", "final"}
  /\ counter \in 0..Repeats
  /\ seen \in Objects \cup {None}
  /\ shared \in Objects \cup {None}
  /\ new \in Objects \cup {None}
  /\ old \in Objects \cup {None}
  /\ live \subseteq Objects
  /\ lock \in {"none", "free"} \cup Threads
  /\ modem \in BOOLEAN
  /\ trace \in BOOLEAN
  /\ row \in 0..Repeats
  /\ completed \in 0..Repeats

Init ==
  /\ state = NORMAL
  /\ mpc = "while"
  /\ cpc = "off"
  /\ sig = "armed"
  /\ handlers = {}
  /\ eintr = {}
  /\ finished = 0 /\ faultcount = 0 /\ i = 0 /\ counter = 0 /\ completed = 0
  /\ phase = "first"
  /\ seen = None /\ shared = None /\ new = None /\ old = None
  /\ live = {}
  /\ lock = "none"
  /\ modem = FALSE
  /\ trace = TRUE
  /\ row = 0

-----------------------------------------------------------------------------
(* A thread that runs the signal handler takes no step of its own.         *)

Main(from, to) == mpc = from /\ "main" \notin handlers /\ mpc' = to

Collector(from, to) == cpc = from /\ "collector" \notin handlers /\ cpc' = to

\* Returns of a modem command issued by thread t.  select() is not restarted
\* after a handler ran in t: it fails with EINTR, an I/O error of the command.
Succeeds(t) == eintr' = eintr \ {t}

Fails(t) == ("modem" \in Faults \/ t \in eintr) /\ eintr' = eintr \ {t}

-----------------------------------------------------------------------------
(* main(): the recovery loop                                               *)

LoopTest ==
  /\ Main("while", IF state <= RESUME THEN "resume" ELSE "closetrace")
  /\ UNCHANGED <<state, cpc, sig, handlers, eintr, counters, phase, seen, heap, lock, device>>

\* Mutant: faults are not counted.
ResumeUncounted ==
  /\ Main("resume", IF state = RESUME THEN "recover" ELSE "open")
  /\ UNCHANGED <<state, cpc, sig, handlers, eintr, counters, phase, seen, heap, lock, device>>

ResumeTest ==
  /\ IF state = RESUME
     THEN /\ faultcount' = faultcount + 1
          /\ Main("resume", IF faultcount' > MaxFaults THEN "giveup" ELSE "recover")
     ELSE Main("resume", "open") /\ UNCHANGED faultcount
  /\ UNCHANGED <<state, cpc, sig, handlers, eintr, finished, i, counter, completed, phase,
                 seen, heap, lock, device>>

GiveUp ==
  /\ Main("giveup", "closetrace")
  /\ state' = EXIT
  /\ UNCHANGED <<cpc, sig, handlers, eintr, counters, phase, seen, heap, lock, device>>

\* "was there an ctrl+c ? -> quit", after the recovery time
CtrlCTest ==
  /\ Main("recover", IF state > RESUME THEN "while" ELSE "renew")
  /\ UNCHANGED <<state, cpc, sig, handlers, eintr, counters, phase, seen, heap, lock, device>>

Renew ==
  /\ Main("renew", "open")
  /\ state' = NORMAL
  /\ UNCHANGED <<cpc, sig, handlers, eintr, counters, phase, seen, heap, lock, device>>

OpenModem ==
  /\ \/ Main("open", "setrat") /\ modem' = TRUE
     \/ Main("open", "openfail") /\ "modem" \in Faults /\ UNCHANGED modem
  /\ UNCHANGED <<state, cpc, sig, handlers, eintr, counters, phase, seen, heap, lock, trace, row>>

OpenFailed ==
  /\ Main("openfail", "while")
  /\ state' = RESUME
  /\ UNCHANGED <<cpc, sig, handlers, eintr, counters, phase, seen, heap, lock, device>>

-----------------------------------------------------------------------------
(* configure_modem(): only a data connection that cannot be established    *)
(* is an error; the other results are logged.                              *)

ConfigureStep(from, to, ret) ==
  /\ Main(from, to)
  /\ ret
  /\ UNCHANGED <<state, cpc, sig, handlers, counters, phase, seen, heap, lock, device>>

SetRadioAccessType ==
  ConfigureStep("setrat", "getdata", Succeeds("main") \/ Fails("main"))

\* Enabled already, or disabled or unknown.
GetDataConnection ==
  \/ ConfigureStep("getdata", "startgps", Succeeds("main"))
  \/ ConfigureStep("getdata", "setdata", Succeeds("main") \/ Fails("main"))

SetDataConnection ==
  \/ ConfigureStep("setdata", "startgps", Succeeds("main"))
  \/ ConfigureStep("setdata", "conffail", Fails("main"))

StartGps ==
  ConfigureStep("startgps", "launch", Succeeds("main") \/ Fails("main"))

ConfigureFailed ==
  /\ Main("conffail", "confdestroy")
  /\ state' = RESUME
  /\ UNCHANGED <<cpc, sig, handlers, eintr, counters, phase, seen, heap, lock, device>>

DestroyUnconfigured ==
  /\ Main("confdestroy", "while")
  /\ modem' = FALSE
  /\ UNCHANGED <<state, cpc, sig, handlers, eintr, counters, phase, seen, heap, lock, trace, row>>

-----------------------------------------------------------------------------
(* A session: modem status, collector thread, transmissions                *)

\* Mutant: the rows of a new session are numbered from zero.
LaunchRestartsTrace ==
  /\ Main("launch", "tx")
  /\ cpc' = "while"
  /\ shared' = None /\ new' = None /\ old' = None /\ live' = {}
  /\ lock' = "free"
  /\ counter' = 0
  /\ faultcount' = 0
  /\ i' = finished
  /\ UNCHANGED <<state, sig, handlers, eintr, finished, completed, phase, seen, device>>

\* Mutant: a new session does not skip what earlier ones transmitted.
LaunchRepeats ==
  /\ Main("launch", "tx")
  /\ cpc' = "while"
  /\ shared' = None /\ new' = None /\ old' = None /\ live' = {}
  /\ lock' = "free"
  /\ counter' = finished
  /\ faultcount' = 0
  /\ i' = 0
  /\ UNCHANGED <<state, sig, handlers, eintr, finished, completed, phase, seen, device>>

Launch ==
  /\ Main("launch", "tx")
  /\ cpc' = "while"
  /\ shared' = None /\ new' = None /\ old' = None /\ live' = {}
  /\ lock' = "free"
  /\ counter' = finished
  /\ faultcount' = 0
  /\ i' = finished
  /\ UNCHANGED <<state, sig, handlers, eintr, finished, completed, phase, seen, device>>

\* Mutant: one transmission too many.
NextTransmissionInclusive ==
  /\ \/ i <= Repeats /\ Main("tx", "cblock") /\ phase' = "first"
     \/ i > Repeats /\ Main("tx", "endtx") /\ UNCHANGED phase
  /\ UNCHANGED <<state, cpc, sig, handlers, eintr, counters, seen, heap, lock, device>>

\* The system gives no mutex or no thread, and main calls abort(), or no memory
\* for the collector's arguments, which main writes to without a look.
Abort ==
  /\ "thread" \in Faults
  /\ Main("launch", "aborted")
  /\ UNCHANGED <<state, cpc, sig, handlers, eintr, counters, phase, seen, heap, lock, device>>

\* perform_transmissions(): the next upload, or the end of the loop.  libcurl
\* may give no handle: the upload returns at once and reports nothing.
NextTransmission ==
  /\ \/ i < Repeats /\ Main("tx", "cblock") /\ phase' = "first"
     \/ i < Repeats /\ Main("tx", "txdone") /\ "net" \in Faults /\ UNCHANGED phase
     \/ i >= Repeats /\ Main("tx", "endtx") /\ UNCHANGED phase
  /\ UNCHANGED <<state, cpc, sig, handlers, eintr, counters, seen, heap, lock, device>>

\* curl_easy_perform() calls xferinfo, and the minimal interval has elapsed.
ReportProgress ==
  /\ Main("perform", "cblock")
  /\ phase' = "progress"
  /\ UNCHANGED <<state, cpc, sig, handlers, eintr, counters, seen, heap, lock, device>>

\* curl_easy_perform() returns CURLE_OK: the final report follows.
UploadComplete ==
  /\ Main("perform", "cblock")
  /\ phase' = "final"
  /\ completed' = completed + 1
  /\ UNCHANGED <<state, cpc, sig, handlers, eintr, finished, faultcount, i, counter, seen,
                 heap, lock, device>>

\* It returns an error of the network: the final report follows all the same.
UploadFailed ==
  /\ "net" \in Faults
  /\ Main("perform", "cblock")
  /\ phase' = "final"
  /\ UNCHANGED <<state, cpc, sig, handlers, eintr, counters, seen, heap, lock, device>>

\* Mutant: the callback does not wait for the lock.
CallbackUnlocked ==
  /\ Main("cblock", "cbcopy")
  /\ seen' = shared
  /\ UNCHANGED <<state, cpc, sig, handlers, eintr, counters, phase, heap, lock, device>>

\* progress_callback(): take the lock and the pointers, copy what they point
\* to and unlock, write a row, and cancel the transfer unless all is normal.
CallbackLock ==
  /\ lock = "free"
  /\ Main("cblock", "cbcopy")
  /\ lock' = "main"
  /\ seen' = shared
  /\ UNCHANGED <<state, cpc, sig, handlers, eintr, counters, phase, heap, device>>

CallbackCopy ==
  /\ Main("cbcopy", "cbreturn")
  /\ lock' = "free"
  /\ row' = IF trace THEN counter ELSE row
  /\ UNCHANGED <<state, cpc, sig, handlers, eintr, counters, phase, seen, heap, modem, trace>>

\* Mutant: the first report can cancel as well.
CallbackCancelsFirst ==
  /\ \/ phase # "final" /\ state = NORMAL /\ Main("cbreturn", "perform") /\ UNCHANGED phase
     \/ phase # "final" /\ state # NORMAL /\ Main("cbreturn", "cblock") /\ phase' = "final"
     \/ phase = "final" /\ Main("cbreturn", "txdone") /\ UNCHANGED phase
  /\ UNCHANGED <<state, cpc, sig, handlers, eintr, counters, seen, heap, lock, device>>

\* Mutant: the callback never cancels.
CallbackNeverCancels ==
  /\ \/ phase # "final" /\ Main("cbreturn", "perform")
     \/ phase = "final" /\ Main("cbreturn", "txdone")
  /\ UNCHANGED <<state, cpc, sig, handlers, eintr, counters, phase, seen, heap, lock, device>>

\* Only xferinfo passes the callback's result on to libcurl, which returns
\* CURLE_ABORTED_BY_CALLBACK; the first and the final report ignore it.
CallbackReturn ==
  /\ \/ phase = "first" /\ Main("cbreturn", "perform") /\ UNCHANGED phase
     \/ phase = "progress" /\ state = NORMAL /\ Main("cbreturn", "perform") /\ UNCHANGED phase
     \/ phase = "progress" /\ state # NORMAL /\ Main("cbreturn", "cblock") /\ phase' = "final"
     \/ phase = "final" /\ Main("cbreturn", "txdone") /\ UNCHANGED phase
  /\ UNCHANGED <<state, cpc, sig, handlers, eintr, counters, seen, heap, lock, device>>

TransmissionDone ==
  /\ Main("txdone", IF state # NORMAL THEN "endtx" ELSE "tx")
  /\ counter' = counter + 1
  /\ i' = i + 1
  /\ UNCHANGED <<state, cpc, sig, handlers, eintr, finished, faultcount, completed, phase,
                 seen, heap, lock, device>>

\* Mutant: nothing tells the collector that the transmissions are over.
EndNeverFinishes ==
  /\ Main("endtx", "join")
  /\ finished' = i
  /\ UNCHANGED <<state, cpc, sig, handlers, eintr, faultcount, i, counter, completed, phase,
                 seen, heap, lock, device>>

EndTransmissions ==
  /\ Main("endtx", IF state = NORMAL THEN "finish" ELSE "join")
  /\ finished' = i
  /\ UNCHANGED <<state, cpc, sig, handlers, eintr, faultcount, i, counter, completed, phase,
                 seen, heap, lock, device>>

Finish ==
  /\ Main("finish", "join")
  /\ state' = FINISH
  /\ UNCHANGED <<cpc, sig, handlers, eintr, counters, phase, seen, heap, lock, device>>

\* Mutant: the collector is left running.
JoinNobody ==
  /\ Main("join", "release")
  /\ UNCHANGED <<state, cpc, sig, handlers, eintr, counters, phase, seen, heap, lock, device>>

JoinCollector ==
  /\ cpc = "ended"
  /\ Main("join", "release")
  /\ cpc' = "off"
  /\ UNCHANGED <<state, sig, handlers, eintr, counters, phase, seen, heap, lock, device>>

\* release_modem_status() destroys the mutex only: what the pointers refer to
\* is never freed, and the model forgets it with the session.
ReleaseSession ==
  /\ Main("release", "while")
  /\ lock' = "none"
  /\ modem' = FALSE
  /\ UNCHANGED <<state, cpc, sig, handlers, eintr, counters, phase, seen, heap, trace, row>>

CloseTrace ==
  /\ Main("closetrace", "done")
  /\ trace' = FALSE
  /\ UNCHANGED <<state, cpc, sig, handlers, eintr, counters, phase, seen, heap, lock, modem, row>>

\* The process is gone: main() has returned, or has aborted.
Gone == mpc \in {"done", "aborted"}

Exited == Gone /\ UNCHANGED vars

-----------------------------------------------------------------------------
(* status_collector()                                                      *)

CollectorTest ==
  /\ Collector("while", IF state = NORMAL THEN "collect" ELSE "ended")
  /\ UNCHANGED <<state, mpc, sig, handlers, eintr, counters, phase, seen, heap, lock, device>>

\* get_status, get_lteinfo and get_gpsloc allocate what they return; the
\* first one that fails critically ends the collection, and what the ones
\* before it allocated stays allocated.
Collect ==
  /\ \/ /\ Collector("collect", "lock")
        /\ Succeeds("collector")
        /\ \E o \in Objects \ live : new' = o /\ live' = live \cup {o}
     \/ /\ Collector("collect", "fail")
        /\ Fails("collector")
        /\ \/ \E o \in Objects \ live : new' = o /\ live' = live \cup {o}
           \/ UNCHANGED <<new, live>>
  /\ UNCHANGED <<state, mpc, sig, handlers, counters, phase, seen, shared, old, lock, device>>

CollectorFailed ==
  /\ Collector("fail", "ended")
  /\ state' = RESUME
  /\ UNCHANGED <<mpc, sig, handlers, eintr, counters, phase, seen, heap, lock, device>>

CollectorLock ==
  /\ lock = "free"
  /\ Collector("lock", "swap")
  /\ lock' = "collector"
  /\ UNCHANGED <<state, mpc, sig, handlers, eintr, counters, phase, seen, heap, device>>

Swap ==
  /\ Collector("swap", "free")
  /\ old' = shared
  /\ shared' = new
  /\ lock' = "free"
  /\ UNCHANGED <<state, mpc, sig, handlers, eintr, counters, phase, seen, new, live, device>>

\* Mutant: the replaced status is not freed.
FreeNothing ==
  /\ Collector("free", "while")
  /\ UNCHANGED <<state, mpc, sig, handlers, eintr, counters, phase, seen, heap, lock, device>>

FreeOld ==
  /\ Collector("free", "while")
  /\ live' = live \ {old}
  /\ UNCHANGED <<state, mpc, sig, handlers, eintr, counters, phase, seen, shared, new, old,
                 lock, device>>

-----------------------------------------------------------------------------
(* int_handler(), in either thread                                         *)

Commanding(t) ==
  \/ t = "main" /\ mpc \in {"setrat", "getdata", "setdata", "startgps"}
  \/ t = "collector" /\ cpc = "collect"

\* The threads T enter the handler before the first of them ignores further
\* signals.  In a thread that runs it the signal is blocked, but a second one can
\* hit the other.  What a handler does up to there stops its thread, no more, so
\* that one step stands for it all.
Sigint(T) ==
  /\ sig = "armed"
  /\ ~Gone
  /\ "collector" \in T => cpc \notin {"off", "ended"}
  /\ sig' = "ignored"
  /\ handlers' = T
  /\ eintr' = eintr \cup {t \in T : Commanding(t)}
  /\ UNCHANGED <<state, mpc, cpc, counters, phase, seen, heap, lock, device>>

HandlerStore(t) ==
  /\ t \in handlers
  /\ handlers' = handlers \ {t}
  /\ state' = FINISH
  /\ UNCHANGED <<mpc, cpc, sig, eintr, counters, phase, seen, heap, lock, device>>

-----------------------------------------------------------------------------

MainNext ==
  \/ LoopTest \/ ResumeTest \/ GiveUp \/ CtrlCTest \/ Renew
  \/ OpenModem \/ OpenFailed
  \/ SetRadioAccessType \/ GetDataConnection \/ SetDataConnection \/ StartGps
  \/ ConfigureFailed \/ DestroyUnconfigured
  \/ Launch \/ Abort \/ NextTransmission
  \/ ReportProgress \/ UploadComplete \/ UploadFailed
  \/ CallbackLock \/ CallbackCopy \/ CallbackReturn
  \/ TransmissionDone \/ EndTransmissions \/ Finish
  \/ JoinCollector \/ ReleaseSession \/ CloseTrace

CollectorNext ==
  \/ CollectorTest \/ Collect \/ CollectorFailed
  \/ CollectorLock \/ Swap \/ FreeOld

HandlerNext == \E t \in Threads : HandlerStore(t)

Next ==
  \/ MainNext
  \/ CollectorNext
  \/ \E T \in SUBSET Threads \ {{}} : Sigint(T)
  \/ HandlerNext
  \/ Exited

Spec == Init /\ [][Next]_vars

\* Both threads are scheduled, and a handler that was entered runs to its
\* end.  A mutex is not withheld for ever from a thread that keeps asking for
\* it: the collector talks to the modem and sleeps outside it.  libcurl calls
\* xferinfo about once a second even when the server has stalled.
Fairness ==
  /\ WF_vars(MainNext)
  /\ WF_vars(CollectorNext)
  /\ WF_vars(HandlerNext)
  /\ SF_vars(CallbackLock)
  /\ SF_vars(CollectorLock)

FairSpec == Spec /\ Fairness

-----------------------------------------------------------------------------
(* Properties                                                              *)

\* progress_callback copies from status objects the collector may have
\* replaced meanwhile: those it reads under the lock are never freed, and the
\* collector frees, outside the lock, only what nobody can reach any more.
NoUseAfterFree ==
  /\ mpc = "cbcopy" => seen \in live \cup {None}
  /\ cpc = "free" => old \in live \cup {None} /\ old # shared

\* However long a session runs and however it ends, no more than the published
\* and one further status are allocated in it.
HeapBounded == Cardinality(live) <= 2

\* As long as the collector thread runs, the modem handle it was given is open
\* and the mutex exists; the callback finds the mutex too.
SessionOutlivesCollector ==
  /\ cpc \notin {"off", "ended"} => modem /\ lock # "none"
  /\ mpc \in {"cblock", "cbcopy"} => lock # "none"

\* main turns the program back to normal operation only when the collector of
\* the failed session has been joined: no second collector ever runs, and a
\* failed one never sees NORMAL again.
RenewsOnlyAlone == [][state # NORMAL /\ state' = NORMAL => cpc = "off"]_vars

\* Every row that is written carries the number of its transmission, counted
\* over all sessions, so that the rows ascend; none is lost to a closed trace.
TraceInOrder ==
  [][/\ row' >= row
     /\ mpc = "cbcopy" => trace
     /\ mpc = "cbcopy" /\ mpc' # "cbcopy" => row' = i]_vars

\* The program implements the campaign.  The transmission counter is i: the
\* main thread keeps it between sessions in finished_repeats.
Promise ==
  INSTANCE Campaign WITH
    counted     <- i,
    faults      <- faultcount,
    session     <- cpc # "off",
    interrupted <- sig = "ignored",
    outcome     <- IF ~Gone THEN "running"
                   ELSE IF mpc = "aborted" THEN "aborted"
                   ELSE IF state = EXIT THEN "gaveup"
                   ELSE IF finished = Repeats THEN "finished" ELSE "interrupted"

ImplementsCampaign == Promise!Spec

\* The uploads follow the protocol that Transfer states and TrafficCurl
\* implements: what main assumes of the library is what the library does.
Upload ==
  INSTANCE Transfer WITH
    stage <- IF mpc \in {"cblock", "cbcopy", "cbreturn"} THEN phase
             ELSE IF mpc = "perform" THEN "perform" ELSE "idle"

UploadsFollowProtocol == Upload!Spec

\* Without Ctrl-C, with a modem that never fails (no failure is ever stored),
\* with a server that accepts every payload in the end, and with a thread for
\* each session, the program ends with every payload sent.
Undisturbed ==
  /\ [](sig = "armed")
  /\ [](mpc # "aborted")
  /\ [](state # RESUME)
  /\ [](mpc = "txdone" => completed = i + 1)
  /\ SF_vars(UploadComplete)

CompletesUndisturbed == Undisturbed => <>(mpc = "done" /\ completed = Repeats)

\* If no session can ever be opened the program ends: it gives up, or aborts.
SetupFailuresEnd == [](cpc = "off") => <>Gone

\* A failure or a Ctrl-C seen during a transfer takes the session down, even
\* if the server has stalled: the callback cancels, the collector stops.
SessionTakenDown == (mpc = "perform" /\ state # NORMAL) ~> ~modem

\* "was there an ctrl+c ? -> quit" (traffic_test.c:592): once the handler has
\* run, the recovery does not return to normal operation.
CtrlCQuits ==
  [][sig = "ignored" /\ handlers = {} => ~(state # NORMAL /\ state' = NORMAL)]_vars

\* "Number of repetitions" (traffic_test.c:56, option -n): a program that ends
\* normally, not interrupted, has sent every payload completely.
EveryRepetitionSent ==
  mpc = "done" /\ state = FINISH /\ sig = "armed" => completed = Repeats

\* "Too many faults, giving up." (traffic_test.c:586): when nothing is left to
\* transmit, the program ends, whatever faults still occur.
NothingLeftEnds == (finished = Repeats) ~> Gone

=============================================================================

---------------------------- MODULE DeviceDriver ----------------------------
(***************************************************************************)
(* The device drivers for the Sierra Wireless EM7565 and MC7455 modems     *)
(* (src/src/cmnalib/src/devices/at_sierra_wireless_*.c) over the AT        *)
(* interface: an operation makes one command of the modem, maps its status *)
(* to a sw_response_t, looks for a value in its response, and releases it. *)
(*                                                                         *)
(* An operation is a record that says in which way its function does this: *)
(* one definition per function of the drivers; functions that do the same  *)
(* are the same operation.  The modem is external: it has a value for      *)
(* every quantity it can be asked for, executes commands in their order,   *)
(* as late as it likes or never, and says first the value and then OK, or  *)
(* ERROR; between two answers it says also what nobody asked for.  The AT  *)
(* interface is reduced to these messages (AtTty has the bytes), and       *)
(* always has the memory for a response.                                   *)
(***************************************************************************)
EXTENDS Naturals, Sequences, FiniteSets

CONSTANTS
  Drivers,     \* "em7565", "mc7455" or both
  Quantities,  \* the quantities of the modem under consideration
  Drifting,    \* those the modem changes by itself
  Values,      \* the values of a quantity
  Disabled,    \* the value that says that protected commands are disabled
  NoValue,     \* no value, or the error value of an enumeration
  MaxCalls,    \* bound: operations called in a behaviour
  MaxUnasked   \* bound: unasked texts in the response and in the queue

ASSUME DeviceDriverAssumption ==
  /\ Drivers \subseteq {"em7565", "mc7455"} /\ Drivers # {}
  /\ Drifting \subseteq Quantities
  /\ {"none", "other"} \cap Quantities = {}
  /\ Disabled \in Values
  /\ NoValue \notin Values
  /\ MaxCalls \in Nat /\ MaxUnasked \in Nat

-----------------------------------------------------------------------------
(* Operations                                                              *)

\* What a text may be about: a quantity, or none of them.
AnyText == Quantities \cup {"other"}

\* Sends a setting (or, with quantity "none", a mere command).
Command(of, nohandle) ==
  [asks |-> "set", of |-> of, nohandle |-> nohandle, failure |-> "FAILED",
   critical |-> "ERROR", unparsed |-> "SUCCESS", parses |-> {}, accepts |-> {},
   otherwise |-> NoValue, allocates |-> FALSE, refuses |-> "no",
   releases |-> TRUE]

\* A Command whose parameters are checked before anything is sent.
Validating(of) == [Command(of, "ERROR") EXCEPT !.refuses = "ERROR"]

\* Mutant: any text is taken for the answer.
QueryAnything(of, nohandle, error, unparsed) ==
  [asks |-> "get", of |-> of, nohandle |-> nohandle, failure |-> error,
   critical |-> error, unparsed |-> unparsed, parses |-> {"SUCCESS"},
   accepts |-> AnyText, otherwise |-> NoValue, allocates |-> FALSE, refuses |-> "no",
   releases |-> TRUE]

\* Asks for a quantity; any failure of the command gives the same error.
Query(of, nohandle, error, unparsed) ==
  [asks |-> "get", of |-> of, nohandle |-> nohandle, failure |-> error,
   critical |-> error, unparsed |-> unparsed, parses |-> {"SUCCESS"},
   accepts |-> {of}, otherwise |-> NoValue, allocates |-> FALSE, refuses |-> "no",
   releases |-> TRUE]

\* Asks for a quantity; failures are told apart like those of a Command.
Checked(of, nohandle, unparsed) ==
  [Query(of, nohandle, "FAILED", unparsed) EXCEPT !.critical = "ERROR"]

\* The same, but any text is taken for the answer.
Credulous(of, nohandle, unparsed) ==
  [Checked(of, nohandle, unparsed) EXCEPT !.accepts = AnyText]

\* The same, and the response is parsed whatever the status.
Lenient(of, nohandle) ==
  [Credulous(of, nohandle, "SUCCESS") EXCEPT
     !.parses = {"SUCCESS", "FAILED", "TIMEOUT", "IO_ERROR"}]

\* A Query that allocates its result first.
Allocating(of) ==
  [Query(of, "INVAL", "ERROR", "SUCCESS") EXCEPT
     !.allocates = TRUE, !.refuses = "OUT_OF_MEMORY"]

\* at_sierra_wireless_em7565.c
em7565_is_ready                     == Command("none", "INVAL")
em7565_set_protected_commands       == Command("protected", "INVAL")
\* The first word, be it a result code, is the password or says "disabled", and
\* so does everything else, even a call without a handle.
em7565_get_protected_commands       ==
  [Lenient("protected", "UNKNOWN") EXCEPT
     !.accepts = AnyText \cup {"none"}, !.otherwise = Disabled]
em7565_reset                        == Command("none", "INVAL")
em7565_get_status                   == Query("status", "INVAL", "ERROR", "SUCCESS")
em7565_get_information              == Query("information", "INVAL", "ERROR", "SUCCESS")
em7565_get_lteinfo                  == Query("lteinfo", "INVAL", "ERROR", "SUCCESS")
em7565_get_gpsloc                   == Query("gpsloc", "INVAL", "ERROR", "SUCCESS")
em7565_stop_gps                     == Command("gps", "ERROR")
em7565_start_gps                    == Command("gps", "ERROR")
em7565_set_antenna_power            == Command("antenna", "ERROR")
em7565_get_antenna_power            == Query("antenna", "NOVALUE", "NOVALUE", "NOVALUE")
em7565_set_APN                      == Validating("apn")
em7565_set_data_connection          == Command("data", "ERROR")
em7565_get_data_connection          == Query("data", "NOVALUE", "NOVALUE", "NOVALUE")
em7565_set_radio_access_type        == Command("rat", "ERROR")
em7565_get_radio_access_type        == Query("rat", "ERROR", "FAILED", "FAILED")
em7565_select_band_config_profile   == Command("band", "ERROR")
em7565_remove_band_config_profile   == Command("profiles", "ERROR")
\* What stands before the OK, and nothing without one.
em7565_get_band_config_profile      == Credulous("band", "ERROR", "SUCCESS")
em7565_add_band_config_profile      == Command("profiles", "ERROR")
em7565_get_band_config_profile_list == Lenient("profiles", "ERROR")
em7565_network_search               == Lenient("networks", "ERROR")
em7565_select_network               == Validating("operator")
em7565_get_current_operator         == Credulous("operator", "ERROR", "FAILED")
em7565_get_gps_autostart_mode       == Query("autostart", "SUCCESS", "SUCCESS", "SUCCESS")
em7565_set_gps_autostart_mode       == Command("autostart", "ERROR")
em7565_gps_status                   == Checked("gps", "INVAL", "FAILED")

Em7565 ==
  {em7565_is_ready, em7565_set_protected_commands, em7565_get_protected_commands,
   em7565_reset, em7565_get_status, em7565_get_information, em7565_get_lteinfo,
   em7565_get_gpsloc, em7565_stop_gps, em7565_start_gps, em7565_set_antenna_power,
   em7565_get_antenna_power, em7565_set_APN, em7565_set_data_connection,
   em7565_get_data_connection, em7565_set_radio_access_type,
   em7565_get_radio_access_type, em7565_select_band_config_profile,
   em7565_remove_band_config_profile, em7565_get_band_config_profile,
   em7565_add_band_config_profile, em7565_get_band_config_profile_list,
   em7565_network_search, em7565_select_network, em7565_get_current_operator,
   em7565_get_gps_autostart_mode, em7565_set_gps_autostart_mode, em7565_gps_status}

\* at_sierra_wireless_mc7455.c
mc7455_is_ready              == Command("none", "INVAL")
mc7455_reset                 == Command("none", "INVAL")
mc7455_get_status            == Allocating("status")
mc7455_get_information       == Allocating("information")
mc7455_get_lteinfo           == Allocating("lteinfo")
mc7455_get_gpsloc            == Allocating("gpsloc")
mc7455_stop_gps              == Command("gps", "ERROR")
mc7455_start_gps             == Command("gps", "ERROR")
mc7455_set_antenna_power     == Command("antenna", "ERROR")
mc7455_get_antenna_power     == Query("antenna", "NOVALUE", "NOVALUE", "NOVALUE")
mc7455_set_APN               == Validating("apn")
mc7455_set_data_connection   == Command("data", "ERROR")
mc7455_get_data_connection   == Query("data", "NOVALUE", "NOVALUE", "NOVALUE")
mc7455_set_radio_access_type == Command("rat", "ERROR")
mc7455_get_radio_access_type ==
  [Query("rat", "ERROR", "FAILED", "FAILED") EXCEPT !.releases = FALSE]

Mc7455 ==
  {mc7455_is_ready, mc7455_reset, mc7455_get_status, mc7455_get_information,
   mc7455_get_lteinfo, mc7455_get_gpsloc, mc7455_stop_gps, mc7455_start_gps,
   mc7455_set_antenna_power, mc7455_get_antenna_power, mc7455_set_APN,
   mc7455_set_data_connection, mc7455_get_data_connection,
   mc7455_set_radio_access_type, mc7455_get_radio_access_type}

Operations(d) ==
  {o \in IF d = "em7565" THEN Em7565 ELSE Mc7455 :
     o.of \in Quantities \cup {"none"}}

\* sw_response_t; "NOVALUE" is the error value of the functions that return
\* the value they ask for.
Results ==
  {"SUCCESS", "FAILED", "INVAL", "ERROR", "OUT_OF_MEMORY", "UNKNOWN", "NOVALUE"}

VARIABLES
  driver,     \* which of the two drivers the caller uses
  pc,         \* where the caller is: "closed" without a handle, "idle" with one
  op, arg,    \* the operation called last, and the value it sets
  status,     \* the status of its command, "NONE" before it has one
  response,   \* the response being received, or released
  result,     \* what the operation returned, "NONE" before it returns
  reading,    \* the value it gave to the caller
  memory,     \* blocks the operation has allocated and not released
  calls,      \* operations called
  abandoned,  \* history: at its flush, an earlier command was unanswered
  during,     \* history: values of the quantity since the call
  setting,    \* modem: the value of every quantity
  inbox,      \* modem: commands received and not executed
  speaking,   \* modem: the rest of the answer being sent
  input       \* messages arrived and not received

caller == <<driver, op, arg, calls>>
outcome == <<status, response, result, reading, memory>>
link == <<inbox, speaking, input>>
vars == <<pc, caller, outcome, abandoned, during, setting, link>>

\* Messages: a text with the value asked for, a text that nobody asked for, and
\* the final result codes.  (Only the properties look at "asked".)
Text(of, v) == [says |-> "text", of |-> of, value |-> v, asked |-> TRUE]
Report(of, v) == [says |-> "text", of |-> of, value |-> v, asked |-> FALSE]
Final(word) == [says |-> word, of |-> "none", value |-> NoValue, asked |-> TRUE]

Messages ==
  {Text(q, v) : q \in Quantities, v \in Values}
    \cup {Report(t, v) : t \in AnyText, v \in Values}
    \cup {Final("OK"), Final("ERROR")}

Statuses == {"SUCCESS", "FAILED", "TIMEOUT", "IO_ERROR"}

Optional(v) == v \in Values \cup {NoValue}

TypeOK ==
  /\ driver \in Drivers
  /\ pc \in {"closed", "idle", "flush", "send", "wait"}
  /\ op \in Operations(driver)
  /\ Optional(arg)
  /\ status \in Statuses \cup {"NONE"}
  /\ response \in Seq(Messages)
  /\ result \in Results \cup {"NONE"}
  /\ Optional(reading)
  /\ memory \subseteq {"response", "result"}
  /\ calls \in 0..MaxCalls
  /\ abandoned \in BOOLEAN
  /\ during \subseteq Values
  /\ setting \in [Quantities -> Values]
  /\ inbox \in Seq(Operations(driver) \X (Values \cup {NoValue}))
  /\ speaking \in Seq(Messages)
  /\ input \in Seq(Messages)

Init ==
  /\ driver \in Drivers
  /\ pc = "closed"
  /\ op = em7565_is_ready /\ arg = NoValue /\ calls = 0
  /\ status = "NONE" /\ response = <<>> /\ result = "NONE"
  /\ reading = NoValue /\ memory = {}
  /\ abandoned = FALSE
  /\ during = {}
  /\ setting \in [Quantities -> Values]
  /\ inbox = <<>> /\ speaking = <<>> /\ input = <<>>

-----------------------------------------------------------------------------
(* The modem                                                               *)

Calling == pc \in {"flush", "send", "wait"}

Becomes(q, v) ==
  /\ setting' = [setting EXCEPT ![q] = v]
  /\ during' = IF Calling /\ q = op.of THEN during \cup {v} ELSE during

Take == speaking = <<>> /\ inbox # <<>> /\ inbox' = Tail(inbox)

ExecuteSet ==
  /\ Take
  /\ LET o == Head(inbox)[1] IN
       /\ o.asks = "set"
       /\ IF o.of = "none" THEN UNCHANGED <<setting, during>>
          ELSE Becomes(o.of, Head(inbox)[2])
  /\ speaking' = <<Final("OK")>>
  /\ UNCHANGED <<pc, caller, outcome, abandoned, input>>

\* An answer need not have the value: not every quantity always has one.
ExecuteGet ==
  /\ Take
  /\ LET o == Head(inbox)[1] IN
       /\ o.asks = "get"
       /\ \/ speaking' = <<Text(o.of, setting[o.of]), Final("OK")>>
          \/ speaking' = <<Final("OK")>>
  /\ UNCHANGED <<pc, caller, outcome, abandoned, during, setting, input>>

\* The modem refuses a command, or never answers it.
Refuse ==
  /\ Take
  /\ speaking' \in {<<Final("ERROR")>>, <<>>}
  /\ UNCHANGED <<pc, caller, outcome, abandoned, during, setting, input>>

Say ==
  /\ speaking # <<>>
  /\ input' = Append(input, Head(speaking))
  /\ speaking' = Tail(speaking)
  /\ UNCHANGED <<pc, caller, outcome, abandoned, during, setting, inbox>>

\* Between two answers the modem reports a value that it changes by itself, or
\* says something else.
SpeakUnasked ==
  /\ speaking = <<>>
  /\ Cardinality({j \in DOMAIN (response \o input) : ~(response \o input)[j].asked})
       < MaxUnasked
  /\ \E m \in {Report(q, setting[q]) : q \in Drifting}
              \cup {Report("other", v) : v \in Values} :
       input' = Append(input, m)
  /\ UNCHANGED <<pc, caller, outcome, abandoned, during, setting, inbox, speaking>>

Drift ==
  /\ \E q \in Drifting, v \in Values : Becomes(q, v)
  /\ UNCHANGED <<pc, caller, outcome, abandoned, link>>

ModemNext == ExecuteSet \/ ExecuteGet \/ Refuse \/ Say \/ SpeakUnasked \/ Drift

-----------------------------------------------------------------------------
(* The handle                                                              *)

Open ==
  /\ pc = "closed"
  /\ pc' = "idle"
  /\ UNCHANGED <<caller, outcome, abandoned, during, setting, link>>

\* The kernel may drop what was not read.
Destroy ==
  /\ pc = "idle"
  /\ pc' = "closed"
  /\ input' \in {input, <<>>}
  /\ UNCHANGED <<caller, outcome, abandoned, during, setting, inbox, speaking>>

-----------------------------------------------------------------------------
(* An operation.  The caller has freed what the operation before returned. *)

Begin(o, v) ==
  /\ calls < MaxCalls
  /\ calls' = calls + 1
  /\ op' = o
  /\ arg' = v
  /\ UNCHANGED driver

\* Operation o returns before it makes a command.
ReturnAtOnce(o, ret) ==
  /\ result' = ret
  /\ reading' = o.otherwise
  /\ memory' = {}
  /\ during' = {}
  /\ UNCHANGED <<pc, status, response, abandoned, setting, link>>

CallWithoutHandle(o) ==
  /\ pc = "closed"
  /\ Begin(o, NoValue)
  /\ ReturnAtOnce(o, o.nohandle)

\* Wrong parameters, or no memory for the result.
CallRefused(o) ==
  /\ pc = "idle"
  /\ o.refuses # "no"
  /\ Begin(o, NoValue)
  /\ ReturnAtOnce(o, o.refuses)

Arguments(o) == IF o.asks = "set" /\ o.of # "none" THEN Values ELSE {NoValue}

\* Mutant: the response is not emptied.
CallKeepsResponse(o, v) ==
  /\ pc = "idle"
  /\ Begin(o, v)
  /\ pc' = "flush"
  /\ status' = "NONE" /\ result' = "NONE" /\ reading' = NoValue
  /\ memory' = {"response"} \cup IF o.allocates THEN {"result"} ELSE {}
  /\ during' = IF o.of = "none" THEN {} ELSE {setting[o.of]}
  /\ UNCHANGED <<response, abandoned, setting, link>>

Call(o, v) ==
  /\ pc = "idle"
  /\ Begin(o, v)
  /\ pc' = "flush"
  /\ status' = "NONE" /\ response' = <<>> /\ result' = "NONE" /\ reading' = NoValue
  /\ memory' = {"response"} \cup IF o.allocates THEN {"result"} ELSE {}
  /\ during' = IF o.of = "none" THEN {} ELSE {setting[o.of]}
  /\ UNCHANGED <<abandoned, setting, link>>

\* Mutant: answers that came too late are left in the queue.
FlushNothing ==
  /\ pc = "flush"
  /\ pc' = "send"
  /\ abandoned' = (inbox # <<>> \/ speaking # <<>>)
  /\ UNCHANGED <<caller, outcome, during, setting, link>>

Flush ==
  /\ pc = "flush"
  /\ pc' = "send"
  /\ input' = <<>>
  /\ abandoned' = (inbox # <<>> \/ speaking # <<>>)
  /\ UNCHANGED <<caller, outcome, during, setting, inbox, speaking>>

Send ==
  /\ pc = "send"
  /\ pc' = "wait"
  /\ inbox' = Append(inbox, <<op, arg>>)
  /\ UNCHANGED <<caller, outcome, abandoned, during, setting, speaking, input>>

\* What operation o takes for the value in response r: the first message that it
\* accepts.  A final result code has none.
Value(o, r) ==
  LET accepted == {j \in DOMAIN r : r[j].of \in o.accepts}
      first == CHOOSE j \in accepted : \A k \in accepted : j <= k
  IN IF accepted # {} /\ r[first].value # NoValue THEN r[first].value ELSE o.otherwise

\* Mutant: a critical status is returned as it is.
ReportedRaw(o, s, v) ==
  CASE s = "SUCCESS" /\ (o.asks = "set" \/ v # NoValue) -> "SUCCESS"
    [] s = "SUCCESS" /\ o.asks = "get" /\ v = NoValue -> o.unparsed
    [] s \in {"FAILED", "TIMEOUT"} -> o.failure
    [] OTHER -> s

\* How operation o reports status s and the value v it has found.
Reported(o, s, v) ==
  CASE s = "SUCCESS" /\ (o.asks = "set" \/ v # NoValue) -> "SUCCESS"
    [] s = "SUCCESS" /\ o.asks = "get" /\ v = NoValue -> o.unparsed
    [] s \in {"FAILED", "TIMEOUT"} -> o.failure
    [] OTHER -> o.critical

\* Mutant: after a failure nothing is released.
KeptOnFailure(o, s) ==
  {b \in {"response", "result"} :
     s # "SUCCESS" \/ IF b = "result" THEN o.allocates ELSE ~o.releases}

\* What of the operation's memory is not released: the result, for the caller,
\* and in one function the response.
Kept(o, s) ==
  {b \in {"response", "result"} :
     s = "SUCCESS" /\ IF b = "result" THEN o.allocates ELSE ~o.releases}

Return(s, r) ==
  /\ pc' = "idle"
  /\ status' = s
  /\ response' = r
  /\ reading' = IF s \in op.parses THEN Value(op, r) ELSE op.otherwise
  /\ result' = Reported(op, s, reading')
  /\ memory' = Kept(op, s)

Receive ==
  /\ pc = "wait"
  /\ \E k \in 1..Len(input) :
       LET r == response \o SubSeq(input, 1, k)
           words == {r[j].says : j \in DOMAIN r}
       IN /\ input' = SubSeq(input, k + 1, Len(input))
          /\ \/ "OK" \in words /\ Return("SUCCESS", r)
             \/ "OK" \notin words /\ "ERROR" \in words /\ Return("FAILED", r)
             \/ /\ words = {"text"}
                /\ response' = r
                /\ UNCHANGED <<pc, status, result, reading, memory>>
  /\ UNCHANGED <<caller, abandoned, during, setting, inbox, speaking>>

\* Nothing arrives in time; once too often, that is an I/O error.
Timeout ==
  /\ pc = "wait"
  /\ input = <<>>
  /\ Return("TIMEOUT", response) \/ Return("IO_ERROR", response)
  /\ UNCHANGED <<caller, abandoned, during, setting, link>>

LinkFails ==
  /\ Calling
  /\ Return("IO_ERROR", response)
  /\ UNCHANGED <<caller, abandoned, during, setting, link>>

Next ==
  \/ Open \/ Destroy
  \/ \E o \in Operations(driver) :
       \/ CallWithoutHandle(o)
       \/ CallRefused(o)
       \/ \E v \in Arguments(o) : Call(o, v)
  \/ Flush \/ Send \/ Receive \/ Timeout \/ LinkFails
  \/ ModemNext

Spec == Init /\ [][Next]_vars

-----------------------------------------------------------------------------
(* Properties                                                              *)

\* A setting that was acknowledged has been in force during the call, whatever
\* was set before and however late the modem works, unless the modem was still
\* to answer an earlier command on which the driver had given up.
SettersEffective ==
  result = "SUCCESS" /\ op.asks = "set" /\ op.of # "none" /\ ~abandoned =>
    arg \in during

\* The functions that read a value out of any text.
TakesAnyText ==
  {em7565_get_protected_commands, em7565_get_band_config_profile,
   em7565_get_band_config_profile_list, em7565_network_search,
   em7565_get_current_operator}

\* The first text of response r is one that nobody asked for.
UnaskedFirst(r) ==
  \E j \in DOMAIN r :
    ~r[j].asked /\ \A k \in 1..(j - 1) : r[k].says # "text"

\* A value that an operation gives to its caller was the modem's at some moment
\* of the call, under the same condition: it is never an older one, and never
\* that of another quantity.  Two exceptions are the code's: five functions of
\* one driver read it from a text that nobody asked for if that comes first
\* (em7565.c:194, 1065, 1176, 1270, 1422), and get_protected_commands tells
\* "disabled" without having learned anything, when no text comes before the end
\* of the command or there is no handle (em7565.c:168, 196).
ReadingsTrue ==
  reading # NoValue /\ ~abandoned =>
    \/ reading \in during
    \/ op \in TakesAnyText /\ UnaskedFirst(response)
    \/ /\ op = em7565_get_protected_commands /\ reading = Disabled
       /\ result = "UNKNOWN" \/ (response # <<>> => response[1].says # "text")

\* An operation that has returned has released its response and, unless it
\* succeeded, its result: the caller owns a result exactly after a success.
\* The one exception is mc7455_get_radio_access_type, which leaks the response.
OwnsWhatItReturned ==
  result # "NONE" =>
    /\ "result" \in memory <=> (op.allocates /\ result = "SUCCESS")
    /\ "response" \in memory => op = mc7455_get_radio_access_type

\* The drivers get from the modem what the AT interface promises.
Interface ==
  INSTANCE AtInterface WITH
    busy     <- Calling,
    status   <- status,
    response <-
      IF Calling THEN <<>>
      ELSE [j \in 1..(2 * Len(response)) |->
              IF j % 2 = 0 THEN "CRLF"
              ELSE LET m == response[(j + 1) \div 2] IN
                     IF m.says = "text" THEN "TEXT" ELSE m.says]

UsesAtInterface == Interface!Spec

\* "Errorcodes sorted by severity", Failures before Critical ones
\* (at_sierra_wireless_common.h:16): what the AT interface counts among the
\* failures is not reported as critical.
SeverityKept ==
  [][pc = "wait" /\ status' \in {"FAILED", "TIMEOUT"} =>
       result' \notin {"INVAL", "ERROR", "OUT_OF_MEMORY", "UNKNOWN"}]_vars

=============================================================================

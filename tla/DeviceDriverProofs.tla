------------------------- MODULE DeviceDriverProofs -------------------------
(***************************************************************************)
(* Proofs about DeviceDriver, for either driver, all its functions, any    *)
(* modem, and any number of calls, quantities and values.  First what all  *)
(* functions have in common, then an invariant about what is on its way    *)
(* between modem and driver during a call: if nothing was outstanding at   *)
(* the flush, it is the call's own command or the answer to it, and what   *)
(* the modem says unasked.                                                 *)
(***************************************************************************)
EXTENDS DeviceDriver, Least, TLAPS

-----------------------------------------------------------------------------
(* The functions of the drivers                                            *)

\* A function that sets a quantity reports a success only if its command
\* succeeded, and one that allocates its result exactly then.
Honest(o) ==
  /\ o.asks = "set" \/ o.allocates =>
       "SUCCESS" \notin {o.failure, o.critical, o.nohandle, o.refuses}
  /\ o.allocates => o.asks = "get" /\ o.unparsed = "SUCCESS"

Reports(o) ==
  /\ {o.failure, o.critical, o.unparsed, o.nohandle} \subseteq Results
  /\ o.refuses \in Results \cup {"no"}
  /\ o.asks = "set" \/ (o.asks = "get" /\ o.of # "none")

\* What a function takes for the value, and what it tells without one.
Reads(o) ==
  /\ o.asks = "set" => o.parses = {} /\ o.otherwise = NoValue
  /\ o.asks = "get" =>
       o.accepts = {o.of} \/ (AnyText \subseteq o.accepts /\ o \in TakesAnyText)
  /\ o.otherwise # NoValue =>
       /\ o = em7565_get_protected_commands /\ o.otherwise = Disabled
       /\ AnyText \subseteq o.accepts /\ Statuses \subseteq o.parses
       /\ o.nohandle = "UNKNOWN" /\ o.refuses = "no"

Sound(o) ==
  /\ Reports(o) /\ Honest(o) /\ Reads(o)
  /\ ~o.releases => o = mc7455_get_radio_access_type

LEMMA CommandSound ==
  ASSUME NEW q, NEW n \in Results \ {"SUCCESS"} PROVE Sound(Command(q, n))
BY DEF Sound, Reports, Honest, Reads, Command, Results

LEMMA ValidatingSound == ASSUME NEW q PROVE Sound(Validating(q))
BY DEF Sound, Reports, Honest, Reads, Validating, Command, Results

LEMMA QuerySound ==
  ASSUME NEW q, q # "none", NEW n \in Results, NEW e \in Results, NEW u \in Results
  PROVE  Sound(Query(q, n, e, u))
BY DEF Sound, Reports, Honest, Reads, Query

LEMMA CheckedSound ==
  ASSUME NEW q, q # "none", NEW n \in Results, NEW u \in Results
  PROVE  Sound(Checked(q, n, u))
BY DEF Sound, Reports, Honest, Reads, Checked, Query, Results

LEMMA AllocatingSound == ASSUME NEW q, q # "none" PROVE Sound(Allocating(q))
BY DEF Sound, Reports, Honest, Reads, Allocating, Query, Results

LEMMA CredulousSound ==
  ASSUME NEW o \in TakesAnyText PROVE Sound(o)
<1>1. Sound(em7565_get_protected_commands)
  BY DEF Sound, Reports, Honest, Reads, TakesAnyText, em7565_get_protected_commands,
     Lenient, Credulous, Checked, Query, Results, Statuses
<1>2. Sound(em7565_get_band_config_profile)
  BY DEF Sound, Reports, Honest, Reads, TakesAnyText, em7565_get_band_config_profile,
     Credulous, Checked, Query, Results
<1>3. Sound(em7565_get_band_config_profile_list)
  BY DEF Sound, Reports, Honest, Reads, TakesAnyText,
     em7565_get_band_config_profile_list, Lenient, Credulous, Checked, Query, Results
<1>4. Sound(em7565_network_search)
  BY DEF Sound, Reports, Honest, Reads, TakesAnyText, em7565_network_search,
     Lenient, Credulous, Checked, Query, Results
<1>5. Sound(em7565_get_current_operator)
  BY DEF Sound, Reports, Honest, Reads, TakesAnyText, em7565_get_current_operator,
     Credulous, Checked, Query, Results
<1> QED
  BY <1>1, <1>2, <1>3, <1>4, <1>5 DEF TakesAnyText

LEMMA Em7565Sound == ASSUME NEW o \in Em7565 PROVE Sound(o)
BY CredulousSound, CommandSound, ValidatingSound, QuerySound, CheckedSound
   DEF Results, TakesAnyText, Em7565, em7565_is_ready, em7565_set_protected_commands,
   em7565_reset, em7565_get_status, em7565_get_information, em7565_get_lteinfo,
   em7565_get_gpsloc, em7565_stop_gps, em7565_start_gps, em7565_set_antenna_power,
   em7565_get_antenna_power, em7565_set_APN, em7565_set_data_connection,
   em7565_get_data_connection, em7565_set_radio_access_type,
   em7565_get_radio_access_type, em7565_select_band_config_profile,
   em7565_remove_band_config_profile, em7565_add_band_config_profile,
   em7565_select_network, em7565_get_gps_autostart_mode,
   em7565_set_gps_autostart_mode, em7565_gps_status

LEMMA Mc7455Sound == ASSUME NEW o \in Mc7455 PROVE Sound(o)
<1>1. Sound(mc7455_get_radio_access_type)
  BY DEF Sound, Reports, Honest, Reads, mc7455_get_radio_access_type, Query, Results
<1> QED
  BY <1>1, CommandSound, ValidatingSound, QuerySound, AllocatingSound
     DEF Results, Mc7455, mc7455_is_ready, mc7455_reset, mc7455_get_status,
     mc7455_get_information, mc7455_get_lteinfo, mc7455_get_gpsloc, mc7455_stop_gps,
     mc7455_start_gps, mc7455_set_antenna_power, mc7455_get_antenna_power,
     mc7455_set_APN, mc7455_set_data_connection, mc7455_get_data_connection,
     mc7455_set_radio_access_type

LEMMA OperationsSound ==
  ASSUME NEW d, NEW o \in Operations(d) PROVE Sound(o)
BY Em7565Sound, Mc7455Sound DEF Operations

-----------------------------------------------------------------------------
(* The value in a response                                                 *)

LEMMA MessageTypes ==
  /\ \A q \in Quantities, v \in Values : Text(q, v) \in Messages
  /\ \A t \in AnyText, v \in Values : Report(t, v) \in Messages
  /\ Final("OK") \in Messages /\ Final("ERROR") \in Messages
  /\ \A m \in Messages :
       \/ m.says = "text" /\ m.of \in AnyText /\ m.value \in Values
       \/ m.says \in {"OK", "ERROR"} /\ m.value = NoValue
<1>1. /\ \A q \in Quantities, v \in Values : Text(q, v) \in Messages
      /\ \A t \in AnyText, v \in Values : Report(t, v) \in Messages
      /\ Final("OK") \in Messages /\ Final("ERROR") \in Messages
  BY DEF Messages
<1>2. ASSUME NEW m \in Messages
      PROVE  \/ m.says = "text" /\ m.of \in AnyText /\ m.value \in Values
             \/ m.says \in {"OK", "ERROR"} /\ m.value = NoValue
  <2>1. CASE \E q \in Quantities, v \in Values : m = Text(q, v)
    BY <2>1 DEF Text, AnyText
  <2>2. CASE \E t \in AnyText, v \in Values : m = Report(t, v)
    BY <2>2 DEF Report
  <2>3. CASE m \in {Final("OK"), Final("ERROR")}
    BY <2>3 DEF Final
  <2> QED
    BY <2>1, <2>2, <2>3 DEF Messages
<1> QED
  BY <1>1, <1>2

LEMMA ValueTyped ==
  ASSUME NEW o, Sound(o), NEW r \in Seq(Messages)
  PROVE  Value(o, r) \in Values \cup {NoValue}
<1> DEFINE accepted == {j \in DOMAIN r : r[j].of \in o.accepts}
           first == CHOOSE j \in accepted : \A k \in accepted : j <= k
<1>1. o.otherwise \in Values \cup {NoValue}
  BY DeviceDriverAssumption DEF Sound, Reads
<1>2. accepted \in SUBSET Nat /\ (accepted # {} => first \in accepted)
  <2>1. accepted \in SUBSET Nat
    OBVIOUS
  <2> HIDE DEF accepted
  <2> QED
    BY <2>1, LeastExists
<1>3. accepted # {} => r[first].value \in Values \cup {NoValue}
  BY <1>2, MessageTypes
<1>4. Value(o, r) = IF accepted # {} /\ r[first].value # NoValue
                    THEN r[first].value ELSE o.otherwise
  BY DEF Value
<1> HIDE DEF accepted, first
<1> QED
  BY <1>1, <1>3, <1>4

\* Where a value that is read comes from, if everything in the response that was
\* asked for, or is about the quantity, has a value of set d.
LEMMA ValueOrigin ==
  ASSUME NEW o, Sound(o), o.asks = "get", NEW r \in Seq(Messages), NEW d,
         \A j \in 1..Len(r) : r[j].says = "text" /\ (r[j].asked \/ r[j].of = o.of) =>
                                r[j].value \in d,
         Value(o, r) # NoValue
  PROVE  \/ Value(o, r) \in d
         \/ o \in TakesAnyText /\ UnaskedFirst(r)
         \/ /\ o = em7565_get_protected_commands /\ Value(o, r) = Disabled
            /\ r # <<>> => r[1].says # "text"
<1> DEFINE accepted == {j \in DOMAIN r : r[j].of \in o.accepts}
           first == CHOOSE j \in accepted : \A k \in accepted : j <= k
<1>1. accepted \in SUBSET (1..Len(r)) /\ DOMAIN r = 1..Len(r)
  OBVIOUS
<1>2. accepted # {} => first \in accepted /\ \A k \in accepted : first <= k
  <2> HIDE DEF accepted
  <2>1. accepted \in SUBSET Nat
    BY <1>1
  <2> QED
    BY <2>1, LeastExists
<1>3. Value(o, r) = IF accepted # {} /\ r[first].value # NoValue
                    THEN r[first].value ELSE o.otherwise
  BY DEF Value
<1>4. \A k \in 1..Len(r) : k \in accepted <=> r[k].of \in o.accepts
  BY <1>1
<1> HIDE DEF accepted, first
<1>5. CASE accepted # {} /\ r[first].value # NoValue
  <2>1. first \in 1..Len(r) /\ r[first].of \in o.accepts
    BY <1>1, <1>2, <1>4, <1>5
  <2>2. r[first].says = "text"
    BY <1>5, <2>1, MessageTypes
  <2>3. CASE r[first].asked \/ r[first].of = o.of
    BY <1>3, <1>5, <2>1, <2>2, <2>3
  <2>4. CASE ~r[first].asked /\ r[first].of # o.of
    <3>1. AnyText \subseteq o.accepts /\ o \in TakesAnyText
      BY <2>1, <2>4 DEF Sound, Reads
    <3>2. \A k \in 1..(first - 1) : k \in 1..Len(r) /\ ~(first <= k)
      BY <2>1
    <3>3. \A k \in 1..(first - 1) : r[k].says # "text"
      <4> SUFFICES ASSUME NEW k \in 1..(first - 1), r[k].says = "text" PROVE FALSE
        OBVIOUS
      <4>1. r[k].of \in AnyText
        BY <3>2, MessageTypes
      <4> QED
        BY <1>2, <1>4, <3>1, <3>2, <4>1
    <3> QED
      BY <1>1, <2>1, <2>4, <3>1, <3>3 DEF UnaskedFirst
  <2> QED
    BY <2>3, <2>4
<1>6. CASE ~(accepted # {} /\ r[first].value # NoValue)
  <2>1. /\ o = em7565_get_protected_commands /\ Value(o, r) = Disabled
        /\ AnyText \subseteq o.accepts
    BY <1>3, <1>6 DEF Sound, Reads
  <2>2. ASSUME r # <<>>, r[1].says = "text" PROVE FALSE
    <3>1. 1 \in 1..Len(r) /\ r[1].of \in AnyText /\ r[1].value \in Values
      BY <2>2, MessageTypes
    <3>2. 1 \in accepted
      BY <1>4, <2>1, <3>1
    <3>3. first = 1
      <4>1. first \in 1..Len(r) /\ first <= 1
        BY <1>1, <1>2, <3>2
      <4> QED
        BY <4>1
    <3> QED
      BY <1>6, <3>1, <3>2, <3>3, DeviceDriverAssumption
  <2> QED
    BY <2>1, <2>2
<1> QED
  BY <1>5, <1>6

-----------------------------------------------------------------------------
(* The invariant                                                           *)

\* A command on its way, with an argument if it takes one.
Orders == {x \in Operations(driver) \X (Values \cup {NoValue}) : x[2] \in Arguments(x[1])}

\* What a message may say if it answers the command of the call in progress.
Answers(m) ==
  /\ m.says = "text" /\ (m.asked \/ m.of = op.of) => m.value \in during
  /\ m.says = "OK" /\ op.asks = "set" /\ op.of # "none" => arg \in during

OnlyAnswers(r) == \A j \in 1..Len(r) : Answers(r[j])

\* What the modem says unasked, and is true if it is about the quantity.
Hearsay(m) == m.says = "text" /\ ~m.asked /\ (m.of = op.of => m.value \in during)

OnlyHearsay(r) == \A j \in 1..Len(r) : Hearsay(r[j])

\* A call in progress has returned nothing, and follows its quantity.
CallInv ==
  Calling =>
    /\ result = "NONE" /\ status = "NONE" /\ reading = NoValue
    /\ arg \in Arguments(op)
    /\ op.of # "none" => setting[op.of] \in during

\* What has been received so far ends no command.
ReceiveInv ==
  /\ pc \in {"flush", "send"} => response = <<>>
  /\ pc = "wait" => \A j \in 1..Len(response) : response[j].says = "text"

\* If nothing was outstanding at the flush, only the call's own command or its
\* answer is on the way, and what the modem says unasked.
OwnInv ==
  /\ pc = "send" /\ ~abandoned => inbox = <<>> /\ speaking = <<>> /\ OnlyHearsay(input)
  /\ pc = "wait" /\ ~abandoned =>
       \/ /\ inbox = << <<op, arg>> >> /\ speaking = <<>>
          /\ OnlyHearsay(input) /\ OnlyHearsay(response)
       \/ inbox = <<>> /\ OnlyAnswers(speaking) /\ OnlyAnswers(input) /\ OnlyAnswers(response)

IInv ==
  /\ TypeOK /\ inbox \in Seq(Orders)
  /\ CallInv /\ ReceiveInv /\ OwnInv
  /\ SettersEffective /\ ReadingsTrue /\ OwnsWhatItReturned

LEMMA InitEstablishes == Init => IInv
<1> SUFFICES ASSUME Init PROVE IInv
  OBVIOUS
<1>1. em7565_is_ready \in Em7565 /\ em7565_is_ready \in Mc7455
  BY DEF Em7565, Mc7455, em7565_is_ready, mc7455_is_ready
<1>2. em7565_is_ready.of = "none"
  BY DEF em7565_is_ready, Command
<1>3. op \in Operations(driver)
  BY <1>1, <1>2 DEF Init, Operations
<1>4. inbox \in Seq(Orders)
  BY DEF Init
<1>5. TypeOK
  <2>1. inbox \in Seq(Operations(driver) \X (Values \cup {NoValue}))
    BY DEF Init
  <2>2. abandoned \in BOOLEAN
    BY Zenon DEF Init
  <2>3. calls \in 0..MaxCalls
    BY DeviceDriverAssumption DEF Init
  <2> QED
    BY <1>3, <2>1, <2>2, <2>3 DEF Init, TypeOK, Optional
<1> QED
  BY <1>4, <1>5 DEF Init, IInv, CallInv, ReceiveInv, OwnInv, Calling, SettersEffective,
     ReadingsTrue, OwnsWhatItReturned

\* What is only hearsay is nothing that an answer may not say.
LEMMA HearsayAnswers == \A r : OnlyHearsay(r) => OnlyAnswers(r)
<1> SUFFICES ASSUME NEW r, OnlyHearsay(r) PROVE OnlyAnswers(r)
  OBVIOUS
<1> QED
  BY DEF OnlyHearsay, Hearsay, OnlyAnswers, Answers

\* What an operation is, if it is one.
LEMMA OperationTypes ==
  ASSUME NEW d, NEW o \in Operations(d)
  PROVE  o.of \in Quantities \cup {"none"} /\ Sound(o) /\ (o.asks = "get" => o.of \in Quantities)
BY OperationsSound DEF Operations, Sound, Reports

-----------------------------------------------------------------------------
(* Returning                                                               *)

LEMMA ReturnOwns ==
  ASSUME Sound(op), op' = op, NEW s \in Statuses, NEW r, Return(s, r)
  PROVE  OwnsWhatItReturned'
<1>1. "response" \in memory' => ~op.releases
  BY DEF Return, Kept
<1>2. "result" \in memory' <=> s = "SUCCESS" /\ op.allocates
  BY DEF Return, Kept
<1>3. op.allocates => (result' = "SUCCESS" <=> s = "SUCCESS")
  BY DEF Return, Reported, Sound, Honest, Statuses
<1> QED
  BY <1>1, <1>2, <1>3 DEF OwnsWhatItReturned, Sound

LEMMA ReturnTyped ==
  ASSUME Sound(op), NEW s \in Statuses, NEW r \in Seq(Messages), Return(s, r)
  PROVE  /\ result' \in Results /\ memory' \in SUBSET {"response", "result"}
         /\ reading' \in Values \cup {NoValue}
         /\ pc' = "idle" /\ status' = s /\ response' = r
<1>1. reading' \in Values \cup {NoValue}
  <2>1. Value(op, r) \in Values \cup {NoValue}
    BY ValueTyped
  <2>2. op.otherwise \in Values \cup {NoValue}
    BY DeviceDriverAssumption DEF Sound, Reads
  <2> QED
    BY <2>1, <2>2 DEF Return
<1>2. result' \in Results
  <2>1. "SUCCESS" \in Results
    BY DEF Results
  <2> QED
    BY <2>1 DEF Return, Reported, Sound, Reports
<1> QED
  BY <1>1, <1>2 DEF Return, Kept

\* A call in progress returns with response r.
LEMMA ReturnPreserves ==
  ASSUME IInv, Calling, NEW s \in Statuses, NEW r \in Seq(Messages), Return(s, r),
         UNCHANGED <<caller, abandoned, during, setting, inbox, speaking>>,
         input' \in Seq(Messages),
         ~abandoned => OnlyAnswers(r),
         ~abandoned /\ s = "SUCCESS" /\ op.asks = "set" /\ op.of # "none" => arg \in during
  PROVE  IInv'
<1>1. Sound(op) /\ op \in Operations(driver)
  BY OperationTypes DEF IInv, TypeOK
<1>2. /\ result' \in Results /\ memory' \in SUBSET {"response", "result"}
      /\ reading' \in Values \cup {NoValue}
      /\ pc' = "idle" /\ status' = s /\ response' = r
  BY <1>1, ReturnTyped
<1>3. ~Calling'
  BY <1>2 DEF Calling
<1>4. TypeOK' /\ (inbox \in Seq(Orders))'
  BY <1>2 DEF IInv, TypeOK, Optional, caller, Orders
<1>5. CallInv' /\ ReceiveInv' /\ OwnInv'
  BY <1>2, <1>3 DEF CallInv, ReceiveInv, OwnInv
<1>6. OwnsWhatItReturned'
  BY <1>1, ReturnOwns DEF caller
<1>7. SettersEffective'
  <2>1. op.asks = "set" /\ result' = "SUCCESS" => s = "SUCCESS"
    BY <1>1 DEF Return, Reported, Sound, Honest
  <2> QED
    BY <2>1 DEF SettersEffective, caller
<1>8. ReadingsTrue'
  <2> SUFFICES ASSUME reading' # NoValue, ~abandoned PROVE ReadingsTrue'
    BY DEF ReadingsTrue
  <2>1. op.asks = "get" /\ s \in op.parses
    BY <1>1 DEF Return, Sound, Reports, Reads
  <2>2. reading' = Value(op, r)
    BY <2>1 DEF Return
  <2>3. \A j \in 1..Len(r) : r[j].says = "text" /\ (r[j].asked \/ r[j].of = op.of) =>
                             r[j].value \in during
    BY DEF OnlyAnswers, Answers
  <2>4. \/ reading' \in during
        \/ op \in TakesAnyText /\ UnaskedFirst(r)
        \/ /\ op = em7565_get_protected_commands /\ reading' = Disabled
           /\ r # <<>> => r[1].says # "text"
    BY <1>1, <2>1, <2>2, <2>3, ValueOrigin
  <2> QED
    BY <1>2, <2>4 DEF ReadingsTrue, caller
<1> QED
  BY <1>4, <1>5, <1>6, <1>7, <1>8 DEF IInv

\* A call returns before it makes a command.
LEMMA AtOncePreserves ==
  ASSUME IInv, NEW o \in Operations(driver), pc \in {"closed", "idle"},
         Begin(o, NoValue), NEW ret \in {o.nohandle, o.refuses} \ {"no"}, ReturnAtOnce(o, ret)
  PROVE  IInv'
<1>1. Sound(o) /\ ret \in Results
  BY OperationTypes DEF Sound, Reports
<1>2. ~Calling'
  BY DEF Calling, ReturnAtOnce
<1>3. /\ pc' = pc /\ driver' = driver /\ op' = o /\ arg' = NoValue /\ calls' = calls + 1
      /\ calls < MaxCalls /\ result' = ret /\ reading' = o.otherwise
      /\ memory' = {} /\ during' = {}
  BY DEF Begin, ReturnAtOnce
<1>4. calls' \in 0..MaxCalls
  BY <1>3, DeviceDriverAssumption DEF IInv, TypeOK
<1>5. TypeOK' /\ (inbox \in Seq(Orders))'
  <2>1. o.otherwise \in Values \cup {NoValue}
    BY <1>1, DeviceDriverAssumption DEF Sound, Reads
  <2> QED
    BY <1>1, <1>3, <1>4, <2>1 DEF IInv, TypeOK, Optional, ReturnAtOnce, link, Orders
<1>6. CallInv' /\ ReceiveInv' /\ OwnInv' /\ ReadingsTrue'
  <2>1. CallInv' /\ ReceiveInv' /\ OwnInv'
    BY <1>2, <1>3 DEF CallInv, ReceiveInv, OwnInv
  <2>2. o.otherwise # NoValue =>
          o = em7565_get_protected_commands /\ o.otherwise = Disabled /\ ret = "UNKNOWN"
    BY <1>1 DEF Sound, Reads
  <2> QED
    BY <1>3, <2>1, <2>2 DEF ReadingsTrue
<1>7. SettersEffective' /\ OwnsWhatItReturned'
  BY <1>1, <1>3 DEF SettersEffective, OwnsWhatItReturned, Sound, Honest
<1> QED
  BY <1>5, <1>6, <1>7 DEF IInv

-----------------------------------------------------------------------------
(* The steps of a call                                                     *)

LEMMA CallPreserves ==
  ASSUME IInv, NEW o \in Operations(driver), NEW v \in Arguments(o), Call(o, v)
  PROVE  IInv'
<1>1. o.of \in Quantities \cup {"none"} /\ Sound(o)
  BY OperationTypes
<1>2. v \in Values \cup {NoValue}
  BY DEF Arguments
<1>3. /\ pc' = "flush" /\ driver' = driver /\ op' = o /\ arg' = v /\ calls' = calls + 1
      /\ calls < MaxCalls /\ status' = "NONE" /\ response' = <<>> /\ result' = "NONE"
      /\ reading' = NoValue /\ memory' \in SUBSET {"response", "result"}
      /\ during' = (IF o.of = "none" THEN {} ELSE {setting[o.of]})
      /\ UNCHANGED <<abandoned, setting, link>>
  BY DEF Call, Begin
<1>4. calls' \in 0..MaxCalls
  BY <1>3, DeviceDriverAssumption DEF IInv, TypeOK
<1>5. during' \in SUBSET Values
  BY <1>1, <1>3 DEF IInv, TypeOK
<1>6. TypeOK' /\ (inbox \in Seq(Orders))'
  BY <1>2, <1>3, <1>4, <1>5 DEF IInv, TypeOK, Optional, link, Orders
<1>7. CallInv' /\ ReceiveInv' /\ OwnInv'
  BY <1>1, <1>3 DEF CallInv, ReceiveInv, OwnInv
<1>8. SettersEffective' /\ ReadingsTrue' /\ OwnsWhatItReturned'
  BY <1>3 DEF SettersEffective, ReadingsTrue, OwnsWhatItReturned
<1> QED
  BY <1>6, <1>7, <1>8 DEF IInv

\* What a step that returns nothing need not be shown to preserve.
LEMMA StillTrue ==
  ASSUME IInv, UNCHANGED <<caller, result, reading, memory>>, Calling
  PROVE  SettersEffective' /\ ReadingsTrue' /\ OwnsWhatItReturned'
BY DEF IInv, CallInv, SettersEffective, ReadingsTrue, OwnsWhatItReturned, caller

LEMMA FlushPreserves == ASSUME IInv, Flush PROVE IInv'
<1>1. /\ pc = "flush" /\ pc' = "send" /\ input' = <<>>
      /\ UNCHANGED <<caller, outcome, during, setting, inbox, speaking>>
  BY DEF Flush
<1>2. abandoned' \in BOOLEAN /\ (~abandoned' => inbox = <<>> /\ speaking = <<>>)
  BY Zenon DEF Flush
<1>3. Calling /\ Calling'
  BY <1>1 DEF Calling
<1>4. TypeOK' /\ (inbox \in Seq(Orders))'
  <2>1. input' \in Seq(Messages)
    BY <1>1
  <2> QED
    BY <1>1, <1>2, <2>1 DEF IInv, TypeOK, Optional, caller, outcome, Orders
<1>5. CallInv' /\ ReceiveInv' /\ OwnInv'
  <2>1. Len(input') = 0
    BY <1>1
  <2> QED
    BY <1>1, <1>2, <1>3, <2>1
       DEF IInv, CallInv, ReceiveInv, OwnInv, OnlyHearsay, caller, outcome
<1>6. SettersEffective' /\ ReadingsTrue' /\ OwnsWhatItReturned'
  BY <1>1, <1>3, StillTrue DEF outcome
<1> QED
  BY <1>4, <1>5, <1>6 DEF IInv

LEMMA SendPreserves == ASSUME IInv, Send PROVE IInv'
<1>1. /\ pc = "send" /\ pc' = "wait" /\ inbox' = Append(inbox, <<op, arg>>)
      /\ UNCHANGED <<caller, outcome, abandoned, during, setting, speaking, input>>
  BY DEF Send
<1>2. Calling /\ Calling'
  BY <1>1 DEF Calling
<1>3. <<op, arg>> \in Orders
  BY <1>2 DEF IInv, TypeOK, Optional, CallInv, Orders
<1>4. TypeOK' /\ (inbox \in Seq(Orders))'
  <2>1. Orders' = Orders
    BY <1>1 DEF Orders, caller
  <2>2. inbox' \in Seq(Orders)
    BY <1>1, <1>3 DEF IInv
  <2>3. inbox' \in Seq(Operations(driver) \X (Values \cup {NoValue}))
    BY <1>1, <1>3 DEF IInv, TypeOK, Orders
  <2> QED
    BY <1>1, <2>1, <2>2, <2>3 DEF IInv, TypeOK, Optional, caller, outcome
<1>5. CallInv' /\ ReceiveInv'
  BY <1>1, <1>2 DEF IInv, CallInv, ReceiveInv, caller, outcome
<1>6. OwnInv'
  <2>1. ~abandoned => inbox' = << <<op, arg>> >> /\ speaking = <<>> /\ OnlyHearsay(input)
    BY <1>1 DEF IInv, OwnInv
  <2>2. Len(response) = 0
    BY <1>1 DEF IInv, ReceiveInv
  <2> QED
    BY <1>1, <2>1, <2>2 DEF OwnInv, OnlyHearsay, Hearsay, caller, outcome
<1>7. SettersEffective' /\ ReadingsTrue' /\ OwnsWhatItReturned'
  BY <1>1, <1>2, StillTrue DEF outcome
<1> QED
  BY <1>4, <1>5, <1>6, <1>7 DEF IInv

\* The response and the rest of the input when k messages are received.
LEMMA Taken ==
  ASSUME NEW a \in Seq(Messages), NEW b \in Seq(Messages), NEW k \in 1..Len(b)
  PROVE  LET r == a \o SubSeq(b, 1, k)
             rest == SubSeq(b, k + 1, Len(b))
         IN /\ r \in Seq(Messages) /\ rest \in Seq(Messages)
            /\ \A j \in 1..Len(r) : \/ j \in 1..Len(a) /\ r[j] = a[j]
                                    \/ \E i \in 1..Len(b) : r[j] = b[i]
            /\ \A j \in 1..Len(rest) : \E i \in 1..Len(b) : rest[j] = b[i]
<1> DEFINE c == SubSeq(b, 1, k)
           r == a \o c
           rest == SubSeq(b, k + 1, Len(b))
<1>1. c \in Seq(Messages) /\ Len(c) = k /\ \A j \in 1..k : c[j] = b[j]
  OBVIOUS
<1>2. /\ rest \in Seq(Messages) /\ Len(rest) = Len(b) - k
      /\ \A j \in 1..Len(rest) : rest[j] = b[k + j]
  OBVIOUS
<1>3. /\ r \in Seq(Messages) /\ Len(r) = Len(a) + k
      /\ \A j \in 1..Len(r) : r[j] = IF j <= Len(a) THEN a[j] ELSE c[j - Len(a)]
  <2> HIDE DEF c
  <2> QED
    BY <1>1
<1>4. \A j \in 1..Len(rest) : k + j \in 1..Len(b)
  BY <1>2
<1>5. ASSUME NEW j \in 1..Len(r), j > Len(a) PROVE \E i \in 1..Len(b) : r[j] = b[i]
  <2>1. j - Len(a) \in 1..k /\ j - Len(a) \in 1..Len(b)
    BY <1>3, <1>5
  <2> QED
    BY <1>1, <1>3, <1>5, <2>1
<1> HIDE DEF r, rest
<1>6. \A j \in 1..Len(r) : \/ j \in 1..Len(a) /\ r[j] = a[j]
                           \/ \E i \in 1..Len(b) : r[j] = b[i]
  BY <1>3, <1>5
<1>7. \A j \in 1..Len(rest) : \E i \in 1..Len(b) : rest[j] = b[i]
  BY <1>2, <1>4
<1> QED
  BY <1>2, <1>3, <1>6, <1>7 DEF r, rest

LEMMA ReceivePreserves == ASSUME IInv, Receive PROVE IInv'
<1>1. /\ pc = "wait" /\ Calling
      /\ UNCHANGED <<caller, abandoned, during, setting, inbox, speaking>>
  BY DEF Receive, Calling
<1> DEFINE R(k) == response \o SubSeq(input, 1, k)
           Words(k) == {R(k)[j].says : j \in DOMAIN R(k)}
<1>2. PICK k \in 1..Len(input) :
        /\ input' = SubSeq(input, k + 1, Len(input))
        /\ \/ "OK" \in Words(k) /\ Return("SUCCESS", R(k))
           \/ "OK" \notin Words(k) /\ "ERROR" \in Words(k) /\ Return("FAILED", R(k))
           \/ /\ Words(k) = {"text"}
              /\ response' = R(k)
              /\ UNCHANGED <<pc, status, result, reading, memory>>
  BY DEF Receive
<1> DEFINE r == R(k)
<1>3. /\ r \in Seq(Messages) /\ input' \in Seq(Messages)
      /\ \A j \in 1..Len(r) : \/ j \in 1..Len(response) /\ r[j] = response[j]
                              \/ \E i \in 1..Len(input) : r[j] = input[i]
      /\ \A j \in 1..Len(input') : \E i \in 1..Len(input) : input'[j] = input[i]
  BY <1>2, Taken DEF IInv, TypeOK
<1>4. DOMAIN r = 1..Len(r)
  BY <1>3
<1>5. ~abandoned =>
        \/ inbox = << <<op, arg>> >> /\ speaking = <<>> /\ OnlyHearsay(input)
           /\ OnlyHearsay(response)
        \/ inbox = <<>> /\ OnlyAnswers(speaking) /\ OnlyAnswers(input)
           /\ OnlyAnswers(response)
  BY <1>1 DEF IInv, OwnInv
<1>6. /\ OnlyAnswers(input) /\ OnlyAnswers(response) =>
           OnlyAnswers(r) /\ \A j \in 1..Len(input') : Answers(input'[j])
      /\ OnlyHearsay(input) /\ OnlyHearsay(response) =>
           OnlyHearsay(r) /\ \A j \in 1..Len(input') : Hearsay(input'[j])
  <2> HIDE DEF r
  <2> QED
    BY <1>3 DEF OnlyAnswers, OnlyHearsay
<1>7. ~abandoned => OnlyAnswers(r)
  BY <1>5, <1>6, HearsayAnswers
<1> HIDE DEF r
<1>8. CASE "OK" \in Words(k) /\ Return("SUCCESS", R(k))
  <2>1. \E j \in 1..Len(r) : r[j].says = "OK"
    BY <1>4, <1>8 DEF r
  <2>2. ~abandoned /\ op.asks = "set" /\ op.of # "none" => arg \in during
    BY <1>7, <2>1 DEF OnlyAnswers, Answers
  <2>3. Return("SUCCESS", r)
    BY <1>8 DEF r
  <2> QED
    BY <1>1, <1>3, <1>7, <2>2, <2>3, ReturnPreserves DEF Statuses
<1>9. CASE "ERROR" \in Words(k) /\ Return("FAILED", R(k))
  <2>1. Return("FAILED", r)
    BY <1>9 DEF r
  <2> QED
    BY <1>1, <1>3, <1>7, <2>1, ReturnPreserves DEF Statuses
<1>10. CASE /\ Words(k) = {"text"} /\ response' = R(k)
            /\ UNCHANGED <<pc, status, result, reading, memory>>
  <2>1. response' = r /\ \A j \in 1..Len(r) : r[j].says = "text"
    BY <1>4, <1>10 DEF r
  <2>2. Calling'
    BY <1>1, <1>10 DEF Calling
  <2>3. TypeOK' /\ (inbox \in Seq(Orders))'
    BY <1>1, <1>3, <1>10, <2>1 DEF IInv, TypeOK, Optional, caller, Orders
  <2>4. CallInv' /\ ReceiveInv'
    BY <1>1, <1>10, <2>1 DEF IInv, CallInv, ReceiveInv, caller
  <2>5. OwnInv'
    <3>1. CASE ~abandoned /\ inbox = <<>> /\ OnlyAnswers(speaking) /\ OnlyAnswers(input)
               /\ OnlyAnswers(response)
      <4>1. OnlyAnswers(speaking)' /\ OnlyAnswers(input)' /\ OnlyAnswers(response)'
        BY <1>1, <1>6, <2>1, <3>1 DEF OnlyAnswers, Answers, caller
      <4> QED
        BY <1>1, <1>10, <3>1, <4>1 DEF OwnInv
    <3>2. CASE /\ ~abandoned /\ inbox = << <<op, arg>> >> /\ speaking = <<>>
               /\ OnlyHearsay(input) /\ OnlyHearsay(response)
      <4>1. OnlyHearsay(input)' /\ OnlyHearsay(response)'
        BY <1>1, <1>6, <2>1, <3>2 DEF OnlyHearsay, Hearsay, caller
      <4> QED
        BY <1>1, <1>10, <3>2, <4>1 DEF OwnInv, caller
    <3> QED
      BY <1>1, <1>5, <1>10, <3>1, <3>2 DEF OwnInv
  <2>6. SettersEffective' /\ ReadingsTrue' /\ OwnsWhatItReturned'
    BY <1>1, <1>10, StillTrue
  <2> QED
    BY <2>3, <2>4, <2>5, <2>6 DEF IInv
<1> QED
  BY <1>2, <1>8, <1>9, <1>10

\* A call that gives up returns with what it has received.
LEMMA GiveUpPreserves ==
  ASSUME IInv, Calling, NEW s \in {"TIMEOUT", "IO_ERROR"}, Return(s, response),
         UNCHANGED <<caller, abandoned, during, setting, link>>
  PROVE  IInv'
<1>1. ~abandoned => OnlyAnswers(response)
  <2>1. pc = "wait" /\ ~abandoned => OnlyAnswers(response)
    BY HearsayAnswers DEF IInv, OwnInv
  <2>2. pc # "wait" => Len(response) = 0
    BY DEF IInv, ReceiveInv, Calling
  <2> QED
    BY <2>1, <2>2 DEF OnlyAnswers
<1>2. response \in Seq(Messages) /\ input' \in Seq(Messages) /\ s \in Statuses
  BY DEF IInv, TypeOK, link, Statuses
<1> QED
  BY <1>1, <1>2, ReturnPreserves DEF link

-----------------------------------------------------------------------------
(* The steps of the modem                                                  *)

\* The modem touches nothing of the driver's, and what was a value of the
\* quantity since the call remains one.
LEMMA ModemStepPreserves ==
  ASSUME IInv, UNCHANGED <<pc, caller, outcome, abandoned>>,
         setting' \in [Quantities -> Values], during' \in SUBSET Values,
         during \subseteq during',
         Calling /\ op.of # "none" => setting'[op.of] \in during',
         inbox' \in Seq(Orders), speaking' \in Seq(Messages), input' \in Seq(Messages),
         OwnInv'
  PROVE  IInv'
<1>1. Orders' = Orders
  BY DEF Orders, caller
<1>2. inbox' \in Seq(Operations(driver) \X (Values \cup {NoValue}))
  <2>1. Orders \subseteq Operations(driver) \X (Values \cup {NoValue})
    BY DEF Orders
  <2> QED
    BY <2>1
<1>3. TypeOK' /\ (inbox \in Seq(Orders))'
  BY <1>1, <1>2 DEF IInv, TypeOK, Optional, caller, outcome
<1>4. CallInv' /\ ReceiveInv'
  BY DEF IInv, CallInv, ReceiveInv, Calling, caller, outcome
<1>5. SettersEffective' /\ ReadingsTrue' /\ OwnsWhatItReturned'
  BY DEF IInv, SettersEffective, ReadingsTrue, OwnsWhatItReturned, caller, outcome
<1> QED
  BY <1>3, <1>4, <1>5 DEF IInv

LEMMA BecomesTypes ==
  ASSUME IInv, NEW q \in Quantities, NEW v \in Values, Becomes(q, v)
  PROVE  /\ setting' \in [Quantities -> Values] /\ during' \in SUBSET Values
         /\ during \subseteq during'
         /\ Calling /\ op.of # "none" => setting'[op.of] \in during'
         /\ Calling /\ q = op.of => v \in during'
<1>1. op.of \in Quantities \cup {"none"}
  BY OperationTypes DEF IInv, TypeOK
<1> QED
  BY <1>1 DEF Becomes, IInv, TypeOK, CallInv

\* A command that the modem takes is an order, and with nothing outstanding at
\* the flush it is the call's.
LEMMA TakeTypes ==
  ASSUME IInv, Take
  PROVE  /\ Head(inbox) \in Orders /\ inbox' \in Seq(Orders)
         /\ pc \in {"send", "wait"} /\ ~abandoned =>
              /\ pc = "wait" /\ Head(inbox) = <<op, arg>> /\ inbox' = <<>>
              /\ OnlyHearsay(input) /\ OnlyHearsay(response)
<1>1. inbox \in Seq(Orders) /\ inbox # <<>> /\ inbox' = Tail(inbox)
  BY DEF IInv, Take
<1>2. Head(inbox) \in Orders /\ inbox' \in Seq(Orders)
  BY <1>1
<1>3. inbox = << <<op, arg>> >> => Head(inbox) = <<op, arg>> /\ inbox' = <<>>
  BY <1>1
<1> QED
  BY <1>1, <1>2, <1>3 DEF IInv, OwnInv

\* What the modem starts to say keeps the invariant if it answers the call.
LEMMA SpeakPreserves ==
  ASSUME IInv, Take, UNCHANGED <<pc, caller, outcome, abandoned, input>>,
         setting' \in [Quantities -> Values], during' \in SUBSET Values,
         during \subseteq during',
         Calling /\ op.of # "none" => setting'[op.of] \in during',
         speaking' \in Seq(Messages),
         pc = "wait" /\ ~abandoned => OnlyAnswers(speaking)'
  PROVE  IInv'
<1>1. OwnInv'
  <2>1. pc = "wait" /\ ~abandoned =>
          inbox' = <<>> /\ OnlyAnswers(input) /\ OnlyAnswers(response)
    BY TakeTypes, HearsayAnswers
  <2>2. pc = "wait" /\ ~abandoned => OnlyAnswers(input)' /\ OnlyAnswers(response)'
    BY <2>1 DEF OnlyAnswers, Answers, caller, outcome
  <2> QED
    BY <2>1, <2>2, TakeTypes DEF OwnInv
<1> QED
  BY <1>1, TakeTypes, ModemStepPreserves DEF IInv, TypeOK

LEMMA ExecuteSetPreserves == ASSUME IInv, ExecuteSet PROVE IInv'
<1> DEFINE o == Head(inbox)[1]
           v == Head(inbox)[2]
<1>1. /\ Take /\ o.asks = "set" /\ speaking' = <<Final("OK")>>
      /\ UNCHANGED <<pc, caller, outcome, abandoned, input>>
  BY DEF ExecuteSet
<1>2. o \in Operations(driver) /\ v \in Arguments(o)
  BY <1>1, TakeTypes DEF Orders
<1>3. o.of # "none" => o.of \in Quantities /\ v \in Values
  BY <1>1, <1>2, OperationTypes DEF Arguments
<1>4. /\ setting' \in [Quantities -> Values] /\ during' \in SUBSET Values
      /\ during \subseteq during'
      /\ Calling /\ op.of # "none" => setting'[op.of] \in during'
      /\ Calling /\ o.of # "none" /\ o.of = op.of => v \in during'
  <2>1. CASE o.of = "none"
    <3>1. UNCHANGED <<setting, during>>
      BY <2>1 DEF ExecuteSet
    <3> QED
      BY <2>1, <3>1 DEF IInv, TypeOK, CallInv
  <2>2. CASE o.of # "none"
    <3>1. Becomes(o.of, v)
      BY <2>2 DEF ExecuteSet
    <3> QED
      BY <1>3, <2>2, <3>1, BecomesTypes
  <2> QED
    BY <2>1, <2>2
<1>5. speaking' \in Seq(Messages)
  BY <1>1, MessageTypes
<1>6. pc = "wait" /\ ~abandoned => OnlyAnswers(speaking)'
  <2>1. pc = "wait" /\ ~abandoned => o = op /\ v = arg /\ Calling
    BY <1>1, TakeTypes DEF Calling
  <2>2. Len(speaking') = 1 /\ speaking'[1] = Final("OK")
    BY <1>1
  <2>3. Final("OK").says = "OK"
    BY DEF Final
  <2> QED
    BY <1>1, <1>4, <2>1, <2>2, <2>3 DEF OnlyAnswers, Answers, caller
<1> HIDE DEF o, v
<1> QED
  BY <1>1, <1>4, <1>5, <1>6, SpeakPreserves

LEMMA ExecuteGetPreserves == ASSUME IInv, ExecuteGet PROVE IInv'
<1> DEFINE o == Head(inbox)[1]
<1>1. /\ Take /\ o.asks = "get"
      /\ UNCHANGED <<pc, caller, outcome, abandoned, during, setting, input>>
      /\ \/ speaking' = <<Text(o.of, setting[o.of]), Final("OK")>>
         \/ speaking' = <<Final("OK")>>
  BY DEF ExecuteGet
<1>2. o \in Operations(driver) /\ o.of \in Quantities
  BY <1>1, TakeTypes, OperationTypes DEF Orders
<1>3. setting[o.of] \in Values
  BY <1>2 DEF IInv, TypeOK
<1>4. speaking' \in Seq(Messages)
  <2>1. Text(o.of, setting[o.of]) \in Messages /\ Final("OK") \in Messages
    BY <1>2, <1>3, MessageTypes
  <2>2. <<Text(o.of, setting[o.of]), Final("OK")>> \in Seq(Messages)
    BY <2>1
  <2>3. <<Final("OK")>> \in Seq(Messages)
    BY <2>1
  <2> QED
    BY <1>1, <2>2, <2>3, Zenon
<1>5. pc = "wait" /\ ~abandoned => OnlyAnswers(speaking)'
  <2>1. pc = "wait" /\ ~abandoned => o = op /\ setting[o.of] \in during
    BY <1>1, <1>2, TakeTypes, DeviceDriverAssumption DEF IInv, CallInv, Calling
  <2>2. /\ Text(o.of, setting[o.of]).says = "text"
        /\ Text(o.of, setting[o.of]).value = setting[o.of]
        /\ Final("OK").says = "OK"
    BY DEF Text, Final
  <2>3. \A j \in 1..Len(speaking') :
          speaking'[j] \in {Text(o.of, setting[o.of]), Final("OK")}
    BY <1>1
  <2> QED
    BY <1>1, <2>1, <2>2, <2>3 DEF OnlyAnswers, Answers, caller
<1> HIDE DEF o
<1> QED
  BY <1>1, <1>4, <1>5, SpeakPreserves DEF IInv, TypeOK, CallInv

LEMMA RefusePreserves == ASSUME IInv, Refuse PROVE IInv'
<1>1. /\ Take /\ speaking' \in {<<Final("ERROR")>>, <<>>}
      /\ UNCHANGED <<pc, caller, outcome, abandoned, during, setting, input>>
  BY DEF Refuse
<1>2. speaking' \in Seq(Messages)
  <2>1. <<Final("ERROR")>> \in Seq(Messages)
    BY MessageTypes
  <2>2. <<>> \in Seq(Messages)
    OBVIOUS
  <2> QED
    BY <1>1, <2>1, <2>2
<1>3. OnlyAnswers(speaking)'
  <2>1. \A j \in 1..Len(speaking') : speaking'[j] = Final("ERROR")
    BY <1>1
  <2>2. Final("ERROR").says = "ERROR"
    BY DEF Final
  <2> QED
    BY <2>1, <2>2 DEF OnlyAnswers, Answers
<1> QED
  BY <1>1, <1>2, <1>3, SpeakPreserves DEF IInv, TypeOK, CallInv

LEMMA SayPreserves == ASSUME IInv, Say PROVE IInv'
<1>1. /\ speaking # <<>>
      /\ input' = Append(input, Head(speaking)) /\ speaking' = Tail(speaking)
      /\ UNCHANGED <<pc, caller, outcome, abandoned, during, setting, inbox>>
  BY DEF Say
<1>2. speaking \in Seq(Messages) /\ input \in Seq(Messages)
  BY DEF IInv, TypeOK
<1>3. /\ Head(speaking) = speaking[1] /\ 1 \in 1..Len(speaking) /\ speaking[1] \in Messages
      /\ \A j \in 1..Len(speaking') : j + 1 \in 1..Len(speaking) /\ speaking'[j] = speaking[j + 1]
      /\ speaking' \in Seq(Messages)
  BY <1>1, <1>2
<1>4. /\ input' \in Seq(Messages)
      /\ \A j \in 1..Len(input') :
           \/ j \in 1..Len(input) /\ input'[j] = input[j]
           \/ input'[j] = speaking[1]
  BY <1>1, <1>2, <1>3
<1>5. OwnInv'
  <2>1. pc = "wait" /\ ~abandoned => inbox = <<>> /\ OnlyAnswers(speaking)
                                      /\ OnlyAnswers(input) /\ OnlyAnswers(response)
    BY <1>1 DEF IInv, OwnInv
  <2>2. OnlyAnswers(speaking) => OnlyAnswers(speaking)'
    BY <1>1, <1>3 DEF OnlyAnswers, Answers, caller
  <2>3. OnlyAnswers(speaking) /\ OnlyAnswers(input) => OnlyAnswers(input)'
    BY <1>1, <1>3, <1>4 DEF OnlyAnswers, Answers, caller
  <2>4. OnlyAnswers(response) => OnlyAnswers(response)'
    BY <1>1 DEF OnlyAnswers, Answers, caller, outcome
  <2>5. ~(pc = "send" /\ ~abandoned)
    BY <1>1 DEF IInv, OwnInv
  <2> QED
    BY <1>1, <2>1, <2>2, <2>3, <2>4, <2>5 DEF OwnInv
<1> QED
  BY <1>1, <1>3, <1>4, <1>5, ModemStepPreserves DEF IInv, TypeOK, CallInv

\* Unasked, the modem says what is true of the quantity, or what is not about it.
LEMMA SpeakUnaskedPreserves == ASSUME IInv, SpeakUnasked PROVE IInv'
<1>1. PICK m \in {Report(q, setting[q]) : q \in Drifting}
               \cup {Report("other", v) : v \in Values} :
        input' = Append(input, m)
  BY DEF SpeakUnasked
<1>2. /\ speaking = <<>>
      /\ UNCHANGED <<pc, caller, outcome, abandoned, during, setting, inbox, speaking>>
  BY DEF SpeakUnasked
<1>3. m \in Messages /\ (Calling => Hearsay(m))
  <2>1. CASE \E q \in Drifting : m = Report(q, setting[q])
    <3>1. PICK q \in Drifting : m = Report(q, setting[q])
      BY <2>1
    <3>2. q \in Quantities /\ setting[q] \in Values /\ q # "none"
      BY DeviceDriverAssumption DEF IInv, TypeOK
    <3>3. Calling /\ q = op.of => setting[q] \in during
      BY <3>2 DEF IInv, CallInv
    <3>4. m \in Messages
      BY <3>1, <3>2, MessageTypes DEF AnyText
    <3> QED
      BY <3>1, <3>3, <3>4 DEF Hearsay, Report
  <2>2. CASE \E v \in Values : m = Report("other", v)
    <3>1. PICK v \in Values : m = Report("other", v)
      BY <2>2
    <3>2. op.of # "other"
      BY OperationTypes, DeviceDriverAssumption DEF IInv, TypeOK
    <3>3. m \in Messages
      BY <3>1, MessageTypes DEF AnyText
    <3> QED
      BY <3>1, <3>2, <3>3 DEF Hearsay, Report
  <2> QED
    BY <1>1, <2>1, <2>2
<1>4. /\ input' \in Seq(Messages)
      /\ \A j \in 1..Len(input') : \/ j \in 1..Len(input) /\ input'[j] = input[j]
                                   \/ input'[j] = m
  BY <1>1, <1>3 DEF IInv, TypeOK
<1>5. Calling => /\ OnlyHearsay(input) => OnlyHearsay(input)'
                 /\ OnlyAnswers(input) => OnlyAnswers(input)'
  BY <1>2, <1>3, <1>4 DEF OnlyHearsay, Hearsay, OnlyAnswers, Answers, caller
<1>6. /\ OnlyHearsay(response) => OnlyHearsay(response)'
      /\ OnlyAnswers(response) => OnlyAnswers(response)'
      /\ OnlyAnswers(speaking) => OnlyAnswers(speaking)'
  BY <1>2 DEF OnlyHearsay, Hearsay, OnlyAnswers, Answers, caller, outcome
<1>7. OwnInv'
  <2>1. pc = "send" \/ pc = "wait" => Calling
    BY DEF Calling
  <2> QED
    BY <1>2, <1>5, <1>6, <2>1 DEF IInv, OwnInv, caller
<1> QED
  BY <1>2, <1>4, <1>7, ModemStepPreserves DEF IInv, TypeOK, CallInv

LEMMA DriftPreserves == ASSUME IInv, Drift PROVE IInv'
<1>1. PICK q \in Drifting, v \in Values : Becomes(q, v)
  BY DEF Drift
<1>2. UNCHANGED <<pc, caller, outcome, abandoned, link>>
  BY DEF Drift
<1>3. /\ setting' \in [Quantities -> Values] /\ during' \in SUBSET Values
      /\ during \subseteq during'
      /\ Calling /\ op.of # "none" => setting'[op.of] \in during'
  BY <1>1, DeviceDriverAssumption, BecomesTypes
<1>4. OwnInv'
  BY <1>2, <1>3 DEF IInv, OwnInv, OnlyAnswers, Answers, OnlyHearsay, Hearsay, caller,
     outcome, link
<1> QED
  BY <1>2, <1>3, <1>4, ModemStepPreserves DEF IInv, TypeOK, link

-----------------------------------------------------------------------------
(* The theorems                                                            *)

LEMMA NextPreserves == IInv /\ [Next]_vars => IInv'
<1> SUFFICES ASSUME IInv, [Next]_vars PROVE IInv'
  OBVIOUS
<1>1. CASE Open \/ Destroy
  <2>1. /\ ~Calling /\ ~Calling' /\ pc' \in {"closed", "idle"}
        /\ UNCHANGED <<caller, outcome, abandoned, during, setting, inbox, speaking>>
    BY <1>1 DEF Open, Destroy, Calling, link
  <2>2. input' \in Seq(Messages)
    <3>1. input \in Seq(Messages) /\ <<>> \in Seq(Messages)
      BY DEF IInv, TypeOK
    <3>2. input' = input \/ input' = <<>>
      BY <1>1 DEF Open, Destroy, link
    <3> QED
      BY <3>1, <3>2, Zenon
  <2> QED
    BY <2>1, <2>2 DEF IInv, TypeOK, Optional, CallInv, ReceiveInv, OwnInv, SettersEffective,
       ReadingsTrue, OwnsWhatItReturned, caller, outcome, Orders
<1>2. ASSUME NEW o \in Operations(driver), CallWithoutHandle(o) PROVE IInv'
  <2>1. o.nohandle # "no"
    BY OperationTypes DEF Sound, Reports, Results
  <2> QED
    BY <1>2, <2>1, AtOncePreserves DEF CallWithoutHandle
<1>3. ASSUME NEW o \in Operations(driver), CallRefused(o) PROVE IInv'
  BY <1>3, AtOncePreserves DEF CallRefused
<1>4. ASSUME NEW o \in Operations(driver), NEW v \in Arguments(o), Call(o, v) PROVE IInv'
  BY <1>4, CallPreserves
<1>5. CASE Flush \/ Send \/ Receive
  BY <1>5, FlushPreserves, SendPreserves, ReceivePreserves
<1>6. CASE Timeout
  BY <1>6, GiveUpPreserves DEF Timeout, Calling
<1>7. CASE LinkFails
  BY <1>7, GiveUpPreserves DEF LinkFails
<1>8. CASE ModemNext
  BY <1>8, ExecuteSetPreserves, ExecuteGetPreserves, RefusePreserves, SayPreserves,
     SpeakUnaskedPreserves, DriftPreserves DEF ModemNext
<1>9. CASE UNCHANGED vars
  BY <1>9 DEF vars, IInv, TypeOK, Optional, CallInv, ReceiveInv, OwnInv, SettersEffective,
     ReadingsTrue, OwnsWhatItReturned, Calling, OnlyAnswers, Answers, OnlyHearsay, Hearsay,
     caller, outcome, link, Orders
<1> QED
  BY <1>1, <1>2, <1>3, <1>4, <1>5, <1>6, <1>7, <1>8, <1>9 DEF Next

\* Every reachable state satisfies the inductive invariant and has the types.
THEOREM Invariance == Spec => [](TypeOK /\ IInv)
<1>1. IInv => TypeOK
  BY DEF IInv
<1> QED
  BY <1>1, InitEstablishes, NextPreserves, PTL DEF Spec

\* A setting that was acknowledged has been in force during the call, unless
\* an earlier command was outstanding at the flush.
THEOREM SettingsInForce == Spec => []SettersEffective
<1>1. IInv => SettersEffective
  BY DEF IInv
<1> QED
  BY <1>1, Invariance, PTL

\* Under the same condition, a value that was read was the modem's during the
\* call, whatever it says unasked meanwhile, except with the five functions that
\* take any text, when an unasked one comes first, and the one that tells
\* "disabled" of what it has not learned.
THEOREM ReadingsCurrent == Spec => []ReadingsTrue
<1>1. IInv => ReadingsTrue
  BY DEF IInv
<1> QED
  BY <1>1, Invariance, PTL

\* Every function of either driver, whatever becomes of its command, releases
\* its response, except the one that never does, and leaves its result to the
\* caller exactly after a success.
THEOREM Ownership == Spec => []OwnsWhatItReturned
<1>1. IInv => OwnsWhatItReturned
  BY DEF IInv
<1> QED
  BY <1>1, Invariance, PTL

-----------------------------------------------------------------------------
(* Refinement                                                              *)

\* What the AT interface has for a response of messages: words with line ends.
Mapped(r) ==
  [j \in 1..(2 * Len(r)) |->
     IF j % 2 = 0 THEN "CRLF"
     ELSE LET m == r[(j + 1) \div 2] IN IF m.says = "text" THEN "TEXT" ELSE m.says]

Has(r, word) == \E j \in 1..Len(r) : r[j].says = word

\* The mapped response has the words of the messages, each with its line end.
LEMMA MappedWords ==
  ASSUME NEW r \in Seq(Messages)
  PROVE  /\ Mapped(r) \in Seq(Interface!Symbols)
         /\ Interface!HasOk(Mapped(r)) <=> Has(r, "OK")
         /\ Interface!HasError(Mapped(r)) <=> Has(r, "ERROR")
<1> DEFINE n == Len(r)
           M == Mapped(r)
           Says(i) == r[i].says
<1>1. n \in Nat /\ \A i \in 1..n : Says(i) \in {"text", "OK", "ERROR"}
  BY MessageTypes
<1>2. /\ DOMAIN M = 1..(2 * n)
      /\ \A j \in 1..(2 * n) :
           M[j] = IF j % 2 = 0 THEN "CRLF"
                  ELSE IF Says((j + 1) \div 2) = "text" THEN "TEXT"
                       ELSE Says((j + 1) \div 2)
  BY DEF Mapped
<1>3. \A j \in 1..(2 * n) : j % 2 # 0 =>
        (j + 1) \div 2 \in 1..n /\ j < 2 * n /\ (j + 1) % 2 = 0
  BY <1>1
<1>4. \A i \in 1..n : /\ 2 * i - 1 \in 1..(2 * n) /\ 2 * i \in 1..(2 * n)
                      /\ (2 * i - 1) % 2 # 0 /\ (2 * i) % 2 = 0
                      /\ ((2 * i - 1) + 1) \div 2 = i
  BY <1>1
<1> HIDE DEF M, n, Says
<1>5. M \in Seq(Interface!Symbols) /\ Len(M) = 2 * n
  <2>1. \A j \in 1..(2 * n) : M[j] \in Interface!Symbols
    BY <1>1, <1>2, <1>3 DEF Interface!Symbols
  <2>2. M = [j \in 1..(2 * n) |-> M[j]] /\ 2 * n \in Nat
    BY <1>1, <1>2 DEF M, Mapped, n
  <2> QED
    BY <2>1, <2>2
<1>6. ASSUME NEW word \in {"OK", "ERROR"}
      PROVE  Interface!Line(M, word) <=> \E i \in 1..n : Says(i) = word
  <2>1. ASSUME Interface!Line(M, word) PROVE \E i \in 1..n : Says(i) = word
    <3>1. PICK j \in 1..(2 * n) : M[j] = word
      BY <1>5, <2>1 DEF Interface!Line
    <3>2. j % 2 # 0 /\ Says((j + 1) \div 2) = word
      BY <1>2, <3>1
    <3> QED
      BY <1>3, <3>2
  <2>2. ASSUME NEW i \in 1..n, Says(i) = word PROVE Interface!Line(M, word)
    <3>1. M[2 * i - 1] = word /\ M[(2 * i - 1) + 1] = "CRLF"
      <4>1. (2 * i - 1) + 1 = 2 * i
        BY <1>1
      <4> QED
        BY <1>2, <1>4, <2>2, <4>1
    <3>2. 2 * i - 1 \in 1..Len(M) /\ 2 * i - 1 < Len(M)
      BY <1>1, <1>5
    <3> QED
      BY <3>1, <3>2 DEF Interface!Line
  <2> QED
    BY <2>1, <2>2
<1>7. \A j \in 1..Len(M) : M[j] # "CME"
  BY <1>1, <1>2, <1>3, <1>5
<1> QED
  BY <1>5, <1>6, <1>7 DEF Interface!HasOk, Interface!HasError, Has, M, n, Says

\* A call that returns truthfully is a return of the abstract interface.
LEMMA ReturnMapped ==
  ASSUME Calling, ~Calling', NEW s \in Interface!Statuses, NEW r \in Seq(Messages),
         status' = s, response' = r,
         s = "SUCCESS" => Has(r, "OK"),
         s = "FAILED" => Has(r, "ERROR") /\ ~Has(r, "OK"),
         s \notin {"SUCCESS", "FAILED"} => ~Has(r, "ERROR") /\ ~Has(r, "OK")
  PROVE  Interface!Next
<1>1. /\ Mapped(r) \in Seq(Interface!Symbols)
      /\ Interface!HasOk(Mapped(r)) <=> Has(r, "OK")
      /\ Interface!HasError(Mapped(r)) <=> Has(r, "ERROR")
  BY MappedWords
<1>2. Interface!Truthful(s, Mapped(r))
  BY <1>1 DEF Interface!Truthful
<1>3. Calling = TRUE /\ Calling' = FALSE
  BY DEF Calling
<1>4. (IF Calling THEN <<>> ELSE Mapped(response))' = Mapped(r)
  BY <1>3
<1>5. Interface!Return
  BY <1>1, <1>2, <1>3, <1>4 DEF Interface!Return, Mapped
<1> QED
  BY <1>5 DEF Interface!Next

\* What the operations of the drivers get from the modem is what the AT
\* interface promises, whichever commands and late answers are on the way.
THEOREM InterfaceImplemented == Spec => UsesAtInterface
<1>1. Init => Interface!Init
  <2> SUFFICES ASSUME Init PROVE Interface!Init
    OBVIOUS
  <2>1. Calling = FALSE
    BY DEF Init, Calling
  <2>2. response = <<>> /\ status = "NONE"
    BY DEF Init
  <2>3. Mapped(<<>>) = <<>>
    BY DEF Mapped
  <2> QED
    BY <2>1, <2>2, <2>3 DEF Interface!Init, Mapped
<1>2. IInv /\ IInv' /\ [Next]_vars => [Interface!Next]_(Interface!vars)
  <2> SUFFICES ASSUME IInv, IInv', [Next]_vars
               PROVE  Interface!Next \/ UNCHANGED Interface!vars
    OBVIOUS
  <2>1. ASSUME UNCHANGED <<status, response>>, Calling' = Calling
        PROVE  UNCHANGED Interface!vars
    BY <2>1 DEF Interface!vars
  <2>2. CASE Open \/ Destroy
    BY <2>1, <2>2 DEF Open, Destroy, Calling, outcome
  <2>3. ASSUME NEW o \in Operations(driver), CallWithoutHandle(o) \/ CallRefused(o)
        PROVE  UNCHANGED Interface!vars
    BY <2>1, <2>3 DEF CallWithoutHandle, CallRefused, ReturnAtOnce, Calling
  <2>4. ASSUME NEW o \in Operations(driver), NEW v \in Arguments(o), Call(o, v)
        PROVE  Interface!Next
    <3>1. Calling = FALSE /\ Calling' = TRUE
      BY <2>4 DEF Call, Calling
    <3> QED
      BY <2>4, <3>1 DEF Call, Interface!Next, Interface!Call
  <2>5. CASE Flush \/ Send
    BY <2>1, <2>5 DEF Flush, Send, Calling, outcome
  <2>6. CASE Receive
    <3>1. pc = "wait" /\ Calling
      BY <2>6 DEF Receive, Calling
    <3> DEFINE R(k) == response \o SubSeq(input, 1, k)
               Words(k) == {R(k)[j].says : j \in DOMAIN R(k)}
    <3>2. PICK k \in 1..Len(input) :
            \/ "OK" \in Words(k) /\ Return("SUCCESS", R(k))
            \/ "OK" \notin Words(k) /\ "ERROR" \in Words(k) /\ Return("FAILED", R(k))
            \/ /\ Words(k) = {"text"}
               /\ response' = R(k)
               /\ UNCHANGED <<pc, status, result, reading, memory>>
      BY <2>6 DEF Receive
    <3>3. response' = R(k) /\ response' \in Seq(Messages)
      BY <3>2 DEF Return, IInv, TypeOK
    <3>4. DOMAIN response' = 1..Len(response')
      BY <3>3
    <3>5. /\ "OK" \in Words(k) <=> Has(response', "OK")
          /\ "ERROR" \in Words(k) <=> Has(response', "ERROR")
      BY <3>3, <3>4 DEF Has
    <3> HIDE DEF R, Words
    <3>6. CASE pc' = "wait" /\ UNCHANGED status
      <4>1. Calling' = TRUE /\ Calling = TRUE
        BY <3>1, <3>6 DEF Calling
      <4> QED
        BY <3>6, <4>1 DEF Interface!vars
    <3>7. CASE "OK" \in Words(k) /\ Return("SUCCESS", R(k))
      <4>1. ~Calling' /\ status' = "SUCCESS"
        BY <3>7 DEF Return, Calling
      <4> QED
        BY <3>1, <3>3, <3>5, <3>7, <4>1, ReturnMapped DEF Interface!Statuses
    <3>8. CASE "OK" \notin Words(k) /\ "ERROR" \in Words(k) /\ Return("FAILED", R(k))
      <4>1. ~Calling' /\ status' = "FAILED"
        BY <3>8 DEF Return, Calling
      <4> QED
        BY <3>1, <3>3, <3>5, <3>8, <4>1, ReturnMapped DEF Interface!Statuses
    <3> QED
      BY <3>1, <3>2, <3>6, <3>7, <3>8
  <2>7. ASSUME Calling, NEW s \in {"TIMEOUT", "IO_ERROR"}, Return(s, response)
        PROVE  Interface!Next
    <3>1. ~Calling' /\ status' = s /\ response' = response
      BY <2>7 DEF Return, Calling
    <3>2. \A j \in 1..Len(response) : response[j].says = "text"
      BY <2>7 DEF IInv, ReceiveInv, Calling
    <3>3. ~Has(response, "OK") /\ ~Has(response, "ERROR")
      BY <3>2 DEF Has
    <3>4. response \in Seq(Messages) /\ s \in Interface!Statuses
      BY DEF IInv, TypeOK, Interface!Statuses
    <3> QED
      BY <2>7, <3>1, <3>3, <3>4, ReturnMapped
  <2>8. CASE Timeout
    BY <2>7, <2>8 DEF Timeout, Calling
  <2>9. CASE LinkFails
    BY <2>7, <2>9 DEF LinkFails
  <2>10. CASE ModemNext
    BY <2>1, <2>10 DEF ModemNext, ExecuteSet, ExecuteGet, Refuse, Say, SpeakUnasked, Drift,
       Calling, outcome
  <2>11. CASE UNCHANGED vars
    BY <2>1, <2>11 DEF vars, outcome, Calling
  <2> QED
    BY <2>2, <2>3, <2>4, <2>5, <2>6, <2>8, <2>9, <2>10, <2>11 DEF Next
<1> QED
  BY <1>1, <1>2, Invariance, PTL DEF Spec, UsesAtInterface, Interface!Spec

=============================================================================

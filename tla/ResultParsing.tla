--------------------------- MODULE ResultParsing ---------------------------
(***************************************************************************)
(* How the drivers read structures out of a response                       *)
(* (at_sierra_wireless_em7565.c, _mc7455.c in                              *)
(* src/src/cmnalib/src/devices/): get_status finds one token for each      *)
(* field; get_lteinfo cuts sections out of the response, parses each into  *)
(* a table, and copies its rows.  It composes RegexCache, which finds the  *)
(* tokens and sections, and StringTable.                                   *)
(*                                                                         *)
(* Calls begin here when the command has succeeded (DeviceDriver has the   *)
(* rest).  An EM7565's caller may pass a result again, an MC7455's result  *)
(* is always new.  A section that is in order has a title row and a row    *)
(* for each neighbour, all with Columns words.                             *)
(***************************************************************************)
EXTENDS RegexCache, StringTable

CONSTANTS
  SliceSize,   \* size of the buffer for a section
  Columns,     \* columns that are read from a row
  MaxText,     \* bound: length of a section that is not in order
  MaxRows,     \* bound: neighbours of a section that is in order
  MaxCalls     \* bound: calls

\* The patterns in the order in which their functions look for them.  The last
\* is treated as the one before it, and is left out of small instances.
StatusPatterns == <<"number", "string">>
SectionPatterns ==
  IF "interfreq" \in Patterns THEN <<"serving", "intrafreq", "interfreq">>
  ELSE <<"serving", "intrafreq">>
Neighbourhoods == Patterns \cap {"intrafreq", "interfreq"}

ASSUME ResultParsingAssumption ==
  /\ Patterns \ {"interfreq"} = {"number", "string", "serving", "intrafreq"}
  /\ Null \notin Patterns \cup Addresses
  /\ SliceSize \in Nat \ {0} /\ Columns \in Nat \ {0}
  /\ {MaxText, MaxRows, MaxCalls} \subseteq Nat

VARIABLES
  pc,      \* "idle", "acquire" or "run" a regex, "parse", "crashed"
  todo,    \* the patterns left to the call, the first in progress
  calls,   \* calls made: the number of the last one
  since,   \* history: the call for which each result was allocated
  fields,  \* the fields of the status: the call that set it, 0 when cleared
  nof,     \* nof_*_neighbours, and the length of their array
  told,    \* history: neighbours in a section of this call, Null if it was
           \* not found, not in order, cut, or parsed with too little memory
  crash    \* history: what the crash was

result == <<fields, nof>>
vars == <<regexes, parsing, pc, todo, calls, since, result, told, crash>>

TypeOK ==
  /\ RegexTypeOK /\ TableTypeOK
  /\ pc \in {"idle", "acquire", "run", "parse", "crashed"}
  /\ todo \in Seq(Patterns) /\ (pc = "idle" <=> todo = <<>>)
  /\ calls \in 0..MaxCalls
  /\ since \in [{"status", "lteinfo"} -> 0..MaxCalls]
  /\ fields \in [{"number", "string"} -> 0..MaxCalls]
  /\ nof \in [Neighbourhoods -> Nat]
  /\ told \in [Neighbourhoods -> Nat \cup {Null}]
  /\ crash \in {"none", "array", "row"}

NoFields == [f \in {"number", "string"} |-> 0]
NoNeighbours == [s \in Neighbourhoods |-> 0]

Init ==
  /\ RegexInit /\ TableInit
  /\ pc = "idle" /\ todo = <<>> /\ calls = 0
  /\ since = [status |-> 0, lteinfo |-> 0]
  /\ fields = NoFields /\ nof = NoNeighbours
  /\ told = [s \in Neighbourhoods |-> Null]
  /\ crash = "none"

-----------------------------------------------------------------------------
(* Calls                                                                   *)

Call(patterns) ==
  /\ pc = "idle"
  /\ calls < MaxCalls
  /\ pc' = "acquire"
  /\ todo' = patterns
  /\ calls' = calls + 1
  /\ told' = [s \in Neighbourhoods |-> Null]
  /\ UNCHANGED <<regexes, parsing, crash>>

\* Mutant: the memory of a new status is not cleared.
NewStatusUncleared ==
  /\ since' = [since EXCEPT !.status = calls + 1]
  /\ UNCHANGED fields

NewStatus ==
  /\ since' = [since EXCEPT !.status = calls + 1]
  /\ fields' = NoFields

\* The EM7565 is given a status, new or used; the MC7455 takes a new one.
GetStatus ==
  /\ Call(StatusPatterns)
  /\ NewStatus \/ UNCHANGED <<since, fields>>
  /\ UNCHANGED nof

\* The earlier result was freed with its arrays.
NewLteinfo ==
  /\ since' = [since EXCEPT !.lteinfo = calls + 1]
  /\ nof' = NoNeighbours

GetLteinfo ==
  /\ Call(SectionPatterns)
  /\ NewLteinfo \/ UNCHANGED <<since, nof>>
  /\ UNCHANGED fields

\* Mutant: the loop goes one pattern too far.
ContinueInclusive ==
  /\ pc' = IF todo = <<>> THEN "idle" ELSE "acquire"
  /\ todo' = Tail(todo)

\* The next pattern, or the return of the call.
Continue ==
  /\ pc' = IF Len(todo) = 1 THEN "idle" ELSE "acquire"
  /\ todo' = Tail(todo)

-----------------------------------------------------------------------------
(* Looking for a pattern                                                   *)

Pattern == Head(todo)

Acquire ==
  /\ pc = "acquire"
  /\ Reuse(Pattern) \/ Compile(Pattern)
  /\ pc' = "run"
  /\ UNCHANGED <<parsing, todo, calls, since, result, told, crash>>

AcquireFails ==
  /\ pc = "acquire"
  /\ NoAutomaton(Pattern)
  /\ Continue
  /\ UNCHANGED <<parsing, calls, since, result, told, crash>>

\* Nothing is found, or a number that is out of range, or nothing of length.
RunInVain ==
  /\ pc = "run"
  /\ Ran
  /\ Continue
  /\ UNCHANGED <<parsing, calls, since, result, told, crash>>

RunBreaks ==
  /\ pc = "run"
  /\ RunFails(Pattern)
  /\ Continue
  /\ UNCHANGED <<parsing, calls, since, result, told, crash>>

\* No memory for the buffer of the strings: none is looked for.
NoBuffer ==
  /\ pc = "acquire" /\ Pattern = "string"
  /\ Continue
  /\ UNCHANGED <<regexes, parsing, calls, since, result, told, crash>>

\* The token goes into its field; a string is cut to the size of its member.
FindToken ==
  /\ pc = "run" /\ Pattern \in DOMAIN fields
  /\ Ran
  /\ fields' = [fields EXCEPT ![Pattern] = calls]
  /\ Continue
  /\ UNCHANGED <<parsing, calls, since, nof, told, crash>>

\* What tokenfind_string_single copies of a token into a buffer.
Copied(length, size) == IF length < size THEN length ELSE size - 1

\* A section in order, with its title and n neighbours.
Section(n) ==
  LET row == [k \in 1..(2 * Columns) |->
                IF k % 2 = 1 THEN "word" ELSE IF k = 2 * Columns THEN "newline" ELSE "blank"]
  IN [k \in 1..(2 * Columns * (n + 1)) |-> row[((k - 1) % (2 * Columns)) + 1]]

Sections == {Section(n) : n \in 0..MaxRows}

\* The section found is copied into the buffer, as far as it fits, and parsed.
FindSection ==
  /\ pc = "run" /\ Pattern \in {"serving"} \cup Neighbourhoods
  /\ Ran
  /\ \E text \in (Strings(MaxText) \cup Sections) \ {<<>>} :
       LET slice == SubSeq(text, 1, Copied(Len(text), SliceSize)) IN
         /\ ParseTable(slice) \/ ParseNothing(slice)
         /\ told' = IF Pattern = "serving" \/ slice \notin Sections \/ slice # text
                    THEN told
                    ELSE [told EXCEPT ![Pattern] =
                            CHOOSE n \in 0..MaxRows : text = Section(n)]
  /\ pc' = "parse"
  /\ UNCHANGED <<todo, calls, since, result, crash>>

-----------------------------------------------------------------------------
(* Parsing a section                                                       *)

Parse ==
  /\ pc = "parse"
  /\ ParseStep
  /\ UNCHANGED <<regexes, pc, todo, calls, since, result, told, crash>>

Complete(r) == r <= Len(table) /\ Len(table[r]) >= Columns

Leave ==
  /\ FreeTable
  /\ Continue
  /\ told' = [s \in Neighbourhoods |-> IF s = Pattern /\ short THEN Null ELSE told[s]]
  /\ UNCHANGED <<regexes, calls, since, crash>>

Crash(what) ==
  /\ pc' = "crashed"
  /\ crash' = what
  /\ UNCHANGED <<regexes, parsing, todo, calls, since, result, told>>

\* No table, or nothing but a title: the result keeps what it has.
FillNothing ==
  /\ pc = "parse"
  /\ tpc = "failed" \/ (tpc = "done" /\ nrows <= 1)
  /\ Leave
  /\ UNCHANGED result

FillServing ==
  /\ pc = "parse" /\ Pattern = "serving"
  /\ tpc = "done" /\ nrows > 1
  /\ IF Complete(2) THEN Leave /\ UNCHANGED result ELSE Crash("row")

\* Mutant: one row more is read than there is.
FillNeighboursInclusive ==
  /\ pc = "parse" /\ Pattern \in Neighbourhoods
  /\ tpc = "done" /\ nrows > 1
  /\ IF \A r \in 2..(nrows + 1) : Complete(r)
     THEN /\ nof' = [nof EXCEPT ![Pattern] = nrows - 1]
          /\ UNCHANGED fields
          /\ Leave
     ELSE Crash("row")

\* The old array is freed, a new one allocated, and each row read.
FillNeighbours ==
  /\ pc = "parse" /\ Pattern \in Neighbourhoods
  /\ tpc = "done" /\ nrows > 1
  /\ IF \A r \in 2..nrows : Complete(r)
     THEN /\ nof' = [nof EXCEPT ![Pattern] = nrows - 1]
          /\ UNCHANGED fields
          /\ Leave
     ELSE Crash("row")

\* There is no memory for the array, and the code does not look.
NoMemoryForNeighbours ==
  /\ pc = "parse" /\ Pattern \in Neighbourhoods
  /\ tpc = "done" /\ nrows > 1
  /\ Crash("array")

Next ==
  \/ GetStatus \/ GetLteinfo
  \/ Acquire \/ AcquireFails \/ NoBuffer
  \/ RunInVain \/ RunBreaks \/ FindToken \/ FindSection
  \/ Parse \/ FillNothing \/ FillServing \/ FillNeighbours \/ NoMemoryForNeighbours

Spec == Init /\ [][Next]_vars

-----------------------------------------------------------------------------
(* Properties                                                              *)

\* A call reads beyond a row only if a neighbour's row is incomplete in what
\* the modem says, or was cut by the buffer, or memory was short: never for a
\* section in order that fits.
CrashesForAReason ==
  crash = "row" => short \/ source \notin Sections

\* A field never has a value from a call before its result was allocated; and
\* a section in order is what the result has of it when the call returns:
\* always in a new result, in a used one if there is a neighbour.  (With none
\* the code leaves the older neighbours, em7565.c:449.)
ResultOfThisAnswer ==
  /\ \A f \in DOMAIN fields : fields[f] = 0 \/ fields[f] >= since.status
  /\ pc = "idle" =>
       \A s \in Neighbourhoods :
         told[s] # Null /\ (since.lteinfo = calls \/ told[s] > 0) => nof[s] = told[s]

=============================================================================

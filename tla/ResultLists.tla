----------------------------- MODULE ResultLists -----------------------------
(***************************************************************************)
(* The EM7565's lists of band profiles and networks, and its band profile  *)
(* (src/src/cmnalib/src/devices/at_sierra_wireless_em7565.c), with the AT  *)
(* interface they are tested over (AtMock).  These queries go on whatever  *)
(* the status of the command is, fill a list that the caller uses again    *)
(* and again, and allocate an entry for each row.                          *)
(*                                                                         *)
(* The answers are external.  Rows of profiles have the masks in the order *)
(* of their title; a row with networks is a sequence of the marks that the *)
(* search looks for: "(" and ")" around a network, and "rest" for the ",," *)
(* before the rest.                                                        *)
(***************************************************************************)
EXTENDS AtMock, FiniteSets, SequencesExt

CONSTANTS
  ProfileCapacity,  \* SW_EM7565_BAND_MAX_NOF_PROFILES
  NetworkCapacity,  \* NETWORK_MAX_NOF_NETWORKS
  Files,            \* the files of recorded exchanges
  MaxCalls,         \* bound: calls
  Null              \* the null pointer

Masks == {"gsm_umts", "lte", "tds", "lte2", "lte3", "lte4"}

\* An entry: the call that allocated it, its place in the list, and for a
\* profile which column of the answer each mask is read from.
Entries == [kind : {"profile", "network"}, call : Nat, place : Nat,
            masks : [Masks -> Masks \cup {"zero"}] \cup {Null}]

ASSUME ResultListsAssumption ==
  /\ Commands = {"at!band?", "at!band=?", "at+cops=?"}
  /\ Texts = {"title", "profile", "heading", "two", "one", "none", "all", "cut"}
  /\ Files \subseteq Seq(Lines)
  /\ Null \notin Entries
  /\ {ProfileCapacity, NetworkCapacity, MaxCalls} \subseteq Nat

VARIABLES
  pc,        \* "idle", "called", or "crashed"
  calls,     \* how many calls have been made
  profile,   \* of the caller: which column of the answer each mask has
  profiles,  \* nof_profiles and profile[] of the list
  networks,  \* nof_networks and network[] of the list
  heap,      \* the entries allocated and not freed
  misused,   \* something was freed that was not allocated
  short,     \* history: the last call had no memory for the rows
  renewed    \* history: the lists that were freed since the last call

lists == <<profile, profiles, networks, heap, misused>>
vars == <<mock, pc, calls, lists, short, renewed>>

-----------------------------------------------------------------------------
(* Answers                                                                 *)

MaskColumns == [get  |-> <<"gsm_umts", "lte", "tds", "lte2", "lte3", "lte4">>,
                list |-> <<"gsm_umts", "lte", "lte2", "tds", "lte3", "lte4">>]

Marks ==
  [two  |-> <<"(", ")", "(", ")", "rest", "(", ")">>,
   one  |-> <<"(", ")", "rest", "(", ")">>,
   none |-> <<"rest", "(", ")">>,
   all  |-> <<"(", ")", "(", ")", "(", ")">>,
   cut  |-> <<"(", ")", "(">>]

-----------------------------------------------------------------------------

EmptyList(capacity) == [nof |-> 0, entry |-> [i \in 1..capacity |-> Null]]

Init ==
  /\ \E file \in Files : MockInit(file)
  /\ pc = "idle" /\ calls = 0
  /\ profile = [f \in Masks |-> "unset"]
  /\ profiles = EmptyList(ProfileCapacity)
  /\ networks = EmptyList(NetworkCapacity)
  /\ heap = {} /\ misused = FALSE
  /\ short = FALSE /\ renewed = {}

Call ==
  /\ pc = "idle"
  /\ calls < MaxCalls
  /\ \E c \in Commands : Command(c)
  /\ pc' = "called"
  /\ calls' = calls + 1
  /\ short' = FALSE /\ renewed' = {}
  /\ UNCHANGED <<lists>>

Answer ==
  /\ pc = "called"
  /\ MockStep
  /\ UNCHANGED <<pc, calls, lists, short, renewed>>

\* The call continues with the response, or without one.
Answered(c) == pc = "called" /\ mpc = "idle" /\ asked = c
Responded(c) == Answered(c) /\ status # "OUT_OF_MEMORY"

Return ==
  /\ pc' = "idle"
  /\ UNCHANGED <<mock, calls, short, renewed>>

Crash ==
  /\ pc' = "crashed"
  /\ UNCHANGED <<mock, calls, lists, short, renewed>>

\* response is NULL, and its string is looked at.
UseNoResponse ==
  /\ pc = "called" /\ mpc = "idle" /\ status = "OUT_OF_MEMORY"
  /\ Crash

\* What the entries below the count point to.
Counted(l) == {l.entry[i] : i \in {j \in DOMAIN l.entry : j <= l.nof}}

Entry(kind, i, masks) == [kind |-> kind, call |-> calls, place |-> i, masks |-> masks]

\* Mutant: the entries are not counted.
NewListUncounted(list, entries) ==
  [nof |-> 0,
   entry |-> [i \in DOMAIN list.entry |->
                IF i \in DOMAIN entries THEN entries[i] ELSE list.entry[i]]]

NewList(list, entries) ==
  [nof |-> Len(entries),
   entry |-> [i \in DOMAIN list.entry |->
                IF i \in DOMAIN entries THEN entries[i] ELSE list.entry[i]]]

-----------------------------------------------------------------------------
(* The profile in use                                                      *)

\* The masks that get masks[0], masks[1], ...
ListOrder == <<"gsm_umts", "lte", "lte2", "tds", "lte3", "lte4">>

\* Mutant: the masks are read in the order of the list.
GetOrderOfList == ListOrder

GetOrder == <<"gsm_umts", "lte", "tds", "lte2", "lte3", "lte4">>

Read(order, titles) ==
  [f \in Masks |-> titles[CHOOSE i \in DOMAIN order : order[i] = f]]

\* sw_em7565_get_band_config_profile: the row behind the title, of what comes
\* before the last OK; without the OK, or a row, the caller's profile stays.
GetProfile ==
  /\ Responded("at!band?")
  /\ LET rows == Front(answer) IN
       IF status = "SUCCESS" /\ Len(rows) > 1
       THEN profile' = IF rows[2] = "profile" THEN Read(GetOrder, MaskColumns.get)
                       ELSE [f \in Masks |-> "zero"]
       ELSE UNCHANGED profile
  /\ Return
  /\ UNCHANGED <<profiles, networks, heap, misused>>

-----------------------------------------------------------------------------
(* The list of profiles                                                    *)

\* The rows that become entries: from the second one to the first that starts
\* with a space, or to the end, with the final line among them.
ProfileRows ==
  LET headings == {i \in 2..Len(answer) : answer[i] = "heading"}
      last == IF headings = {} THEN Len(answer)
              ELSE (CHOOSE i \in headings : \A j \in headings : i <= j) - 1
  IN SubSeq(answer, 2, last)

ProfileEntries ==
  [i \in DOMAIN ProfileRows |->
     Entry("profile", i, IF ProfileRows[i] = "profile" THEN Read(ListOrder, MaskColumns.list)
                         ELSE [f \in Masks |-> "zero"])]

\* Mutant: the old entries are freed and not forgotten.
CleanedKeeping(list) == list

\* The pointers that are freed are forgotten; the count stays.
Cleaned(list) ==
  [list EXCEPT !.entry = [i \in DOMAIN @ |-> IF i <= list.nof THEN Null ELSE @[i]]]

\* sw_em7565_get_band_config_profile_list
GetProfileList ==
  /\ Responded("at!band=?")
  /\ LET old == Counted(profiles) \ {Null}
         new == IF Len(answer) > 1 THEN ProfileEntries ELSE <<>>
     IN IF Len(new) > ProfileCapacity THEN Crash
        ELSE /\ heap' = (heap \ old) \cup {new[i] : i \in DOMAIN new}
             /\ misused' = (misused \/ ~(old \subseteq heap))
             /\ profiles' = IF Len(answer) > 1 THEN NewList(Cleaned(profiles), new)
                            ELSE Cleaned(profiles)
             /\ UNCHANGED <<profile, networks>>
             /\ Return

\* No memory to split the response: there are no rows, and the list is cleaned
\* only.
NoMemoryForRows ==
  /\ Responded("at!band=?") \/ Responded("at!band?")
  /\ IF asked = "at!band=?"
     THEN /\ heap' = heap \ Counted(profiles)
          /\ misused' = (misused \/ ~(Counted(profiles) \ {Null} \subseteq heap))
          /\ profiles' = Cleaned(profiles)
     ELSE UNCHANGED <<heap, misused, profiles>>
  /\ pc' = "idle"
  /\ short' = TRUE
  /\ UNCHANGED <<mock, calls, profile, networks, renewed>>

\* sw_em7565_free_band_config_profile_list, and a new list.
FreeProfileList ==
  /\ pc = "idle"
  /\ heap' = heap \ Counted(profiles)
  /\ misused' = (misused \/ ~(Counted(profiles) \ {Null} \subseteq heap))
  /\ profiles' = EmptyList(ProfileCapacity)
  /\ renewed' = renewed \cup {"profiles"}
  /\ UNCHANGED <<mock, pc, calls, profile, networks, short>>

-----------------------------------------------------------------------------
(* The list of networks                                                    *)

\* What the search goes through: the row with the networks (there is only one)
\* up to the first ",,".
Searched ==
  LET rows == {i \in DOMAIN answer : answer[i] \in DOMAIN Marks}
      marks == IF rows = {} THEN <<>> ELSE Marks[answer[CHOOSE i \in rows : TRUE]]
      commas == {i \in DOMAIN marks : marks[i] = "rest"}
  IN IF commas = {} THEN marks
     ELSE SubSeq(marks, 1, (CHOOSE i \in commas : \A j \in commas : i <= j) - 1)

\* A parenthesis that is not closed: the search writes where strstr() found
\* none.
Unclosed(marks) ==
  \E i \in DOMAIN marks : marks[i] = "(" /\ \A j \in i..Len(marks) : marks[j] # ")"

\* Each ")" with a "(" before it and no other ")" between.
NofNetworks(marks) ==
  Cardinality({j \in DOMAIN marks : marks[j] = ")" /\
    \E i \in 1..j : marks[i] = "(" /\ \A k \in i..(j - 1) : marks[k] # ")"})

NetworkEntries == [i \in 1..NofNetworks(Searched) |-> Entry("network", i, Null)]

\* The freed pointers stay in the array, behind the count of what was found.
\* sw_em7565_network_search
NetworkSearch ==
  /\ Responded("at+cops=?")
  /\ IF Unclosed(Searched) THEN Crash
     ELSE IF NofNetworks(Searched) > NetworkCapacity THEN Crash
     ELSE /\ heap' = (heap \ Counted(networks))
                       \cup {NetworkEntries[i] : i \in DOMAIN NetworkEntries}
          /\ misused' = (misused \/ ~(Counted(networks) \subseteq heap))
          /\ networks' = NewList(networks, NetworkEntries)
          /\ UNCHANGED <<profile, profiles>>
          /\ Return

\* sw_em7565_free_network_list, and a new list.
FreeNetworkList ==
  /\ pc = "idle"
  /\ heap' = heap \ Counted(networks)
  /\ misused' = (misused \/ ~(Counted(networks) \subseteq heap))
  /\ networks' = EmptyList(NetworkCapacity)
  /\ renewed' = renewed \cup {"networks"}
  /\ UNCHANGED <<mock, pc, calls, profile, profiles, short>>

\* No memory for an entry: it is written to all the same.
NoMemoryForEntry ==
  /\ \/ Responded("at!band=?") /\ Len(answer) > 1 /\ ProfileRows # <<>>
     \/ Responded("at+cops=?") /\ NofNetworks(Searched) > 0
  /\ Crash

Next ==
  \/ Call \/ Answer \/ UseNoResponse
  \/ GetProfile \/ GetProfileList \/ NetworkSearch
  \/ NoMemoryForRows \/ NoMemoryForEntry
  \/ FreeProfileList \/ FreeNetworkList

Spec == Init /\ [][Next]_vars

-----------------------------------------------------------------------------
(* Properties                                                              *)

\* However often a list is filled, whatever the answers, and whenever it is
\* freed: nothing is freed twice, and nothing is lost; what is allocated is
\* what the lists count, the cleaned entries of the profiles being NULL
\* (em7565.c:1170, 1256).
EntriesOwned ==
  /\ ~misused
  /\ heap = (Counted(profiles) \cup Counted(networks)) \ {Null}

\* The title row tells which mask a column is: an entry, and the profile in
\* use, never have a mask from another column, though the two answers order
\* them differently (em7565.c:1082-1087, 1192-1197).
MasksUnderTheirTitle ==
  /\ \A f \in Masks : profile[f] \in {f, "zero", "unset"}
  /\ \A e \in heap : e.kind = "profile" => \A f \in Masks : e.masks[f] \in {f, "zero"}

Says(line) == \E i \in DOMAIN answer : answer[i] = line
NofProfilesSaid == Cardinality({i \in DOMAIN answer : answer[i] = "profile"})

NofNetworksSaid ==
  IF Says("two") THEN 2 ELSE IF Says("one") THEN 1 ELSE IF Says("all") THEN 3 ELSE 0

\* Between its title and its final line the answer has first profiles and nothing
\* else, and from the first heading on none.
ProfilesInOrder ==
  /\ answer[1] = "title"
  /\ \A i \in 2..(Len(answer) - 1) :
       answer[i] = "profile" <=> \A j \in 2..i : answer[j] # "heading"

\* At most one row of the answer has networks.
NetworksInOrder ==
  \A i, j \in DOMAIN answer : {answer[i], answer[j]} \subseteq DOMAIN Marks => i = j

\* After a call that succeeded, and until it is freed, the list is this answer's,
\* with an entry of this call for each network or profile in the answer, be it
\* none, and no other; except that the final OK counts as a profile in an answer
\* without a heading, and that without rows, or memory for them, the count stays
\* over entries that are gone (em7565.c:1178).
ListsOfThisAnswer ==
  pc = "idle" /\ status = "SUCCESS" =>
    /\ asked = "at!band=?" /\ "profiles" \notin renewed =>
         /\ short \/ Len(answer) = 1 => Counted(profiles) \subseteq {Null}
         /\ ~short /\ Len(answer) > 1 /\ ProfilesInOrder =>
              /\ profiles.nof = NofProfilesSaid + IF Says("heading") THEN 0 ELSE 1
              /\ \A e \in Counted(profiles) : e \in heap /\ e.call = calls
    /\ asked = "at+cops=?" /\ "networks" \notin renewed /\ NetworksInOrder =>
         /\ networks.nof = NofNetworksSaid
         /\ \A e \in Counted(networks) : e \in heap /\ e.call = calls

=============================================================================

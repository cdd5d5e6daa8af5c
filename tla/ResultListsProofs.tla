-------------------------- MODULE ResultListsProofs --------------------------
(***************************************************************************)
(* Proofs about ResultLists and AtMock, for any files, capacities and      *)
(* number of calls.  The mock: what it has read since the command is what  *)
(* stands in the file, and ends nothing before it returns.  The lists:     *)
(* what they count is theirs, the two lists never share an entry, and what *)
(* a list is filled with are the profiles or networks of the answer.       *)
(***************************************************************************)
EXTENDS ResultLists, Least, FiniteSetTheorems, SequenceTheorems, TLAPS

-----------------------------------------------------------------------------
(* The mock                                                                *)

\* The lines read last are the command and the answer so far.
Recorded ==
  /\ position > Len(answer)
  /\ script[position - Len(answer)] = asked
  /\ \A j \in 1..Len(answer) : script[position - Len(answer) + j] = answer[j]

\* While a call is in progress nothing has been read that ends it, and what
\* has been read is recorded, unless the file was at its end already.
MockInv ==
  /\ script \in Seq(Lines) /\ position \in 0..Len(script)
  /\ mpc \in {"idle", "compare", "read"} /\ answer \in Seq(Lines)
  /\ status \in {"NONE", "SUCCESS", "FAILED", "UNKNOWN", "OUT_OF_MEMORY",
                 "TEST_COMMAND_MISMATCH"}
  /\ mpc # "idle" => status = "NONE"
  /\ mpc = "compare" => answer = <<>>
  /\ mpc = "read" => /\ \A j \in 1..Len(answer) : answer[j] \notin Finals
                     /\ position < Len(script) => Recorded
  /\ status \in {"SUCCESS", "FAILED"} => Recorded
  /\ status = "SUCCESS" => answer # <<>> /\ answer[Len(answer)] = "OK"

LEMMA MockInitiated == ASSUME Init PROVE MockInv
<1>1. PICK file \in Files : MockInit(file)
  BY DEF Init
<1>2. file \in Seq(Lines)
  BY ResultListsAssumption
<1> QED
  BY <1>1, <1>2 DEF MockInit, MockInv

LEMMA CommandPreserves == ASSUME MockInv, NEW c \in Commands, Command(c) PROVE MockInv'
BY DEF MockInv, Command, Recorded

LEMMA ComparePreserves == ASSUME MockInv, Compare PROVE MockInv'
<1>1. /\ mpc = "compare" /\ answer = <<>> /\ status = "NONE"
      /\ UNCHANGED <<script, asked, answer>>
  BY DEF Compare, MockInv
<1>2. \/ position < Len(script) /\ position' = position + 1
      \/ position = Len(script) /\ position' = position
  BY DEF Compare, MockInv
<1>3. \/ /\ mpc' = "read" /\ status' = "NONE"
         /\ position' < Len(script) => script[position'] = asked
      \/ mpc' = "idle" /\ status' = "TEST_COMMAND_MISMATCH"
  BY <1>1, <1>2 DEF Compare, Returns, MockInv
<1> QED
  BY <1>1, <1>2, <1>3 DEF MockInv, Recorded

LEMMA ReadLinePreserves == ASSUME MockInv, ReadLine PROVE MockInv'
<1> DEFINE line == script[position + 1]
<1>1. /\ mpc = "read" /\ position < Len(script) /\ position' = position + 1
      /\ answer' = Append(answer, line) /\ Recorded /\ status = "NONE"
      /\ UNCHANGED <<script, asked>>
      /\ \/ FinalStatus(line) = "NONE" /\ UNCHANGED <<mpc, status>>
         \/ FinalStatus(line) # "NONE" /\ Returns(FinalStatus(line))
  BY DEF ReadLine, MockInv
<1>2. line \in Lines
  BY <1>1 DEF MockInv
<1> HIDE DEF line
<1>3. /\ answer' \in Seq(Lines) /\ Len(answer') = Len(answer) + 1
      /\ answer'[Len(answer) + 1] = line
      /\ \A j \in 1..Len(answer) : answer'[j] = answer[j]
  BY <1>1, <1>2 DEF MockInv
<1>4. Recorded'
  <2>1. position' - Len(answer') = position - Len(answer) /\ Len(answer) \in Nat /\ position \in Nat
    BY <1>1, <1>3 DEF MockInv
  <2>2. \A j \in 1..Len(answer') : script[position - Len(answer) + j] = answer'[j]
    <3> SUFFICES ASSUME NEW j \in 1..Len(answer')
                 PROVE  script[position - Len(answer) + j] = answer'[j]
      OBVIOUS
    <3>1. CASE j = Len(answer) + 1
      <4>1. position - Len(answer) + j = position + 1
        BY <2>1, <3>1
      <4> QED
        BY <1>3, <3>1, <4>1 DEF line
    <3>2. CASE j # Len(answer) + 1
      BY <1>1, <1>3, <2>1, <3>2 DEF Recorded
    <3> QED
      BY <3>1, <3>2
  <2> QED
    BY <1>1, <1>3, <2>1, <2>2 DEF Recorded
<1>5. FinalStatus(line) = "NONE" => line \notin Finals
  BY DEF FinalStatus, Finals
<1>6. FinalStatus(line) \in {"NONE", "SUCCESS", "FAILED"}
  BY DEF FinalStatus
<1>7. FinalStatus(line) = "SUCCESS" => line = "OK"
  BY DEF FinalStatus
<1>8. status' = "SUCCESS" => answer' # <<>> /\ answer'[Len(answer')] = "OK"
  BY <1>1, <1>3, <1>7 DEF Returns, MockInv
<1>9. status' \in {"SUCCESS", "FAILED"} => Recorded'
  BY <1>4
<1>10. CASE FinalStatus(line) = "NONE"
  BY <1>1, <1>3, <1>4, <1>5, <1>10 DEF MockInv
<1>11. CASE FinalStatus(line) # "NONE"
  <2>1. mpc' = "idle" /\ status' \in {"SUCCESS", "FAILED"}
    BY <1>1, <1>6, <1>11 DEF Returns
  <2>2. script' \in Seq(Lines) /\ position' \in 0..Len(script')
    BY <1>1 DEF MockInv
  <2> QED
    BY <1>3, <1>8, <1>9, <2>1, <2>2 DEF MockInv
<1> QED
  BY <1>10, <1>11

LEMMA MockStepPreserves == ASSUME MockInv, MockStep PROVE MockInv'
<1>1. CASE NoMemory
  BY <1>1 DEF NoMemory, Returns, MockInv
<1>2. CASE ReadEnd
  BY <1>2 DEF ReadEnd, Returns, MockInv
<1> QED
  BY <1>1, <1>2, ComparePreserves, ReadLinePreserves DEF MockStep

-----------------------------------------------------------------------------
(* The lists                                                               *)

\* Profiles whose masks are from their own columns, and networks.
Profiles == {e \in Entries : e.kind = "profile" /\ \A f \in Masks : e.masks[f] \in {f, "zero"}}
Networks == {e \in Entries : e.kind = "network"}

Lists(capacity, S) ==
  [nof : 0..capacity, entry : [1..capacity -> S \cup {Null}]]

\* The profiles may count entries that were freed and forgotten, the networks
\* count none.
ListInv ==
  /\ calls \in Nat
  /\ pc \in {"idle", "called", "crashed"}
  /\ profile \in [Masks -> Masks \cup {"zero", "unset"}]
  /\ \A f \in Masks : profile[f] \in {f, "zero", "unset"}
  /\ profiles \in Lists(ProfileCapacity, Profiles)
  /\ networks \in Lists(NetworkCapacity, Networks)
  /\ Null \notin Counted(networks)
  /\ pc = "called" => ~short

IInv == MockInv /\ ListInv /\ EntriesOwned

LEMMA Capacities == ProfileCapacity \in Nat /\ NetworkCapacity \in Nat
BY ResultListsAssumption

\* The two lists have no entry in common, and no entry is the null pointer.
LEMMA Apart == Profiles \cap Networks = {} /\ Null \notin Profiles \cup Networks
BY ResultListsAssumption DEF Profiles, Networks

LEMMA CountedTypes ==
  ASSUME ListInv
  PROVE  Counted(profiles) \subseteq Profiles \cup {Null} /\ Counted(networks) \subseteq Networks
<1>1. \A i \in DOMAIN profiles.entry : profiles.entry[i] \in Profiles \cup {Null}
  BY DEF ListInv, Lists
<1>2. \A i \in DOMAIN networks.entry : networks.entry[i] \in Networks \cup {Null}
  BY DEF ListInv, Lists
<1> QED
  BY <1>1, <1>2 DEF Counted, ListInv

LEMMA EmptyListCounts ==
  ASSUME NEW c \in Nat, NEW S
  PROVE  EmptyList(c) \in Lists(c, S) /\ Counted(EmptyList(c)) = {}
BY DEF EmptyList, Lists, Counted

\* A list that is filled with entries counts them and no others.
LEMMA NewListCounts ==
  ASSUME NEW c \in Nat, NEW S, NEW l \in Lists(c, S), NEW es \in Seq(S), Len(es) <= c
  PROVE  /\ NewList(l, es) \in Lists(c, S)
         /\ Counted(NewList(l, es)) = {es[i] : i \in DOMAIN es}
<1> DEFINE m == NewList(l, es)
<1>1. DOMAIN l.entry = 1..c /\ \A i \in 1..c : l.entry[i] \in S \cup {Null}
  BY DEF Lists
<1>2. DOMAIN es = 1..Len(es) /\ Len(es) \in Nat /\ \A i \in 1..Len(es) : es[i] \in S
  OBVIOUS
<1>3. /\ m.nof = Len(es) /\ DOMAIN m.entry = 1..c
      /\ \A i \in 1..c : m.entry[i] = IF i \in 1..Len(es) THEN es[i] ELSE l.entry[i]
  BY <1>1, <1>2 DEF NewList
<1>4. m \in Lists(c, S)
  BY <1>1, <1>2 DEF NewList, Lists
<1>5. Counted(m) = {es[i] : i \in 1..Len(es)}
  <2>1. \A i \in 1..Len(es) : i \in 1..c /\ i <= Len(es)
    BY <1>2
  <2>2. \A i \in 1..c : i <= Len(es) => i \in 1..Len(es)
    BY <1>2
  <2> HIDE DEF m
  <2> QED
    BY <1>3, <2>1, <2>2 DEF Counted
<1> QED
  BY <1>2, <1>4, <1>5

\* A list that is cleaned counts null pointers only.
LEMMA CleanedCounts ==
  ASSUME NEW c \in Nat, NEW S, NEW l \in Lists(c, S)
  PROVE  Cleaned(l) \in Lists(c, S) /\ Counted(Cleaned(l)) \subseteq {Null}
BY DEF Cleaned, Lists, Counted

-----------------------------------------------------------------------------
(* The entries of an answer                                                *)

\* Masks that are read in the order of the titles are their own columns'.
LEMMA ReadTrue ==
  /\ \A f \in Masks : Read(GetOrder, MaskColumns.get)[f] = f
  /\ \A f \in Masks : Read(ListOrder, MaskColumns.list)[f] = f
  /\ DOMAIN Read(GetOrder, MaskColumns.get) = Masks
  /\ DOMAIN Read(ListOrder, MaskColumns.list) = Masks
<1>1. MaskColumns.get = GetOrder /\ MaskColumns.list = ListOrder
  BY DEF MaskColumns, GetOrder, ListOrder
<1>2. \A f \in Masks : \E i \in DOMAIN GetOrder : GetOrder[i] = f
  <2>1. /\ GetOrder[1] = "gsm_umts" /\ GetOrder[2] = "lte" /\ GetOrder[3] = "tds"
        /\ GetOrder[4] = "lte2" /\ GetOrder[5] = "lte3" /\ GetOrder[6] = "lte4"
        /\ DOMAIN GetOrder = 1..6
    BY DEF GetOrder
  <2> QED
    BY <2>1 DEF Masks
<1>3. \A f \in Masks : \E i \in DOMAIN ListOrder : ListOrder[i] = f
  <2>1. /\ ListOrder[1] = "gsm_umts" /\ ListOrder[2] = "lte" /\ ListOrder[3] = "lte2"
        /\ ListOrder[4] = "tds" /\ ListOrder[5] = "lte3" /\ ListOrder[6] = "lte4"
        /\ DOMAIN ListOrder = 1..6
    BY DEF ListOrder
  <2> QED
    BY <2>1 DEF Masks
<1> QED
  BY <1>1, <1>2, <1>3 DEF Read

\* The rows of a list's answer are a sequence.
LEMMA ProfileRowsTypes ==
  ASSUME MockInv, Len(answer) > 1 PROVE ProfileRows \in Seq(Lines)
<1> DEFINE headings == {i \in 2..Len(answer) : answer[i] = "heading"}
           h == CHOOSE i \in headings : \A j \in headings : i <= j
           last == IF headings = {} THEN Len(answer) ELSE h - 1
<1>1. answer \in Seq(Lines) /\ Len(answer) \in Nat /\ headings \in SUBSET Nat
  BY DEF MockInv
<1>2. headings # {} => h \in headings
  <2> HIDE DEF headings
  <2> QED
    BY <1>1, LeastExists
<1>3. last \in 1..Len(answer)
  BY <1>1, <1>2
<1> HIDE DEF last
<1>4. SubSeq(answer, 2, last) \in Seq(Lines)
  BY <1>1, <1>3
<1> QED
  BY <1>4 DEF ProfileRows, last

LEMMA ProfileEntriesTypes ==
  ASSUME MockInv, ListInv, Len(answer) > 1 PROVE ProfileEntries \in Seq(Profiles)
<1> DEFINE rows == ProfileRows
           masks(i) == IF rows[i] = "profile" THEN Read(ListOrder, MaskColumns.list)
                       ELSE [f \in Masks |-> "zero"]
<1>1. rows \in Seq(Lines)
  BY ProfileRowsTypes
<1> HIDE DEF rows
<1>2. DOMAIN rows = 1..Len(rows) /\ Len(rows) \in Nat
  BY <1>1
<1>3. \A i \in 1..Len(rows) : /\ masks(i) \in [Masks -> Masks \cup {"zero"}]
                             /\ \A f \in Masks : masks(i)[f] \in {f, "zero"}
  <2>1. Read(ListOrder, MaskColumns.list) = [f \in Masks |-> f]
    BY ReadTrue DEF Read
  <2> QED
    BY <2>1
<1> HIDE DEF masks
<1>4. \A i \in 1..Len(rows) : Entry("profile", i, masks(i)) \in Profiles
  BY <1>2, <1>3 DEF Entry, Entries, Profiles, ListInv
<1>5. ProfileEntries = [i \in 1..Len(rows) |-> Entry("profile", i, masks(i))]
  BY <1>2 DEF ProfileEntries, rows, masks
<1> QED
  BY <1>2, <1>4, <1>5

MarkSet == {"(", ")", "rest"}

LEMMA SearchedTypes == Searched \in Seq(MarkSet)
<1> DEFINE M == MarkSet
           rows == {i \in DOMAIN answer : answer[i] \in DOMAIN Marks}
           marks == IF rows = {} THEN <<>> ELSE Marks[answer[CHOOSE i \in rows : TRUE]]
           commas == {i \in DOMAIN marks : marks[i] = "rest"}
           c == CHOOSE i \in commas : \A j \in commas : i <= j
<1>1. \A l \in DOMAIN Marks : Marks[l] \in Seq(M)
  <2>1. /\ Marks.two \in Seq(M) /\ Marks.one \in Seq(M) /\ Marks.none \in Seq(M)
        /\ Marks.all \in Seq(M) /\ Marks.cut \in Seq(M)
    BY DEF Marks, MarkSet
  <2>2. DOMAIN Marks = {"two", "one", "none", "all", "cut"}
    BY DEF Marks
  <2> QED
    BY <2>1, <2>2
<1>2. marks \in Seq(M)
  <2>1. rows # {} => (CHOOSE i \in rows : TRUE) \in rows
    OBVIOUS
  <2>2. rows # {} => marks \in Seq(M)
    BY <1>1, <2>1
  <2>3. <<>> \in Seq(M)
    OBVIOUS
  <2> QED
    BY <2>2, <2>3
<1> HIDE DEF marks
<1>3. commas \in SUBSET Nat /\ commas \subseteq 1..Len(marks)
  <2>1. commas \subseteq DOMAIN marks
    BY Zenon
  <2> HIDE DEF commas
  <2>2. DOMAIN marks = 1..Len(marks) /\ Len(marks) \in Nat
    BY <1>2
  <2> QED
    BY <2>1, <2>2
<1>4. commas # {} => c \in commas
  <2> HIDE DEF commas
  <2> QED
    BY <1>3, LeastExists
<1>5. commas # {} => SubSeq(marks, 1, c - 1) \in Seq(M)
  <2> HIDE DEF c, commas
  <2> SUFFICES ASSUME commas # {} PROVE SubSeq(marks, 1, c - 1) \in Seq(M)
    OBVIOUS
  <2>1. c \in 1..Len(marks)
    BY <1>3, <1>4, Zenon
  <2>2. Len(marks) \in Nat
    BY <1>2
  <2>3. c - 1 \in 0..Len(marks)
    BY <2>1, <2>2
  <2> QED
    BY <1>2, <2>3
<1> QED
  BY <1>2, <1>5 DEF Searched, marks

LEMMA NofNetworksTypes == NofNetworks(Searched) \in Nat
<1> DEFINE found == {j \in DOMAIN Searched : Searched[j] = ")" /\
             \E i \in 1..j : Searched[i] = "(" /\ \A k \in i..(j - 1) : Searched[k] # ")"}
<1>1. Len(Searched) \in Nat /\ DOMAIN Searched = 1..Len(Searched)
  BY SearchedTypes
<1>2. IsFiniteSet(1..Len(Searched))
  BY <1>1, FS_Interval
<1>3. found \in SUBSET (1..Len(Searched))
  BY <1>1
<1>4. Cardinality(found) \in Nat
  <2> HIDE DEF found
  <2> QED
    BY <1>2, <1>3, FS_Subset, FS_CardinalityType
<1> QED
  BY <1>4 DEF NofNetworks

LEMMA NetworkEntriesTypes == ASSUME ListInv PROVE NetworkEntries \in Seq(Networks)
<1>1. \A i \in Nat : Entry("network", i, Null) \in Networks
  BY DEF Entry, Entries, Networks, ListInv
<1> QED
  BY <1>1, NofNetworksTypes DEF NetworkEntries

-----------------------------------------------------------------------------
(* The steps                                                               *)

\* Old entries of one list are freed, and new ones are counted instead.
LEMMA Refilled ==
  ASSUME IInv, NEW old, NEW new,
         \/ /\ old = Counted(profiles) \ {Null} /\ new \subseteq Profiles
            /\ new \subseteq Counted(profiles') /\ Counted(profiles') \subseteq new \cup {Null}
            /\ UNCHANGED networks
         \/ /\ old = Counted(networks) \ {Null} /\ new \subseteq Networks
            /\ Counted(networks') = new
            /\ UNCHANGED profiles,
         heap' = (heap \ old) \cup new,
         misused' = (misused \/ ~(old \subseteq heap))
  PROVE  EntriesOwned'
<1>1. /\ Counted(profiles) \subseteq Profiles \cup {Null} /\ Counted(networks) \subseteq Networks
      /\ Null \notin Counted(networks)
  BY CountedTypes DEF IInv, ListInv
<1>2. heap = (Counted(profiles) \cup Counted(networks)) \ {Null} /\ ~misused
  BY DEF IInv, EntriesOwned
<1>3. ~misused'
  <2>1. old \subseteq heap
    BY <1>2
  <2> QED
    BY <1>2, <2>1, Zenon
<1>4. CASE /\ old = Counted(profiles) \ {Null} /\ new \subseteq Profiles
           /\ new \subseteq Counted(profiles') /\ Counted(profiles') \subseteq new \cup {Null}
           /\ UNCHANGED networks
  <2>1. Counted(networks') = Counted(networks)
    BY <1>4
  <2>2. heap' = (Counted(profiles') \cup Counted(networks')) \ {Null}
    BY <1>1, <1>2, <1>4, <2>1, Apart
  <2> QED
    BY <1>3, <2>2 DEF EntriesOwned, Counted
<1>5. CASE /\ old = Counted(networks) \ {Null} /\ new \subseteq Networks
           /\ Counted(networks') = new
           /\ UNCHANGED profiles
  <2>1. Counted(profiles') = Counted(profiles)
    BY <1>5
  <2>2. heap' = (Counted(profiles') \cup Counted(networks')) \ {Null}
    BY <1>1, <1>2, <1>5, <2>1, Apart
  <2> QED
    BY <1>3, <2>2 DEF EntriesOwned, Counted
<1> QED
  BY <1>4, <1>5

LEMMA ListsUnchanged ==
  ASSUME IInv, UNCHANGED lists, MockInv', calls' \in Nat,
         pc' \in {"idle", "called", "crashed"}, pc' = "called" => ~short'
  PROVE  IInv'
BY DEF IInv, ListInv, EntriesOwned, Counted, lists

LEMMA MockUnchanged == ASSUME MockInv, UNCHANGED mock PROVE MockInv'
BY DEF MockInv, mock, Recorded

LEMMA StartPreserves == ASSUME IInv, Call \/ Answer PROVE IInv'
<1>1. MockInv'
  BY CommandPreserves, MockStepPreserves DEF Call, Answer, IInv
<1>2. /\ UNCHANGED lists /\ calls' \in Nat /\ pc' \in {"idle", "called", "crashed"}
      /\ pc' = "called" => ~short'
  BY DEF Call, Answer, IInv, ListInv
<1> QED
  BY <1>1, <1>2, ListsUnchanged

LEMMA CrashPreserves == ASSUME IInv, Crash PROVE IInv'
<1>1. UNCHANGED lists /\ UNCHANGED mock /\ UNCHANGED calls /\ pc' = "crashed"
  BY DEF Crash
<1> QED
  BY <1>1, MockUnchanged, ListsUnchanged DEF IInv, ListInv

LEMMA GetProfilePreserves == ASSUME IInv, GetProfile PROVE IInv'
<1>1. /\ UNCHANGED <<mock, calls, profiles, networks, heap, misused>> /\ pc' = "idle"
      /\ \/ profile' = Read(GetOrder, MaskColumns.get)
         \/ profile' = [f \in Masks |-> "zero"]
         \/ profile' = profile
  BY DEF GetProfile, Return
<1>2. Read(GetOrder, MaskColumns.get) = [f \in Masks |-> f]
  BY ReadTrue DEF Read
<1>3. /\ profile' \in [Masks -> Masks \cup {"zero", "unset"}]
      /\ \A f \in Masks : profile'[f] \in {f, "zero", "unset"}
  BY <1>1, <1>2 DEF IInv, ListInv
<1> QED
  BY <1>1, <1>3, MockUnchanged DEF IInv, ListInv, EntriesOwned, Counted

LEMMA GetProfileListPreserves == ASSUME IInv, GetProfileList PROVE IInv'
<1> DEFINE old == Counted(profiles) \ {Null}
           es == IF Len(answer) > 1 THEN ProfileEntries ELSE <<>>
           new == {es[i] : i \in DOMAIN es}
<1>1. \/ Crash
      \/ /\ ~(Len(es) > ProfileCapacity)
         /\ heap' = (heap \ old) \cup new
         /\ misused' = (misused \/ ~(old \subseteq heap))
         /\ profiles' = IF Len(answer) > 1 THEN NewList(Cleaned(profiles), es)
                        ELSE Cleaned(profiles)
         /\ UNCHANGED <<mock, calls, profile, networks>> /\ pc' = "idle"
  BY DEF GetProfileList, Return
<1>2. CASE Crash
  BY <1>2, CrashPreserves
<1>3. CASE ~Crash
  <2>1. es \in Seq(Profiles)
    <3>1. Len(answer) > 1 => ProfileEntries \in Seq(Profiles)
      BY ProfileEntriesTypes DEF IInv
    <3>2. <<>> \in Seq(Profiles)
      OBVIOUS
    <3> QED
      BY <3>1, <3>2
  <2>2. Len(answer) > 1 \/ (es = <<>> /\ new = {})
    OBVIOUS
  <2> HIDE DEF es
  <2>3. Len(es) <= ProfileCapacity /\ new \subseteq Profiles
    BY <1>1, <1>3, <2>1, Capacities
  <2>4. /\ Cleaned(profiles) \in Lists(ProfileCapacity, Profiles)
        /\ Counted(Cleaned(profiles)) \subseteq {Null}
    BY Capacities, CleanedCounts DEF IInv, ListInv
  <2>5. /\ profiles' \in Lists(ProfileCapacity, Profiles)
        /\ new \subseteq Counted(profiles') /\ Counted(profiles') \subseteq new \cup {Null}
    <3>1. CASE Len(answer) > 1
      BY <1>1, <1>3, <2>1, <2>3, <2>4, <3>1, Capacities, NewListCounts
    <3>2. CASE ~(Len(answer) > 1)
      BY <1>1, <1>3, <2>2, <2>4, <3>2
    <3> QED
      BY <3>1, <3>2
  <2> HIDE DEF old, new
  <2>6. EntriesOwned'
    BY <1>1, <1>3, <2>3, <2>5, Refilled DEF old
  <2>7. MockInv'
    BY <1>1, <1>3, MockUnchanged DEF IInv
  <2> QED
    BY <1>1, <1>3, <2>5, <2>6, <2>7 DEF IInv, ListInv, Counted
<1> QED
  BY <1>2, <1>3

LEMMA NetworkSearchPreserves == ASSUME IInv, NetworkSearch PROVE IInv'
<1> DEFINE new == {NetworkEntries[i] : i \in DOMAIN NetworkEntries}
<1>1. \/ Crash
      \/ /\ ~(NofNetworks(Searched) > NetworkCapacity)
         /\ heap' = (heap \ Counted(networks)) \cup new
         /\ misused' = (misused \/ ~(Counted(networks) \subseteq heap))
         /\ networks' = NewList(networks, NetworkEntries)
         /\ UNCHANGED <<mock, calls, profile, profiles>> /\ pc' = "idle"
  BY DEF NetworkSearch, Return
<1>2. CASE Crash
  BY <1>2, CrashPreserves
<1>3. CASE ~Crash
  <2>1. NetworkEntries \in Seq(Networks)
    BY NetworkEntriesTypes DEF IInv
  <2>2. Len(NetworkEntries) = NofNetworks(Searched)
    BY NofNetworksTypes DEF NetworkEntries
  <2>3. Len(NetworkEntries) <= NetworkCapacity /\ new \subseteq Networks
    BY <1>1, <1>3, <2>1, <2>2, Capacities
  <2>4. networks' \in Lists(NetworkCapacity, Networks) /\ Counted(networks') = new
    BY <1>1, <1>3, <2>1, <2>3, Capacities, NewListCounts DEF IInv, ListInv
  <2>5. Counted(networks) = Counted(networks) \ {Null}
    BY DEF IInv, ListInv
  <2> HIDE DEF new
  <2>6. EntriesOwned'
    BY <1>1, <1>3, <2>3, <2>4, <2>5, Refilled
  <2>7. MockInv' /\ Null \notin Counted(networks')
    BY <1>1, <1>3, <2>3, <2>4, Apart, MockUnchanged DEF IInv
  <2> QED
    BY <1>1, <1>3, <2>4, <2>6, <2>7 DEF IInv, ListInv, Counted
<1> QED
  BY <1>2, <1>3

LEMMA NoMemoryForRowsPreserves == ASSUME IInv, NoMemoryForRows PROVE IInv'
<1>1. UNCHANGED <<mock, calls, profile, networks>> /\ pc' = "idle"
  BY DEF NoMemoryForRows
<1>2. MockInv'
  BY <1>1, MockUnchanged DEF IInv
<1>3. CASE asked = "at!band=?"
  <2>1. /\ heap' = heap \ Counted(profiles)
        /\ misused' = (misused \/ ~(Counted(profiles) \ {Null} \subseteq heap))
        /\ profiles' = Cleaned(profiles)
    BY <1>3 DEF NoMemoryForRows
  <2>2. /\ profiles' \in Lists(ProfileCapacity, Profiles)
        /\ Counted(profiles') \subseteq {Null}
    BY <2>1, Capacities, CleanedCounts DEF IInv, ListInv
  <2>3. heap' = (heap \ (Counted(profiles) \ {Null})) \cup {}
    BY <2>1 DEF IInv, EntriesOwned
  <2>4. EntriesOwned'
    BY <1>1, <2>1, <2>2, <2>3, Refilled
  <2> QED
    BY <1>1, <1>2, <2>2, <2>4 DEF IInv, ListInv, Counted
<1>4. CASE asked # "at!band=?"
  <2>1. UNCHANGED <<heap, misused, profiles>>
    BY <1>4 DEF NoMemoryForRows
  <2> QED
    BY <1>1, <1>2, <2>1, ListsUnchanged DEF lists, IInv, ListInv
<1> QED
  BY <1>3, <1>4

LEMMA FreePreserves == ASSUME IInv, FreeProfileList \/ FreeNetworkList PROVE IInv'
<1>1. UNCHANGED <<mock, pc, calls, profile, short>>
  BY DEF FreeProfileList, FreeNetworkList
<1>2. MockInv'
  BY <1>1, MockUnchanged DEF IInv
<1>3. CASE FreeProfileList
  <2>1. /\ heap' = heap \ Counted(profiles)
        /\ misused' = (misused \/ ~(Counted(profiles) \ {Null} \subseteq heap))
        /\ profiles' = EmptyList(ProfileCapacity) /\ UNCHANGED networks
    BY <1>3 DEF FreeProfileList
  <2>2. profiles' \in Lists(ProfileCapacity, Profiles) /\ Counted(profiles') = {}
    BY <2>1, Capacities, EmptyListCounts
  <2>3. heap' = (heap \ (Counted(profiles) \ {Null})) \cup {}
    BY <2>1 DEF IInv, EntriesOwned
  <2>4. EntriesOwned'
    BY <2>1, <2>2, <2>3, Refilled
  <2> QED
    BY <1>1, <1>2, <2>1, <2>2, <2>4 DEF IInv, ListInv, Counted
<1>4. CASE FreeNetworkList
  <2>1. /\ heap' = heap \ Counted(networks)
        /\ misused' = (misused \/ ~(Counted(networks) \subseteq heap))
        /\ networks' = EmptyList(NetworkCapacity) /\ UNCHANGED profiles
    BY <1>4 DEF FreeNetworkList
  <2>2. networks' \in Lists(NetworkCapacity, Networks) /\ Counted(networks') = {}
    BY <2>1, Capacities, EmptyListCounts
  <2>3. Counted(networks) = Counted(networks) \ {Null}
    BY DEF IInv, ListInv
  <2>4. heap' = (heap \ (Counted(networks) \ {Null})) \cup {}
    BY <2>1, <2>3
  <2>5. EntriesOwned'
    BY <2>1, <2>2, <2>3, <2>4, Refilled
  <2> QED
    BY <1>1, <1>2, <2>1, <2>2, <2>5 DEF IInv, ListInv, Counted
<1> QED
  BY <1>3, <1>4

LEMMA InitEstablishes == Init => IInv
<1> SUFFICES ASSUME Init PROVE IInv
  OBVIOUS
<1>1. ListInv
  <2>1. /\ profiles \in Lists(ProfileCapacity, Profiles)
        /\ networks \in Lists(NetworkCapacity, Networks) /\ Counted(networks) = {}
    BY Capacities, EmptyListCounts DEF Init
  <2> QED
    BY <2>1 DEF Init, ListInv
<1>2. EntriesOwned
  <2>1. Counted(profiles) = {} /\ Counted(networks) = {}
    BY Capacities, EmptyListCounts DEF Init
  <2>2. heap = {} /\ misused = FALSE
    BY DEF Init
  <2> QED
    BY <2>1, <2>2 DEF EntriesOwned
<1> QED
  BY <1>1, <1>2, MockInitiated DEF IInv

LEMMA NextPreserves == IInv /\ [Next]_vars => IInv'
<1> SUFFICES ASSUME IInv, [Next]_vars PROVE IInv'
  OBVIOUS
<1>1. CASE UNCHANGED vars
  <2>1. UNCHANGED lists /\ UNCHANGED mock /\ UNCHANGED <<calls, pc, short>>
    BY <1>1 DEF vars
  <2> QED
    BY <2>1, MockUnchanged, ListsUnchanged DEF IInv, ListInv
<1>2. CASE UseNoResponse \/ NoMemoryForEntry
  BY <1>2, CrashPreserves DEF UseNoResponse, NoMemoryForEntry
<1> QED
  BY <1>1, <1>2, StartPreserves, GetProfilePreserves, GetProfileListPreserves,
     NetworkSearchPreserves, NoMemoryForRowsPreserves, FreePreserves DEF Next

-----------------------------------------------------------------------------
(* The theorems                                                            *)

LEMMA Invariance == Spec => []IInv
BY InitEstablishes, NextPreserves, PTL DEF Spec

\* However the lists are filled, emptied and freed, and whatever the answers:
\* nothing is freed twice and nothing is lost.
THEOREM EntriesCorrect == Spec => []EntriesOwned
<1>1. IInv => EntriesOwned
  BY DEF IInv
<1> QED
  BY <1>1, Invariance, PTL

\* No mask is ever another column's, in any list or profile.
THEOREM MasksCorrect == Spec => []MasksUnderTheirTitle
<1>1. IInv => MasksUnderTheirTitle
  <2> SUFFICES ASSUME IInv PROVE MasksUnderTheirTitle
    OBVIOUS
  <2>1. \A f \in Masks : profile[f] \in {f, "zero", "unset"}
    BY DEF IInv, ListInv
  <2>2. heap \subseteq Profiles \cup Networks
    BY CountedTypes DEF IInv, EntriesOwned
  <2>3. \A e \in Networks : e.kind # "profile"
    BY DEF Networks
  <2> QED
    BY <2>1, <2>2, <2>3 DEF MasksUnderTheirTitle, Profiles
<1> QED
  BY <1>1, Invariance, PTL

\* With a result code, the lines read last are the command and its answer, in
\* any file and after any commands that the file does not have.
THEOREM MockAnswersFromScript == Spec => []AnswersFromScript
<1>1. IInv => AnswersFromScript
  <2> SUFFICES ASSUME MockInv, status \in {"SUCCESS", "FAILED"}
               PROVE  /\ position > Len(answer)
                      /\ SubSeq(script, position - Len(answer), position) = <<asked>> \o answer
    BY DEF IInv, AnswersFromScript
  <2> DEFINE n == Len(answer)
             a == SubSeq(script, position - n, position)
             b == <<asked>> \o answer
  <2>1. /\ Recorded /\ n \in Nat /\ position \in Nat /\ position <= Len(script)
        /\ answer \in Seq(Lines) /\ script \in Seq(Lines)
    BY DEF MockInv
  <2>2. position > n /\ position - n \in 1..Len(script)
    BY <2>1 DEF Recorded
  <2>3. asked \in Lines
    BY <2>1, <2>2 DEF Recorded
  <2>4. /\ a \in Seq(Lines) /\ Len(a) = n + 1
        /\ \A i \in 1..(n + 1) : a[i] = script[position - n + i - 1]
    BY <2>1, <2>2
  <2>5. /\ b \in Seq(Lines) /\ Len(b) = n + 1 /\ b[1] = asked
        /\ \A i \in 2..(n + 1) : b[i] = answer[i - 1]
    BY <2>1, <2>3
  <2> HIDE DEF a, b
  <2>6. \A i \in 1..(n + 1) : a[i] = b[i]
    <3> SUFFICES ASSUME NEW i \in 1..(n + 1) PROVE a[i] = b[i]
      OBVIOUS
    <3>1. CASE i = 1
      <4>1. position - n + i - 1 = position - n
        BY <2>1, <3>1
      <4> QED
        BY <2>1, <2>4, <2>5, <3>1, <4>1 DEF Recorded
    <3>2. CASE i # 1
      <4>1. i - 1 \in 1..n /\ position - n + i - 1 = position - n + (i - 1) /\ i \in 2..(n + 1)
        BY <2>1, <3>2
      <4> QED
        BY <2>1, <2>4, <2>5, <4>1 DEF Recorded
    <3> QED
      BY <3>1, <3>2
  <2>7. a = b
    BY <2>4, <2>5, <2>6, SeqEqual
  <2> QED
    BY <2>2, <2>7 DEF a, b
<1> QED
  BY <1>1, Invariance, PTL

-----------------------------------------------------------------------------
(* The lists are those of the answer                                       *)

\* An answer in order becomes as many entries as it has profiles, and one more
\* if no heading ends them.
LEMMA ProfilesCounted ==
  ASSUME MockInv, status = "SUCCESS", Len(answer) > 1, ProfilesInOrder
  PROVE  Len(ProfileRows) = NofProfilesSaid + IF Says("heading") THEN 0 ELSE 1
<1> DEFINE n == Len(answer)
           headings == {i \in 2..n : answer[i] = "heading"}
           h == CHOOSE i \in headings : \A j \in headings : i <= j
           last == IF headings = {} THEN n ELSE h - 1
           said == {i \in DOMAIN answer : answer[i] = "profile"}
<1>1. /\ answer \in Seq(Lines) /\ n \in Nat /\ n > 1 /\ DOMAIN answer = 1..n
      /\ answer[n] = "OK" /\ answer[1] = "title"
  BY DEF MockInv, ProfilesInOrder
<1>2. headings # {} => h \in headings /\ \A j \in headings : h <= j
  <2>1. headings \in SUBSET Nat
    BY <1>1
  <2> HIDE DEF headings
  <2> QED
    BY <2>1, LeastExists
<1>3. ProfileRows = SubSeq(answer, 2, last)
  BY DEF ProfileRows
<1>4. Says("heading") <=> headings # {}
  BY <1>1 DEF Says
<1> HIDE DEF h
<1>5. CASE headings # {}
  <2>1. /\ h \in 2..(n - 1) /\ answer[h] = "heading"
        /\ \A j \in 2..n : j < h => answer[j] # "heading"
    <3>1. h \in 2..n /\ answer[h] = "heading" /\ h # n
      BY <1>1, <1>2, <1>5
    <3>2. \A j \in 2..n : j < h => answer[j] # "heading"
      <4> SUFFICES ASSUME NEW j \in 2..n, j < h, answer[j] = "heading" PROVE FALSE
        OBVIOUS
      <4>1. j \in headings /\ h <= j
        BY <1>2, <1>5
      <4>2. n \in Nat
        BY <1>1
      <4> HIDE DEF headings, n
      <4> QED
        BY <3>1, <4>1, <4>2
    <3>3. h \in 2..(n - 1)
      <4>1. n \in Nat
        BY <1>1
      <4> HIDE DEF headings, n
      <4> QED
        BY <3>1, <4>1
    <3> QED
      BY <3>1, <3>2, <3>3
  <2>2. said = 2..(h - 1)
    BY <1>1, <2>1 DEF ProfilesInOrder
  <2>3. Cardinality(2..(h - 1)) = h - 2
    <3>1. 2 \in Int /\ h - 1 \in Int
      BY <1>1, <2>1
    <3>2. Cardinality(2..(h - 1)) = IF 2 > h - 1 THEN 0 ELSE h - 1 - 2 + 1
      BY <3>1, FS_Interval
    <3> QED
      BY <1>1, <2>1, <3>2
  <2>4. Len(SubSeq(answer, 2, h - 1)) = h - 2
    BY <1>1, <2>1
  <2>5. NofProfilesSaid = h - 2
    BY <2>2, <2>3 DEF NofProfilesSaid
  <2> QED
    BY <1>1, <1>3, <1>4, <1>5, <2>1, <2>4, <2>5
<1>6. CASE headings = {}
  <2>1. \A j \in 2..n : answer[j] # "heading"
    BY <1>6
  <2>2. said = 2..(n - 1)
    BY <1>1, <2>1 DEF ProfilesInOrder
  <2>3. Cardinality(2..(n - 1)) = n - 2
    <3>1. 2 \in Int /\ n - 1 \in Int
      BY <1>1
    <3>2. Cardinality(2..(n - 1)) = IF 2 > n - 1 THEN 0 ELSE n - 1 - 2 + 1
      BY <3>1, FS_Interval
    <3> QED
      BY <1>1, <3>2
  <2>4. Len(SubSeq(answer, 2, n)) = n - 1
    BY <1>1
  <2>5. NofProfilesSaid = n - 2
    BY <2>2, <2>3 DEF NofProfilesSaid
  <2> QED
    BY <1>1, <1>3, <1>4, <1>6, <2>4, <2>5
<1> QED
  BY <1>5, <1>6

\* Networks that stand one behind the other are counted.
LEMMA PairsCounted ==
  ASSUME NEW n \in Nat, NEW m \in Seq(MarkSet), Len(m) = 2 * n,
         \A i \in 1..n : m[2 * i - 1] = "(" /\ m[2 * i] = ")"
  PROVE  NofNetworks(m) = n
<1> DEFINE T == {j \in DOMAIN m : m[j] = ")" /\
                   \E i \in 1..j : m[i] = "(" /\ \A k \in i..(j - 1) : m[k] # ")"}
           f == [i \in 1..n |-> 2 * i]
<1>1. DOMAIN m = 1..(2 * n)
  OBVIOUS
<1>2. \A i \in 1..n : 2 * i \in T
  <2> TAKE i \in 1..n
  <2>1. 2 * i - 1 \in 1..(2 * i) /\ 2 * i \in 1..(2 * n)
    OBVIOUS
  <2>2. \A k \in (2 * i - 1)..(2 * i - 1) : k = 2 * i - 1
    OBVIOUS
  <2>3. m[2 * i - 1] = "(" /\ \A k \in (2 * i - 1)..(2 * i - 1) : m[k] # ")"
    BY <2>2
  <2> QED
    BY <1>1, <2>1, <2>3
<1>3. \A j \in T : \E i \in 1..n : j = 2 * i
  <2> SUFFICES ASSUME NEW j \in 1..(2 * n), m[j] = ")" PROVE \E i \in 1..n : j = 2 * i
    BY <1>1
  <2>1. \A i \in 1..n : j # 2 * i - 1
    OBVIOUS
  <2>2. PICK i \in 1..n : j = 2 * i - 1 \/ j = 2 * i
    <3>1. (j + 1) \div 2 \in 1..n /\ (j = 2 * ((j + 1) \div 2) - 1 \/ j = 2 * ((j + 1) \div 2))
      OBVIOUS
    <3> QED
      BY <3>1
  <2> QED
    BY <2>1, <2>2
<1> HIDE DEF T
<1>4. f \in [1..n -> T] /\ (\A t \in T : \E i \in 1..n : f[i] = t)
      /\ \A i, j \in 1..n : f[i] = f[j] => i = j
  BY <1>2, <1>3
<1>5. f \in Bijection(1..n, T)
  BY <1>4, Zenon DEF Bijection, Injection, Surjection, IsInjective
<1>6. Cardinality(T) = n
  BY <1>5, FS_CountingElements, Zenon DEF ExistsBijection
<1> QED
  BY <1>6 DEF NofNetworks, T

\* A row that has n networks before its end, or before the rest.
Row(m, n) ==
  /\ m \in Seq(MarkSet) /\ 2 * n <= Len(m)
  /\ \A i \in 1..n : m[2 * i - 1] = "(" /\ m[2 * i] = ")"
  /\ Len(m) = 2 * n \/ m[2 * n + 1] = "rest"

LEMMA MarksRows ==
  Row(Marks.two, 2) /\ Row(Marks.one, 1) /\ Row(Marks.none, 0) /\ Row(Marks.all, 3)
<1>1. Row(Marks.two, 2)
  <2>1. Marks.two = <<"(", ")", "(", ")", "rest", "(", ")">>
    BY DEF Marks
  <2>2. Marks.two \in Seq(MarkSet) /\ Len(Marks.two) = 7
    BY <2>1 DEF MarkSet
  <2>3. \A i \in 1..2 : Marks.two[2 * i - 1] = "(" /\ Marks.two[2 * i] = ")"
    BY <2>1
  <2> QED
    BY <2>1, <2>2, <2>3 DEF Row
<1>2. Row(Marks.one, 1)
  <2>1. Marks.one = <<"(", ")", "rest", "(", ")">>
    BY DEF Marks
  <2>2. Marks.one \in Seq(MarkSet) /\ Len(Marks.one) = 5
    BY <2>1 DEF MarkSet
  <2>3. \A i \in 1..1 : Marks.one[2 * i - 1] = "(" /\ Marks.one[2 * i] = ")"
    BY <2>1
  <2> QED
    BY <2>1, <2>2, <2>3 DEF Row
<1>3. Row(Marks.none, 0)
  <2>1. Marks.none = <<"rest", "(", ")">>
    BY DEF Marks
  <2>2. Marks.none \in Seq(MarkSet) /\ Len(Marks.none) = 3
    BY <2>1 DEF MarkSet
  <2> QED
    BY <2>1, <2>2 DEF Row
<1>4. Row(Marks.all, 3)
  <2>1. Marks.all = <<"(", ")", "(", ")", "(", ")">>
    BY DEF Marks
  <2>2. Marks.all \in Seq(MarkSet) /\ Len(Marks.all) = 6
    BY <2>1 DEF MarkSet
  <2>3. \A i \in 1..3 : Marks.all[2 * i - 1] = "(" /\ Marks.all[2 * i] = ")"
    BY <2>1
  <2> QED
    BY <2>1, <2>2, <2>3 DEF Row
<1> QED
  BY <1>1, <1>2, <1>3, <1>4

\* What comes before the rest.
Before(m) ==
  LET commas == {i \in DOMAIN m : m[i] = "rest"}
  IN IF commas = {} THEN m ELSE SubSeq(m, 1, (CHOOSE i \in commas : \A j \in commas : i <= j) - 1)

LEMMA RowCounted ==
  ASSUME NEW n \in Nat, NEW m, Row(m, n)
  PROVE  NofNetworks(Before(m)) = n
<1> DEFINE commas == {i \in DOMAIN m : m[i] = "rest"}
           c == CHOOSE i \in commas : \A j \in commas : i <= j
<1>1. m \in Seq(MarkSet) /\ Len(m) \in Nat /\ 2 * n <= Len(m) /\ DOMAIN m = 1..Len(m)
  BY DEF Row
<1>2. \A i \in 1..(2 * n) : m[i] # "rest"
  <2> SUFFICES ASSUME NEW i \in 1..(2 * n) PROVE m[i] # "rest"
    OBVIOUS
  <2>1. \/ (i + 1) \div 2 \in 1..n /\ i = 2 * ((i + 1) \div 2) - 1
        \/ (i + 1) \div 2 \in 1..n /\ i = 2 * ((i + 1) \div 2)
    OBVIOUS
  <2>2. PICK k \in 1..n : i = 2 * k - 1 \/ i = 2 * k
    BY <2>1
  <2> QED
    BY <2>2 DEF Row
<1>3. commas \in SUBSET Nat /\ commas \subseteq (2 * n + 1)..Len(m)
  BY <1>1, <1>2
<1>4. Len(m) # 2 * n => 2 * n + 1 \in commas
  <2>1. \A l \in Nat : 2 * n <= l /\ l # 2 * n => 2 * n + 1 \in 1..l
    OBVIOUS
  <2> QED
    BY <1>1, <2>1 DEF Row
<1>5. CASE commas = {}
  <2>1. Len(m) = 2 * n
    BY <1>5, <1>4
  <2>2. Before(m) = m
    BY <1>5 DEF Before
  <2> QED
    BY <1>1, <2>1, <2>2, PairsCounted DEF Row
<1>6. CASE commas # {}
  <2>1. c \in commas /\ \A j \in commas : c <= j
    <3> HIDE DEF commas
    <3> QED
      BY <1>3, <1>6, LeastExists
  <2>2. Before(m) = SubSeq(m, 1, c - 1)
    BY <1>6 DEF Before
  <2>3. Len(m) # 2 * n
    BY <1>3, <1>6
  <2>4. 2 * n + 1 \in commas
    BY <1>4, <2>3
  <2> HIDE DEF commas, c
  <2>5. c = 2 * n + 1
    BY <1>1, <1>3, <2>1, <2>4
  <2>6. /\ Before(m) \in Seq(MarkSet) /\ Len(Before(m)) = 2 * n
        /\ \A i \in 1..(2 * n) : Before(m)[i] = m[i]
    BY <1>1, <2>2, <2>5
  <2>7. \A i \in 1..n : 2 * i - 1 \in 1..(2 * n) /\ 2 * i \in 1..(2 * n)
    OBVIOUS
  <2> QED
    BY <2>6, <2>7, PairsCounted DEF Row
<1> QED
  BY <1>5, <1>6

\* The networks of an answer in order are those in the row that it has, if no
\* parenthesis is left open.
LEMMA NetworksCounted ==
  ASSUME NetworksInOrder, ~Unclosed(Searched)
  PROVE  NofNetworks(Searched) = NofNetworksSaid
<1> DEFINE rows == {i \in DOMAIN answer : answer[i] \in DOMAIN Marks}
           k == CHOOSE i \in rows : TRUE
<1>1. DOMAIN Marks = {"two", "one", "none", "all", "cut"}
  BY DEF Marks
<1>2. Searched = Before(IF rows = {} THEN <<>> ELSE Marks[answer[k]])
  BY DEF Searched, Before
<1>3. \A l \in DOMAIN Marks : Says(l) <=> rows # {} /\ answer[k] = l
  <2>1. \A i, j \in rows : i = j
    BY DEF NetworksInOrder
  <2>2. rows # {} => k \in rows
    OBVIOUS
  <2>3. \A l \in DOMAIN Marks, i \in DOMAIN answer : answer[i] = l => i \in rows
    OBVIOUS
  <2> QED
    BY <2>1, <2>2, <2>3, Zenon DEF Says
<1>4. CASE rows = {}
  <2>1. Row(<<>>, 0)
    BY DEF Row
  <2>2. NofNetworks(Searched) = 0
    BY <1>2, <1>4, <2>1, RowCounted
  <2> QED
    BY <1>1, <1>3, <1>4, <2>2 DEF NofNetworksSaid
<1>5. CASE rows # {}
  <2>1. answer[k] \in DOMAIN Marks /\ Searched = Before(Marks[answer[k]])
    BY <1>2, <1>5
  <2>2. \A l \in DOMAIN Marks : Says(l) <=> answer[k] = l
    BY <1>3, <1>5
  <2> HIDE DEF k, rows
  <2>3. answer[k] # "cut"
    <3> SUFFICES ASSUME answer[k] = "cut" PROVE FALSE
      OBVIOUS
    <3>1. Marks.cut = <<"(", ")", "(">>
      BY DEF Marks
    <3>2. Before(Marks.cut) = Marks.cut
      BY <3>1 DEF Before
    <3>3. Searched = <<"(", ")", "(">>
      BY <2>1, <3>1, <3>2
    <3>4. Searched[3] = "(" /\ DOMAIN Searched = 1..3 /\ Len(Searched) = 3
      BY <3>3
    <3>5. Unclosed(Searched)
      BY <3>4 DEF Unclosed
    <3> QED
      BY <3>5
  <2>4. /\ answer[k] = "two" => NofNetworks(Searched) = 2
        /\ answer[k] = "one" => NofNetworks(Searched) = 1
        /\ answer[k] = "none" => NofNetworks(Searched) = 0
        /\ answer[k] = "all" => NofNetworks(Searched) = 3
    BY <2>1, MarksRows, RowCounted
  <2> QED
    BY <1>1, <2>1, <2>2, <2>3, <2>4 DEF NofNetworksSaid
<1> QED
  BY <1>4, <1>5

\* A call that fills a list of profiles fills it with those of its answer.
LEMMA ProfileListTells ==
  ASSUME IInv, GetProfileList, status = "SUCCESS", Len(answer) > 1, ProfilesInOrder,
         pc' = "idle"
  PROVE  /\ profiles'.nof = NofProfilesSaid + IF Says("heading") THEN 0 ELSE 1
         /\ \A e \in Counted(profiles') : e \in heap' /\ e.call = calls
<1> DEFINE es == ProfileEntries
<1>1. /\ Len(answer) > 1
      /\ Len(ProfileRows) = NofProfilesSaid + IF Says("heading") THEN 0 ELSE 1
  BY ProfilesCounted DEF IInv
<1>2. /\ Len(es) <= ProfileCapacity
      /\ \A i \in DOMAIN es : es[i] \in heap'
      /\ profiles' = NewList(Cleaned(profiles), es)
  <2>1. ProfileEntries \in Seq(Profiles) /\ pc' # "crashed"
    BY <1>1, ProfileEntriesTypes DEF IInv
  <2>2. /\ ~(Len(ProfileEntries) > ProfileCapacity)
        /\ heap' = (heap \ (Counted(profiles) \ {Null}))
                     \cup {ProfileEntries[i] : i \in DOMAIN ProfileEntries}
        /\ profiles' = NewList(Cleaned(profiles), ProfileEntries)
    BY <1>1, <2>1 DEF GetProfileList, Crash
  <2> QED
    BY <2>1, <2>2, Capacities
<1>3. es \in Seq(Profiles) /\ DOMAIN es = DOMAIN ProfileRows /\ Len(es) = Len(ProfileRows)
      /\ \A i \in DOMAIN es : es[i].call = calls
  <2>1. ProfileRows \in Seq(Lines)
    BY <1>1, ProfileRowsTypes DEF IInv
  <2>2. es \in Seq(Profiles)
    BY <1>1, ProfileEntriesTypes DEF IInv
  <2>3. DOMAIN es = DOMAIN ProfileRows /\ \A i \in DOMAIN es : es[i].call = calls
    BY DEF ProfileEntries, Entry
  <2>4. Len(es) = Len(ProfileRows)
    <3> HIDE DEF es
    <3> QED
      BY <2>1, <2>2, <2>3
  <2> QED
    BY <2>2, <2>3, <2>4
<1> HIDE DEF es
<1>4. Cleaned(profiles) \in Lists(ProfileCapacity, Profiles)
  BY Capacities, CleanedCounts DEF IInv, ListInv
<1>5. Counted(profiles') = {es[i] : i \in DOMAIN es}
  <2>1. Len(es) <= ProfileCapacity /\ es \in Seq(Profiles) /\ ProfileCapacity \in Nat
    BY <1>2, <1>3, Capacities
  <2>2. Counted(NewList(Cleaned(profiles), es)) = {es[i] : i \in DOMAIN es}
    BY <1>4, <2>1, NewListCounts
  <2> QED
    BY <1>2, <2>2
<1>6. profiles'.nof = Len(es)
  BY <1>2 DEF NewList
<1> QED
  BY <1>1, <1>2, <1>3, <1>5, <1>6

\* One that finds no rows leaves nothing but null pointers.
LEMMA ProfileListEmpty ==
  ASSUME IInv, \/ GetProfileList /\ Len(answer) = 1 /\ pc' = "idle"
               \/ NoMemoryForRows /\ asked = "at!band=?"
  PROVE  Counted(profiles') \subseteq {Null}
<1>1. profiles' = Cleaned(profiles)
  <2>1. CASE GetProfileList /\ Len(answer) = 1 /\ pc' = "idle"
    <3>1. ~(Len(answer) > 1) /\ ~Crash
      BY <2>1 DEF Crash
    <3> QED
      BY <2>1, <3>1 DEF GetProfileList
  <2>2. CASE NoMemoryForRows /\ asked = "at!band=?"
    BY <2>2 DEF NoMemoryForRows
  <2> QED
    BY <2>1, <2>2
<1> QED
  BY <1>1, Capacities, CleanedCounts DEF IInv, ListInv

LEMMA NetworkListTells ==
  ASSUME IInv, NetworkSearch, NetworksInOrder, pc' = "idle"
  PROVE  /\ networks'.nof = NofNetworksSaid
         /\ \A e \in Counted(networks') : e \in heap' /\ e.call = calls
<1> DEFINE es == NetworkEntries
<1>1. /\ ~Unclosed(Searched) /\ ~(NofNetworks(Searched) > NetworkCapacity)
      /\ heap' = (heap \ Counted(networks)) \cup {es[i] : i \in DOMAIN es}
      /\ networks' = NewList(networks, es)
  BY DEF NetworkSearch, Crash
<1>2. es \in Seq(Networks) /\ Len(es) = NofNetworks(Searched)
      /\ \A i \in DOMAIN es : es[i].call = calls
  BY NetworkEntriesTypes, NofNetworksTypes DEF NetworkEntries, Entry, IInv
<1> HIDE DEF es
<1>3. Len(es) <= NetworkCapacity
  BY <1>1, <1>2, NofNetworksTypes, Capacities
<1>4. Counted(networks') = {es[i] : i \in DOMAIN es}
  BY <1>1, <1>2, <1>3, Capacities, NewListCounts DEF IInv, ListInv
<1>5. networks'.nof = Len(es)
  BY <1>1 DEF NewList
<1>6. NofNetworks(Searched) = NofNetworksSaid
  BY <1>1, NetworksCounted
<1> QED
  BY <1>1, <1>2, <1>4, <1>5, <1>6

\* After its call, what a list has stays this answer's until it is freed.
LEMMA NextTells ==
  ASSUME IInv, IInv', ListsOfThisAnswer, [Next]_vars
  PROVE  ListsOfThisAnswer'
<1>1. CASE pc' # "idle"
  BY <1>1 DEF ListsOfThisAnswer
<1>2. ASSUME UNCHANGED <<mock, calls>>
      PROVE  /\ ProfilesInOrder' <=> ProfilesInOrder
             /\ NetworksInOrder' <=> NetworksInOrder
             /\ Says("heading")' <=> Says("heading")
             /\ NofProfilesSaid' = NofProfilesSaid /\ NofNetworksSaid' = NofNetworksSaid
             /\ asked' = asked /\ status' = status /\ calls' = calls /\ answer' = answer
  <2>1. asked' = asked /\ status' = status /\ calls' = calls /\ answer' = answer
    BY <1>2 DEF mock
  <2>2. \A line : Says(line)' <=> Says(line)
    BY <2>1 DEF Says
  <2>3. NofProfilesSaid' = NofProfilesSaid /\ NofNetworksSaid' = NofNetworksSaid
    BY <2>1 DEF NofProfilesSaid, NofNetworksSaid, Says
  <2> QED
    BY <2>1, <2>2, <2>3 DEF ProfilesInOrder, NetworksInOrder
<1>3. CASE NoMemoryForRows
  <2>1. short' = TRUE /\ asked' = asked
    BY <1>3 DEF NoMemoryForRows, mock
  <2>2. asked' \in {"at!band=?", "at!band?"}
    BY <1>3, <2>1 DEF NoMemoryForRows, Responded, Answered
  <2>3. asked' = "at!band=?" => Counted(profiles') \subseteq {Null}
    BY <1>3, <2>1, ProfileListEmpty
  <2> QED
    BY <2>1, <2>2, <2>3 DEF ListsOfThisAnswer, Counted
<1>4. CASE GetProfile
  <2>1. asked' = "at!band?"
    BY <1>4 DEF GetProfile, Responded, Answered, Return, mock
  <2> QED
    BY <2>1 DEF ListsOfThisAnswer
<1>5. CASE GetProfileList /\ pc' = "idle"
  <2>1. UNCHANGED <<mock, calls, short>> /\ asked' = "at!band=?" /\ ~short
    BY <1>5 DEF GetProfileList, Crash, Return, Responded, Answered, mock, IInv, ListInv
  <2>2. status' = "SUCCESS" /\ Len(answer') > 1 /\ ProfilesInOrder' =>
          /\ profiles'.nof = NofProfilesSaid' + IF Says("heading")' THEN 0 ELSE 1
          /\ \A e \in Counted(profiles') : e \in heap' /\ e.call = calls'
    BY <1>2, <1>5, <2>1, ProfileListTells
  <2>3. Len(answer') = 1 => Counted(profiles') \subseteq {Null}
    BY <1>2, <1>5, <2>1, ProfileListEmpty
  <2> QED
    BY <2>1, <2>2, <2>3 DEF ListsOfThisAnswer, Counted
<1>6. CASE NetworkSearch /\ pc' = "idle"
  <2>1. UNCHANGED <<mock, calls>> /\ asked' = "at+cops=?"
    BY <1>6 DEF NetworkSearch, Crash, Return, Responded, Answered, mock
  <2>2. NetworksInOrder' =>
          /\ networks'.nof = NofNetworksSaid'
          /\ \A e \in Counted(networks') : e \in heap' /\ e.call = calls'
    BY <1>2, <1>6, <2>1, NetworkListTells
  <2> QED
    BY <2>1, <2>2 DEF ListsOfThisAnswer, Counted
<1>7. ASSUME UNCHANGED <<mock, calls, pc, short>>,
             (profiles' = profiles /\ ("profiles" \in renewed' <=> "profiles" \in renewed))
               \/ "profiles" \in renewed',
             (networks' = networks /\ ("networks" \in renewed' <=> "networks" \in renewed))
               \/ "networks" \in renewed'
      PROVE  ListsOfThisAnswer'
  <2>1. /\ heap = (Counted(profiles) \cup Counted(networks)) \ {Null}
        /\ heap' = (Counted(profiles') \cup Counted(networks')) \ {Null}
    BY DEF IInv, EntriesOwned, Counted
  <2>2. profiles' = profiles => \A e \in Counted(profiles') : e \in heap => e \in heap'
    BY <2>1
  <2>3. networks' = networks => \A e \in Counted(networks') : e \in heap => e \in heap'
    BY <2>1
  <2>4. pc' = pc /\ short' = short /\ profiles' = profiles => Counted(profiles') = Counted(profiles)
    OBVIOUS
  <2>5. networks' = networks => Counted(networks') = Counted(networks)
    OBVIOUS
  <2> QED
    BY <1>2, <1>7, <2>2, <2>3, <2>4, <2>5 DEF ListsOfThisAnswer, Counted
<1>8. CASE FreeProfileList \/ FreeNetworkList
  BY <1>7, <1>8 DEF FreeProfileList, FreeNetworkList
<1>9. CASE UNCHANGED vars
  BY <1>7, <1>9 DEF vars, lists
<1>10. CASE Call \/ Answer \/ UseNoResponse \/ NoMemoryForEntry
  <2>1. pc' # "idle"
    BY <1>10 DEF Call, Answer, UseNoResponse, NoMemoryForEntry, Crash
  <2> QED
    BY <1>1, <2>1
<1> QED
  BY <1>1, <1>3, <1>4, <1>5, <1>6, <1>8, <1>9, <1>10 DEF Next

\* Whatever the file says and however the lists are used again: after a call
\* that succeeded and until it is freed, a list has an entry for each profile or
\* network of its answer and no other, if that is in order, with the exceptions
\* of the code (an answer without a heading, or without rows).
THEOREM ListsCorrect == Spec => []ListsOfThisAnswer
<1>1. Init => ListsOfThisAnswer
  BY DEF Init, MockInit, ListsOfThisAnswer
<1>2. ListsOfThisAnswer /\ IInv /\ IInv' /\ [Next]_vars => ListsOfThisAnswer'
  BY NextTells
<1> QED
  BY <1>1, <1>2, Invariance, PTL DEF Spec

-----------------------------------------------------------------------------
(* The mock implements the AT interface                                    *)

HasLine(r, words) == \E i \in 1..Len(r) : r[i] \in words

\* A response of lines has the final lines that it is made of.
LEMMA FlatWords ==
  ASSUME NEW r \in Seq(Lines)
  PROVE  /\ Flat(r) \in Seq(Interface!Symbols)
         /\ Interface!HasOk(Flat(r)) <=> HasLine(r, {"OK"})
         /\ Interface!HasError(Flat(r)) <=> HasLine(r, {"ERROR", "CME"})
<1> DEFINE n == Len(r)
           M == Flat(r)
           Word(i) == IF r[i] \in Finals THEN r[i] ELSE "TEXT"
<1>1. n \in Nat /\ \A i \in 1..n : Word(i) \in {"OK", "ERROR", "CME", "TEXT"}
  BY DEF Finals
<1>2. DOMAIN M = 1..(2 * n) /\
      \A j \in 1..(2 * n) : M[j] = IF j % 2 = 0 THEN "CRLF" ELSE Word((j + 1) \div 2)
  BY DEF Flat
<1>3. \A j \in 1..(2 * n) : j % 2 # 0 => (j + 1) \div 2 \in 1..n
  BY <1>1
<1>4. \A i \in 1..n : /\ 2 * i - 1 \in 1..(2 * n) /\ 2 * i \in 1..(2 * n)
                      /\ (2 * i - 1) % 2 # 0 /\ (2 * i) % 2 = 0
                      /\ ((2 * i - 1) + 1) \div 2 = i
  BY <1>1
<1>5. \A i \in 1..n, word \in Finals : Word(i) = word <=> r[i] = word
  BY DEF Finals
<1> HIDE DEF M, n, Word
<1>6. M \in Seq(Interface!Symbols) /\ Len(M) = 2 * n
  <2>1. \A j \in 1..(2 * n) : M[j] \in Interface!Symbols
    BY <1>1, <1>2, <1>3 DEF Interface!Symbols
  <2>2. M = [j \in 1..(2 * n) |-> M[j]] /\ 2 * n \in Nat
    BY <1>1, <1>2 DEF M, Flat, n
  <2> QED
    BY <2>1, <2>2
<1>7. ASSUME NEW word \in Finals, NEW j \in 1..(2 * n), M[j] = word
      PROVE  \E i \in 1..n : r[i] = word
  <2>1. j % 2 # 0 /\ Word((j + 1) \div 2) = word
    BY <1>2, <1>7 DEF Finals
  <2> QED
    BY <1>3, <1>5, <2>1
<1>8. ASSUME NEW word \in Finals, NEW i \in 1..n, r[i] = word
      PROVE  Interface!Line(M, word) /\ \E j \in 1..Len(M) : M[j] = word
  <2>1. (2 * i - 1) + 1 = 2 * i
    BY <1>1
  <2>2. M[2 * i - 1] = word /\ M[(2 * i - 1) + 1] = "CRLF"
    BY <1>2, <1>4, <1>5, <1>8, <2>1
  <2>3. 2 * i - 1 \in 1..Len(M) /\ 2 * i - 1 < Len(M)
    BY <1>1, <1>6
  <2> QED
    BY <2>2, <2>3 DEF Interface!Line
<1>9. \A word \in Finals : Interface!Line(M, word) <=> \E i \in 1..n : r[i] = word
  BY <1>6, <1>7, <1>8 DEF Interface!Line
<1>10. \A word \in Finals : (\E j \in 1..Len(M) : M[j] = word) <=> \E i \in 1..n : r[i] = word
  BY <1>6, <1>7, <1>8
<1> QED
  BY <1>6, <1>9, <1>10 DEF Interface!HasOk, Interface!HasError, HasLine, Finals, M, n

\* The step that ends a call returns a status that is true of the answer.
LEMMA MockReturns ==
  ASSUME MockInv, mpc # "idle", mpc' = "idle", answer' \in Seq(Lines),
         status' \in {"SUCCESS", "FAILED", "UNKNOWN", "OUT_OF_MEMORY", "TEST_COMMAND_MISMATCH"},
         status' = "SUCCESS" => HasLine(answer', {"OK"}),
         status' = "FAILED" => HasLine(answer', {"ERROR", "CME"}) /\ ~HasLine(answer', {"OK"}),
         status' \notin {"SUCCESS", "FAILED"} =>
           ~HasLine(answer', {"OK"}) /\ ~HasLine(answer', {"ERROR", "CME"})
  PROVE  Interface!Next
<1>1. /\ Flat(answer') \in Seq(Interface!Symbols)
      /\ Interface!HasOk(Flat(answer')) <=> HasLine(answer', {"OK"})
      /\ Interface!HasError(Flat(answer')) <=> HasLine(answer', {"ERROR", "CME"})
  BY FlatWords
<1>2. Interface!Truthful(status', Flat(answer'))
  BY <1>1 DEF Interface!Truthful
<1>3. (mpc # "idle") = TRUE /\ (mpc' # "idle") = FALSE
  OBVIOUS
<1>4. status' \in Interface!Statuses
  BY DEF Interface!Statuses
<1>5. Interface!Return
  BY <1>1, <1>2, <1>3, <1>4 DEF Interface!Return, Flat
<1> QED
  BY <1>5 DEF Interface!Next

\* The mock, over any file and asked anything, is an AT interface.
THEOREM MockImplements == Spec => ImplementsInterface
<1>1. Init => Interface!Init
  <2> SUFFICES ASSUME Init PROVE Interface!Init
    OBVIOUS
  <2>1. mpc = "idle" /\ answer = <<>> /\ status = "NONE"
    BY DEF Init, MockInit
  <2>2. Flat(<<>>) = <<>>
    BY DEF Flat
  <2>3. (mpc # "idle") = FALSE
    BY <2>1
  <2> QED
    BY <2>1, <2>2, <2>3 DEF Interface!Init
<1>2. IInv /\ IInv' /\ [Next]_vars => [Interface!Next]_(Interface!vars)
  <2> SUFFICES ASSUME MockInv, MockInv', [Next]_vars
               PROVE  Interface!Next \/ UNCHANGED Interface!vars
    BY DEF IInv
  <2>1. ASSUME mpc' # "idle", mpc # "idle", UNCHANGED status
        PROVE  UNCHANGED Interface!vars
    <3>1. (mpc # "idle") = TRUE /\ (mpc' # "idle") = TRUE
      BY <2>1
    <3> QED
      BY <2>1, <3>1 DEF Interface!vars
  <2>2. CASE UNCHANGED mock
    BY <2>2 DEF mock, Interface!vars
  <2>3. ASSUME NEW c \in Commands, Command(c) PROVE Interface!Next
    <3>1. (mpc # "idle") = FALSE /\ (mpc' # "idle") = TRUE /\ status' = "NONE"
      BY <2>3 DEF Command
    <3> QED
      BY <3>1 DEF Interface!Next, Interface!Call
  <2>4. ASSUME answer' = <<>>, mpc' = "idle", mpc # "idle",
               status' \in {"OUT_OF_MEMORY", "TEST_COMMAND_MISMATCH"}
        PROVE  Interface!Next
    <3>1. ~HasLine(answer', {"OK"}) /\ ~HasLine(answer', {"ERROR", "CME"})
      BY <2>4 DEF HasLine
    <3>2. answer' \in Seq(Lines)
      BY DEF MockInv
    <3> QED
      BY <2>4, <3>1, <3>2, MockReturns
  <2>5. CASE NoMemory
    BY <2>4, <2>5 DEF NoMemory, Returns, MockInv
  <2>6. CASE Compare
    BY <2>1, <2>4, <2>6 DEF Compare, Returns, MockInv
  <2>7. CASE ReadEnd
    <3>1. /\ mpc = "read" /\ mpc' = "idle" /\ status' = "UNKNOWN" /\ answer' = answer
      BY <2>7 DEF ReadEnd, Returns
    <3>2. ~HasLine(answer', {"OK"}) /\ ~HasLine(answer', {"ERROR", "CME"})
      BY <3>1 DEF HasLine, MockInv, Finals
    <3>3. answer' \in Seq(Lines)
      BY DEF MockInv
    <3> QED
      BY <3>1, <3>2, <3>3, MockReturns
  <2>8. CASE ReadLine
    <3> DEFINE line == script[position + 1]
    <3>1. /\ mpc = "read" /\ position < Len(script) /\ answer' = Append(answer, line)
          /\ \/ FinalStatus(line) = "NONE" /\ UNCHANGED <<mpc, status>>
             \/ FinalStatus(line) # "NONE" /\ Returns(FinalStatus(line))
      BY <2>8 DEF ReadLine
    <3> HIDE DEF line
    <3>2. CASE FinalStatus(line) = "NONE"
      BY <2>1, <3>1, <3>2
    <3>3. CASE FinalStatus(line) # "NONE"
      <4>1. /\ mpc' = "idle" /\ status' = FinalStatus(line)
            /\ \/ line = "OK" /\ status' = "SUCCESS"
               \/ line \in {"ERROR", "CME"} /\ status' = "FAILED"
        BY <3>1, <3>3 DEF FinalStatus, Returns
      <4>2. answer' \in Seq(Lines) /\ answer \in Seq(Lines)
        BY DEF MockInv
      <4>3. /\ Len(answer') = Len(answer) + 1 /\ answer'[Len(answer')] = line
            /\ \A j \in 1..Len(answer') : answer'[j] = line \/ answer'[j] \notin Finals
        <5>1. \A j \in 1..Len(answer) : answer[j] \notin Finals
          BY <3>1 DEF MockInv
        <5> QED
          BY <3>1, <4>2, <5>1
      <4>4. Len(answer') \in 1..Len(answer')
        BY <4>2, <4>3
      <4> QED
        BY <3>1, <4>1, <4>2, <4>3, <4>4, MockReturns DEF HasLine, Finals
    <3> QED
      BY <3>2, <3>3
  <2>9. UNCHANGED mock \/ MockStep \/ \E c \in Commands : Command(c)
    BY DEF Next, vars, Call, Answer, UseNoResponse, GetProfile, GetProfileList, NetworkSearch,
       NoMemoryForRows, NoMemoryForEntry, FreeProfileList, FreeNetworkList, Return, Crash
  <2> QED
    BY <2>2, <2>3, <2>5, <2>6, <2>7, <2>8, <2>9 DEF MockStep
<1> QED
  BY <1>1, <1>2, Invariance, PTL DEF Spec, ImplementsInterface, Interface!Spec

=============================================================================

--------------------------- MODULE DiscoveryProofs ---------------------------
(***************************************************************************)
(* Proofs about Discovery, for any ports and any number of devices plugged *)
(* in and out during any number of enumerations.  What is in the list, and *)
(* what is still to be looked at, are told for the ports that are steady;  *)
(* what is allocated is counted at every point of the library.             *)
(***************************************************************************)
EXTENDS Discovery, FiniteSetTheorems, TLAPS

Elements(s) == {s[i] : i \in 1..Len(s)}
Distinct(s) == \A i, j \in 1..Len(s) : s[i] = s[j] => i = j

OpenOnes(h) == {d \in Drivers : h[d] # Null}

TypeInv ==
  /\ plugged \in [Ports -> Devices \cup {Null}] /\ steady \in SUBSET Ports
  /\ pc \in {"idle", "look", "listed", "init", "free", "crashed"}
  /\ driver \in Drivers /\ first \in BOOLEAN
  /\ todo \in Seq(Ports) /\ list \in Seq(Ports)
  /\ handle \in [Drivers -> Handles \cup {Null}]
  /\ failed \in Nat

\* A list lives from the scan to its release, udev's objects while it grows; a
\* device is opened only for a driver that has none.
PhaseInv ==
  /\ pc = "idle" => list = <<>>
  /\ pc \notin {"look", "crashed"} => todo = <<>> /\ udev = {}
  /\ pc = "init" => list # <<>> /\ handle[driver] = Null
  /\ first /\ pc \in {"look", "listed"} => handle[driver] = Null

\* No port is met twice.
OrderInv ==
  /\ Distinct(todo) /\ Distinct(list)
  /\ Elements(todo) \cap Elements(list) = {}

\* For the steady ports, list and todo have no others than they should ...
ScanInv ==
  \A p \in steady :
    /\ p \in Elements(todo) => Scanned(plugged[p])
    /\ p \in Elements(list) => Scanned(plugged[p]) /\ Matches(plugged[p], driver)

\* ... and together all they should.
FoundInv ==
  pc \in {"look", "listed"} =>
    \A p \in steady :
      Scanned(plugged[p]) /\ Matches(plugged[p], driver) =>
        p \in Elements(todo) \cup Elements(list)

HeapInv ==
  LET open == Cardinality(OpenOnes(handle))
  IN entries = Len(list) /\ ttys = open + failed /\ fds = open

IInv ==
  /\ TypeInv /\ PhaseInv /\ OrderInv /\ ScanInv /\ FoundInv /\ HeapInv
  /\ OpensItsDevice

-----------------------------------------------------------------------------
(* Sequences of ports                                                      *)

LEMMA EmptyElements == Elements(<<>>) = {} /\ Distinct(<<>>)
BY DEF Elements, Distinct

LEMMA TailElements ==
  ASSUME NEW s \in Seq(Ports), s # <<>>, Distinct(s)
  PROVE  /\ Head(s) \in Ports /\ Tail(s) \in Seq(Ports) /\ Distinct(Tail(s))
         /\ Elements(Tail(s)) = Elements(s) \ {Head(s)} /\ Head(s) \in Elements(s)
<1> DEFINE t == Tail(s)
<1>1. /\ Len(s) \in Nat \ {0} /\ Len(t) = Len(s) - 1 /\ t \in Seq(Ports)
      /\ \A i \in 1..Len(t) : t[i] = s[i + 1]
      /\ Head(s) = s[1] /\ s[1] \in Ports
  OBVIOUS
<1> HIDE DEF t
<1>2. Distinct(t)
  BY <1>1 DEF Distinct
<1>3. ASSUME NEW p \in Elements(s) \ {s[1]} PROVE p \in Elements(t)
  <2>1. PICK i \in 1..Len(s) : p = s[i]
    BY DEF Elements
  <2>2. i # 1
    BY <2>1
  <2>3. i - 1 \in 1..Len(t) /\ t[i - 1] = p
    BY <1>1, <2>1, <2>2
  <2> QED
    BY <2>3 DEF Elements
<1>4. Elements(t) \subseteq Elements(s) \ {s[1]}
  BY <1>1 DEF Elements, Distinct
<1>5. s[1] \in Elements(s)
  BY <1>1 DEF Elements
<1> QED
  BY <1>1, <1>2, <1>3, <1>4, <1>5 DEF t

LEMMA PushElements ==
  ASSUME NEW s \in Seq(Ports), NEW p \in Ports \ Elements(s), Distinct(s)
  PROVE  /\ <<p>> \o s \in Seq(Ports) /\ Distinct(<<p>> \o s)
         /\ Elements(<<p>> \o s) = {p} \cup Elements(s)
         /\ Len(<<p>> \o s) = Len(s) + 1
<1> DEFINE t == <<p>> \o s
<1>1. /\ Len(s) \in Nat /\ t \in Seq(Ports) /\ Len(t) = Len(s) + 1 /\ t[1] = p
      /\ \A i \in 2..Len(t) : t[i] = s[i - 1] /\ i - 1 \in 1..Len(s)
      /\ \A i \in 1..Len(s) : s[i] = t[i + 1] /\ i + 1 \in 1..Len(t)
  OBVIOUS
<1> HIDE DEF t
<1>2. \A i \in 2..Len(t) : t[i] \in Elements(s) /\ t[i] # p
  BY <1>1 DEF Elements
<1>3. Distinct(t)
  <2> SUFFICES ASSUME NEW i \in 1..Len(t), NEW j \in 1..Len(t), t[i] = t[j]
               PROVE  i = j
    BY DEF Distinct
  <2>1. CASE i = 1 \/ j = 1
    BY <1>1, <1>2, <2>1
  <2>2. CASE i # 1 /\ j # 1
    <3>1. i \in 2..Len(t) /\ j \in 2..Len(t)
      BY <1>1, <2>2
    <3>2. s[i - 1] = s[j - 1] /\ i - 1 \in 1..Len(s) /\ j - 1 \in 1..Len(s)
      BY <1>1, <3>1
    <3>3. i - 1 = j - 1
      BY <3>2 DEF Distinct
    <3> QED
      BY <3>1, <3>3
  <2> QED
    BY <2>1, <2>2
<1>4. Elements(t) = {p} \cup Elements(s)
  <2>1. Elements(t) \subseteq {p} \cup Elements(s)
    <3> SUFFICES ASSUME NEW i \in 1..Len(t) PROVE t[i] \in {p} \cup Elements(s)
      BY DEF Elements
    <3>1. i = 1 \/ i \in 2..Len(t)
      BY <1>1
    <3> QED
      BY <1>1, <1>2, <3>1
  <2>2. p \in Elements(t) /\ Elements(s) \subseteq Elements(t)
    BY <1>1 DEF Elements
  <2> QED
    BY <2>1, <2>2
<1> QED
  BY <1>1, <1>3, <1>4 DEF t

\* An order in which a set of ports is scanned has each of them once.
LEMMA ScanOrder ==
  ASSUME NEW S \in SUBSET Ports, NEW f \in SetToSeqs(S)
  PROVE  f \in Seq(Ports) /\ Distinct(f) /\ Elements(f) = S
<1> DEFINE n == Cardinality(S)
<1>1. IsFiniteSet(S) /\ n \in Nat
  BY DiscoveryAssumption, FS_Subset, FS_CardinalityType
<1>2. f \in [1..n -> S] /\ \A i, j \in 1..n : i # j => f[i] # f[j]
  BY DEF SetToSeqs
<1> HIDE DEF n
<1>3. f \in Seq(Ports) /\ Len(f) = n
  BY <1>1, <1>2
<1>4. f \in Injection(1..n, S)
  BY <1>2 DEF Injection, IsInjective
<1>5. Cardinality(1..n) = n
  BY <1>1, FS_Interval
<1>6. f \in Surjection(1..n, S)
  BY <1>1, <1>4, <1>5, FS_Injection DEF n
<1>7. Elements(f) = S
  BY <1>2, <1>3, <1>6 DEF Surjection, Elements
<1> QED
  BY <1>2, <1>3, <1>7 DEF Distinct

-----------------------------------------------------------------------------
(* Handles                                                                 *)

LEMMA OpenOnesFinite == ASSUME NEW h PROVE IsFiniteSet(OpenOnes(h))
<1>1. IsFiniteSet({"em7565", "mc7455"})
  <2>1. IsFiniteSet({"em7565"})
    BY FS_Singleton
  <2>2. IsFiniteSet({"em7565"} \cup {"mc7455"})
    BY <2>1, FS_AddElement
  <2>3. {"em7565", "mc7455"} = {"em7565"} \cup {"mc7455"}
    OBVIOUS
  <2> QED
    BY <2>2, <2>3, Zenon
<1> QED
  BY <1>1, FS_Subset, DiscoveryAssumption DEF OpenOnes

LEMMA OpenedCount ==
  ASSUME TypeInv, NEW d \in Drivers, NEW v \in Handles, handle[d] = Null,
         handle' = [handle EXCEPT ![d] = v]
  PROVE  Cardinality(OpenOnes(handle')) = Cardinality(OpenOnes(handle)) + 1
<1>1. OpenOnes(handle') = OpenOnes(handle) \cup {d} /\ d \notin OpenOnes(handle)
  BY DiscoveryAssumption DEF OpenOnes, TypeInv
<1> QED
  BY <1>1, OpenOnesFinite, FS_AddElement

LEMMA ClosedCount ==
  ASSUME TypeInv, NEW d \in Drivers, handle[d] # Null,
         handle' = [handle EXCEPT ![d] = Null]
  PROVE  Cardinality(OpenOnes(handle')) = Cardinality(OpenOnes(handle)) - 1
<1>1. OpenOnes(handle') = OpenOnes(handle) \ {d} /\ d \in OpenOnes(handle)
  BY DEF OpenOnes, TypeInv
<1> QED
  BY <1>1, OpenOnesFinite, FS_RemoveElement

-----------------------------------------------------------------------------
(* The invariant                                                           *)

LEMMA InitEstablishes == Init => IInv
<1> SUFFICES ASSUME Init PROVE IInv
  OBVIOUS
<1>1. TypeInv
  <2>1. plugged \in [Ports -> Devices \cup {Null}] /\ handle \in [Drivers -> Handles \cup {Null}]
    BY DEF Init
  <2>2. todo = <<>> /\ list = <<>>
    BY Zenon DEF Init
  <2>3. steady = Ports /\ pc = "idle" /\ driver \in Drivers /\ failed = 0
    BY Zenon DEF Init
  <2>4. todo \in Seq(Ports) /\ list \in Seq(Ports)
    BY <2>2
  <2>5. first \in BOOLEAN
    BY Zenon DEF Init
  <2> QED
    BY <2>1, <2>3, <2>4, <2>5 DEF TypeInv
<1>2. PhaseInv /\ OrderInv /\ ScanInv /\ FoundInv
  BY EmptyElements DEF Init, PhaseInv, OrderInv, ScanInv, FoundInv
<1>3. HeapInv
  <2>1. OpenOnes(handle) = {}
    BY DEF Init, OpenOnes
  <2> QED
    <3>1. Cardinality(OpenOnes(handle)) = 0
      BY <2>1, FS_EmptySet
    <3>2. Len(<<>>) = 0
      OBVIOUS
    <3> QED
      BY <3>1, <3>2 DEF Init, HeapInv
<1>4. OpensItsDevice
  BY DEF Init, OpensItsDevice
<1> QED
  BY <1>1, <1>2, <1>3, <1>4 DEF IInv

\* A port whose device changes is not steady; the others are as they were.
LEMMA WorldPreserves ==
  ASSUME IInv, NEW p \in Ports, Plug(p) \/ Unplug(p) PROVE IInv'
<1>1. /\ \A q \in Ports \ {p} : plugged'[q] = plugged[q]
      /\ plugged' \in [Ports -> Devices \cup {Null}] /\ steady' = steady \ {p}
      /\ UNCHANGED <<pc, driver, first, todo, list, memory, handle, failed>>
  BY DEF Plug, Unplug, IInv, TypeInv
<1>2. TypeInv' /\ PhaseInv' /\ OrderInv' /\ HeapInv' /\ OpensItsDevice'
  BY <1>1 DEF IInv, TypeInv, PhaseInv, OrderInv, HeapInv, OpensItsDevice, memory
<1>3. ScanInv' /\ FoundInv'
  BY <1>1 DEF IInv, TypeInv, ScanInv, FoundInv
<1> QED
  BY <1>2, <1>3 DEF IInv

LEMMA EnumeratePreserves ==
  ASSUME IInv, NEW d \in Drivers, NEW forFirst \in BOOLEAN, Enumerate(d, forFirst)
  PROVE  IInv'
<1> DEFINE S == {p \in Ports : Scanned(plugged[p])}
<1>1. /\ pc = "idle" /\ (forFirst => handle[d] = Null)
      /\ pc' = "look" /\ driver' = d /\ first' = forFirst /\ steady' = Ports
      /\ todo' \in SetToSeqs(S)
      /\ UNCHANGED <<plugged, list, entries, ttys, fds, handle, failed>>
  BY DEF Enumerate
<1>2. todo' \in Seq(Ports) /\ Distinct(todo') /\ Elements(todo') = S
  BY <1>1, ScanOrder
<1>3. list = <<>> /\ Elements(list) = {}
  BY <1>1, EmptyElements DEF IInv, PhaseInv
<1>4. TypeInv' /\ PhaseInv' /\ OrderInv' /\ HeapInv' /\ OpensItsDevice'
  BY <1>1, <1>2, <1>3 DEF IInv, TypeInv, PhaseInv, OrderInv, HeapInv, OpensItsDevice
<1>5. ScanInv' /\ FoundInv'
  BY <1>1, <1>2, <1>3 DEF ScanInv, FoundInv
<1> QED
  BY <1>4, <1>5 DEF IInv

LEMMA LookPreserves == ASSUME IInv, Look PROVE IInv'
<1> DEFINE p == Head(todo)
<1>1. /\ pc = "look" /\ pc' = "look" /\ todo # <<>> /\ todo' = Tail(todo)
      /\ UNCHANGED <<plugged, steady, driver, first, udev, ttys, fds, handle, failed>>
      /\ \/ /\ Matches(plugged[p], driver)
            /\ list' = <<p>> \o list /\ entries' = entries + 1
         \/ /\ ~Matches(plugged[p], driver)
            /\ UNCHANGED <<list, entries>>
  BY DEF Look, world
<1>2. /\ p \in Ports /\ todo' \in Seq(Ports) /\ Distinct(todo')
      /\ Elements(todo') = Elements(todo) \ {p} /\ p \in Elements(todo)
  BY <1>1, TailElements DEF IInv, TypeInv, OrderInv
<1>3. p \notin Elements(list)
  BY <1>2 DEF IInv, OrderInv
<1> HIDE DEF p
<1>4. /\ list' \in Seq(Ports) /\ Distinct(list') /\ entries' = Len(list')
      /\ Elements(list') = IF Matches(plugged[p], driver) THEN {p} \cup Elements(list)
                           ELSE Elements(list)
  <2>1. CASE Matches(plugged[p], driver)
    <3>1. list \in Seq(Ports) /\ Distinct(list) /\ entries = Len(list)
      BY DEF IInv, TypeInv, OrderInv, HeapInv
    <3>2. p \in Ports \ Elements(list)
      BY <1>2, <1>3
    <3>3. list' = <<p>> \o list /\ entries' = entries + 1
      BY <1>1, <2>1
    <3> QED
      BY <2>1, <3>1, <3>2, <3>3, PushElements
  <2>2. CASE ~Matches(plugged[p], driver)
    BY <1>1, <2>2 DEF IInv, TypeInv, OrderInv, HeapInv
  <2> QED
    BY <2>1, <2>2
<1>5. TypeInv' /\ PhaseInv' /\ OrderInv' /\ HeapInv' /\ OpensItsDevice'
  BY <1>1, <1>2, <1>3, <1>4
     DEF IInv, TypeInv, PhaseInv, OrderInv, HeapInv, OpensItsDevice
<1>6. ScanInv'
  BY <1>1, <1>2, <1>4 DEF IInv, ScanInv
<1>7. FoundInv'
  BY <1>1, <1>2, <1>4 DEF IInv, FoundInv
<1> QED
  BY <1>5, <1>6, <1>7 DEF IInv

\* A step of the library that neither scans nor opens.
LEMMA LibraryPreserves ==
  ASSUME IInv, Listed \/ FreeList \/ InitFirst \/ NoMemoryForHandle \/ OpenNothing
                 \/ OpenFails
  PROVE  IInv'
<1>1. /\ UNCHANGED <<plugged, steady, driver, first, todo, handle, fds>>
      /\ pc' \in {"idle", "listed", "init", "free", "crashed"}
      /\ todo = <<>> /\ udev' = {}
  BY DEF IInv, PhaseInv, Listed, FreeList, InitFirst, NoMemoryForHandle, OpenNothing,
     OpenFails, world, memory
<1>2. \/ list' = <<>> /\ entries' = 0 /\ UNCHANGED <<ttys, failed>>
      \/ UNCHANGED <<list, entries>> /\ ttys' = ttys + (failed' - failed)
  <2>1. CASE FreeList
    BY <2>1 DEF FreeList, IInv, TypeInv, HeapInv
  <2>2. CASE OpenFails
    <3>1. Cardinality(OpenOnes(handle)) \in Nat
      BY OpenOnesFinite, FS_CardinalityType
    <3> QED
      BY <2>2, <3>1 DEF OpenFails, IInv, TypeInv, HeapInv
  <2>3. CASE Listed \/ InitFirst \/ NoMemoryForHandle \/ OpenNothing
    <3>1. Cardinality(OpenOnes(handle)) \in Nat
      BY OpenOnesFinite, FS_CardinalityType
    <3> QED
      BY <2>3, <3>1 DEF Listed, InitFirst, NoMemoryForHandle, OpenNothing, memory, IInv,
         TypeInv, HeapInv
  <2> QED
    BY <2>1, <2>2, <2>3
<1>3. failed' \in Nat
  BY DEF IInv, TypeInv, Listed, FreeList, InitFirst, NoMemoryForHandle, OpenNothing, OpenFails
<1>4. TypeInv' /\ OrderInv' /\ ScanInv' /\ OpensItsDevice'
  BY <1>1, <1>2, <1>3, EmptyElements
     DEF IInv, TypeInv, OrderInv, ScanInv, OpensItsDevice
<1>5. PhaseInv' /\ FoundInv'
  BY <1>1, EmptyElements DEF IInv, TypeInv, PhaseInv, FoundInv, Listed, FreeList, InitFirst,
     NoMemoryForHandle, OpenNothing, OpenFails, memory
<1>6. HeapInv'
  <2>1. Cardinality(OpenOnes(handle)) \in Nat
    BY OpenOnesFinite, FS_CardinalityType
  <2>2. Len(<<>>) = 0
    OBVIOUS
  <2> QED
    BY <1>1, <1>2, <1>3, <2>1, <2>2 DEF IInv, TypeInv, HeapInv
<1> QED
  BY <1>4, <1>5, <1>6 DEF IInv

LEMMA LookCrashesPreserves == ASSUME IInv, LookCrashes PROVE IInv'
BY DEF LookCrashes, world, memory, IInv, TypeInv, PhaseInv, OrderInv, ScanInv, FoundInv,
   HeapInv, OpensItsDevice

LEMMA OpenPreserves == ASSUME IInv, Open PROVE IInv'
<1> DEFINE p == Head(list)
           v == [port |-> p, device |-> plugged[p], steady |-> p \in steady]
<1>1. /\ pc = "init" /\ pc' = "free" /\ plugged[p] # Null
      /\ handle' = [handle EXCEPT ![driver] = v]
      /\ ttys' = ttys + 1 /\ fds' = fds + 1
      /\ UNCHANGED <<plugged, steady, driver, first, todo, list, udev, entries, failed>>
  BY DEF Open, world
<1>2. p \in Ports /\ p \in Elements(list)
  BY <1>1, TailElements DEF IInv, TypeInv, PhaseInv, OrderInv
<1>3. v \in Handles /\ v.device = plugged[p] /\ (v.steady <=> p \in steady)
  <2>1. (p \in steady) \in BOOLEAN
    OBVIOUS
  <2>2. plugged[p] \in Devices
    BY <1>1, <1>2 DEF IInv, TypeInv
  <2> QED
    BY <1>2, <2>1, <2>2 DEF Handles
<1> HIDE DEF v, p
<1>4. handle[driver] = Null /\ driver \in Drivers
  BY <1>1 DEF IInv, TypeInv, PhaseInv
<1>5. TypeInv' /\ PhaseInv' /\ OrderInv' /\ ScanInv' /\ FoundInv'
  BY <1>1, <1>3 DEF IInv, TypeInv, PhaseInv, OrderInv, ScanInv, FoundInv
<1>6. HeapInv'
  <2>1. Cardinality(OpenOnes(handle')) = Cardinality(OpenOnes(handle)) + 1
    BY <1>1, <1>3, <1>4, OpenedCount DEF IInv
  <2>2. Cardinality(OpenOnes(handle)) \in Nat
    BY OpenOnesFinite, FS_CardinalityType
  <2> QED
    BY <1>1, <2>1, <2>2 DEF IInv, TypeInv, HeapInv
<1>7. OpensItsDevice'
  <2>1. v.steady => Scanned(v.device) /\ Matches(v.device, driver)
    BY <1>2, <1>3 DEF IInv, ScanInv
  <2>2. \A d \in Drivers : handle'[d] = IF d = driver THEN v ELSE handle[d]
    BY <1>1 DEF IInv, TypeInv
  <2> QED
    BY <2>1, <2>2 DEF IInv, OpensItsDevice
<1> QED
  BY <1>5, <1>6, <1>7 DEF IInv

LEMMA DestroyPreserves == ASSUME IInv, NEW d \in Drivers, Destroy(d) PROVE IInv'
<1>1. /\ pc = "idle" /\ handle[d] # Null /\ handle' = [handle EXCEPT ![d] = Null]
      /\ ttys' = ttys - 1 /\ fds' = fds - 1
      /\ UNCHANGED <<plugged, steady, pc, driver, first, todo, list, udev, entries, failed>>
  BY DEF Destroy, world
<1>2. TypeInv' /\ PhaseInv' /\ OrderInv' /\ ScanInv' /\ FoundInv'
  BY <1>1 DEF IInv, TypeInv, PhaseInv, OrderInv, ScanInv, FoundInv
<1>3. HeapInv'
  <2>1. Cardinality(OpenOnes(handle')) = Cardinality(OpenOnes(handle)) - 1
    BY <1>1, ClosedCount DEF IInv
  <2>2. Cardinality(OpenOnes(handle)) \in Nat
    BY OpenOnesFinite, FS_CardinalityType
  <2> QED
    BY <1>1, <2>1, <2>2 DEF IInv, TypeInv, HeapInv
<1>4. OpensItsDevice'
  BY <1>1 DEF IInv, TypeInv, OpensItsDevice
<1> QED
  BY <1>2, <1>3, <1>4 DEF IInv

LEMMA NextPreserves == IInv /\ [Next]_vars => IInv'
<1> SUFFICES ASSUME IInv, [Next]_vars PROVE IInv'
  OBVIOUS
<1>1. CASE UNCHANGED vars
  BY <1>1 DEF vars, world, memory, IInv, TypeInv, PhaseInv, OrderInv, ScanInv, FoundInv,
     HeapInv, OpensItsDevice
<1>2. CASE Library
  BY <1>2, LookPreserves, LookCrashesPreserves, LibraryPreserves, OpenPreserves DEF Library
<1> QED
  BY <1>1, <1>2, WorldPreserves, DestroyPreserves, EnumeratePreserves DEF Next

-----------------------------------------------------------------------------
(* The theorems                                                            *)

LEMMA Invariance == Spec => []IInv
BY InitEstablishes, NextPreserves, PTL DEF Spec

\* Whatever is plugged in and out during an enumeration, the list has the
\* driver's devices that were there all the time, each once, and no other that
\* was.
THEOREM ListCorrect == Spec => []ListExact
<1>1. IInv => ListExact
  <2> SUFFICES ASSUME IInv, pc = "listed"
               PROVE  /\ \A p \in steady :
                           Cardinality({i \in DOMAIN list : list[i] = p}) =
                             IF Scanned(plugged[p]) /\ Matches(plugged[p], driver)
                             THEN 1 ELSE 0
                      /\ entries = Len(list)
    BY DEF ListExact
  <2>1. entries = Len(list) /\ DOMAIN list = 1..Len(list) /\ Elements(todo) = {}
    BY EmptyElements DEF IInv, TypeInv, PhaseInv, HeapInv
  <2>2. ASSUME NEW p \in steady, Scanned(plugged[p]), Matches(plugged[p], driver)
        PROVE  Cardinality({i \in DOMAIN list : list[i] = p}) = 1
    <3>1. p \in Elements(list)
      BY <2>1, <2>2 DEF IInv, FoundInv
    <3>2. PICK i \in 1..Len(list) : list[i] = p
      BY <3>1 DEF Elements
    <3>3. {j \in DOMAIN list : list[j] = p} = {i}
      BY <2>1, <3>2 DEF IInv, OrderInv, Distinct
    <3> QED
      BY <3>3, FS_Singleton
  <2>3. ASSUME NEW p \in steady, ~(Scanned(plugged[p]) /\ Matches(plugged[p], driver))
        PROVE  Cardinality({i \in DOMAIN list : list[i] = p}) = 0
    <3>1. p \notin Elements(list)
      BY <2>3 DEF IInv, ScanInv
    <3>2. {i \in DOMAIN list : list[i] = p} = {}
      BY <2>1, <3>1 DEF Elements
    <3> QED
      BY <3>2, FS_EmptySet
  <2> QED
    BY <2>1, <2>2, <2>3
<1> QED
  BY <1>1, Invariance, PTL

\* A driver opens only a device of its own, unless another one was plugged in
\* after the scan.
THEOREM OpensCorrectly == Spec => []OpensItsDevice
<1>1. IInv => OpensItsDevice
  BY DEF IInv
<1> QED
  BY <1>1, Invariance, PTL

\* Outside of the library exactly the open handles and those of failed opens
\* are allocated, however often devices are looked for, opened and closed.
THEOREM LeaksBounded == Spec => []OnlyFailedOpensLeak
<1>1. IInv => OnlyFailedOpensLeak
  <2>1. list = <<>> => Len(list) = 0
    OBVIOUS
  <2> QED
    BY <2>1 DEF IInv, PhaseInv, HeapInv, OnlyFailedOpensLeak, OpenOnes
<1> QED
  BY <1>1, Invariance, PTL

=============================================================================

----------------------------- MODULE Discovery -----------------------------
(***************************************************************************)
(* How a program finds a modem and opens it                                *)
(* (src/src/cmnalib/src/devices/enumerate.c, init_first, init and destroy  *)
(* of the drivers, open and close of src/src/cmnalib/src/at/               *)
(* at_interface.c), while devices are plugged in and out.                  *)
(*                                                                         *)
(* udev and the kernel are external.  A port stands for a device's path    *)
(* and its name: what is plugged in there later has them too.  All ports   *)
(* are ttys'; udev is asked for no others.                                 *)
(***************************************************************************)
EXTENDS Naturals, Sequences, FiniteSets, SequencesExt

CONSTANTS
  Ports,    \* where devices can be
  Drivers,  \* the drivers the program uses
  Null,     \* the null pointer, and nothing in a port
  MaxPlugs, \* bound: devices plugged in
  MaxInits  \* bound: enumerations

\* The properties that are looked at; a device may lack a model.
Devices == [vendor : {"1199", "other"}, model : {"9071", "9091", Null},
            interface : {"03", "02"}]

\* What a driver has open; and, as a history, whether the device had been in
\* its port since the scan.
Handles == [port : Ports, device : Devices, steady : BOOLEAN]

ASSUME DiscoveryAssumption ==
  /\ IsFiniteSet(Ports)
  /\ Drivers \subseteq {"em7565", "mc7455"}
  /\ Null \notin Devices \cup Handles
  /\ MaxPlugs \in Nat /\ MaxInits \in Nat

VARIABLES
  plugged,  \* the device in each port
  steady,   \* history: the ports that are as they were at the last scan
  pc,       \* where the program is, "idle" outside of the library
  driver,   \* the driver that enumerates
  first,    \* it is to initialize the first device
  todo,     \* the ports found by the scan and not yet looked at
  list,     \* the list of devices: a sequence of ports
  udev,     \* udev objects referenced
  entries,  \* entries of lists allocated
  handle,   \* what each driver has open
  ttys,     \* handles of the AT interface allocated
  fds,      \* file descriptors open
  failed,   \* history: how many opens failed with a handle allocated
  plugs, inits  \* how many devices were plugged in, and enumerations made

world == <<plugged, steady, plugs>>
memory == <<udev, entries, ttys, fds>>
vars == <<world, pc, driver, first, todo, list, memory, handle, failed, inits>>

Init ==
  /\ plugged = [p \in Ports |-> Null] /\ steady = Ports
  /\ pc = "idle" /\ driver \in Drivers /\ first = FALSE
  /\ todo = <<>> /\ list = <<>> /\ udev = {} /\ entries = 0
  /\ handle = [d \in Drivers |-> Null] /\ ttys = 0 /\ fds = 0 /\ failed = 0
  /\ plugs = 0 /\ inits = 0

-----------------------------------------------------------------------------
(* The world                                                               *)

Plug(p) ==
  /\ plugged[p] = Null /\ plugs < MaxPlugs
  /\ \E device \in Devices : plugged' = [plugged EXCEPT ![p] = device]
  /\ steady' = steady \ {p}
  /\ plugs' = plugs + 1
  /\ UNCHANGED <<pc, driver, first, todo, list, memory, handle, failed, inits>>

Unplug(p) ==
  /\ plugged[p] # Null
  /\ plugged' = [plugged EXCEPT ![p] = Null]
  /\ steady' = steady \ {p}
  /\ UNCHANGED <<plugs, pc, driver, first, todo, list, memory, handle, failed, inits>>

-----------------------------------------------------------------------------
(* enumerate_supported_devices                                             *)

Model(d) == IF d = "em7565" THEN "9091" ELSE "9071"

Scanned(device) == device # Null /\ device.vendor = "1199"

\* A device that is gone has no properties, one without the property no match.
Matches(device, d) ==
  /\ device # Null
  /\ device.model = Model(d)
  /\ device.interface = "03"

\* For a list, or for the first device when the driver has none open.
Enumerate(d, forFirst) ==
  /\ pc = "idle" /\ inits < MaxInits
  /\ forFirst => handle[d] = Null
  /\ pc' = "look" /\ driver' = d /\ first' = forFirst
  /\ udev' = {"udev", "enumerate"}
  /\ todo' \in SetToSeqs({p \in Ports : Scanned(plugged[p])})
  /\ steady' = Ports
  /\ inits' = inits + 1
  /\ UNCHANGED <<plugged, plugs, list, entries, ttys, fds, handle, failed>>

\* Mutant: the interface is not compared.
LookAnyInterface ==
  /\ pc = "look" /\ todo # <<>>
  /\ todo' = Tail(todo)
  /\ IF plugged[Head(todo)] # Null /\ plugged[Head(todo)].model = Model(driver)
     THEN list' = <<Head(todo)>> \o list /\ entries' = entries + 1
     ELSE UNCHANGED <<list, entries>>
  /\ UNCHANGED <<world, pc, driver, first, udev, ttys, fds, handle, failed, inits>>

\* The device that is in the port by now goes to the front of the list.
Look ==
  /\ pc = "look" /\ todo # <<>>
  /\ todo' = Tail(todo)
  /\ IF Matches(plugged[Head(todo)], driver)
     THEN list' = <<Head(todo)>> \o list /\ entries' = entries + 1
     ELSE UNCHANGED <<list, entries>>
  /\ UNCHANGED <<world, pc, driver, first, udev, ttys, fds, handle, failed, inits>>

\* A device that matches is gone when its name is read, or there is no memory for
\* its entry: a null pointer is copied from, or to.
LookCrashes ==
  /\ pc = "look" /\ todo # <<>>
  /\ Matches(plugged[Head(todo)], driver)
  /\ pc' = "crashed"
  /\ UNCHANGED <<world, driver, first, todo, list, memory, handle, failed, inits>>

Listed ==
  /\ pc = "look" /\ todo = <<>>
  /\ udev' = {}
  /\ pc' = "listed"
  /\ UNCHANGED <<world, driver, first, todo, list, entries, ttys, fds, handle, failed, inits>>

\* Mutant: only the first entry of the list is freed.
FreeFirst ==
  /\ pc = "free" \/ (pc = "listed" /\ (first => list = <<>>))
  /\ entries' = IF list = <<>> THEN entries ELSE entries - 1
  /\ list' = <<>>
  /\ pc' = "idle"
  /\ UNCHANGED <<world, driver, first, todo, udev, ttys, fds, handle, failed, inits>>

\* enumerate_supported_devices_free: after the device is initialized, or when
\* there is none, or the program has seen the list.
FreeList ==
  /\ pc = "free" \/ (pc = "listed" /\ (first => list = <<>>))
  /\ entries' = entries - Len(list)
  /\ list' = <<>>
  /\ pc' = "idle"
  /\ UNCHANGED <<world, driver, first, todo, udev, ttys, fds, handle, failed, inits>>

-----------------------------------------------------------------------------
(* init and destroy                                                        *)

\* The first device of the list is to be opened.
InitFirst ==
  /\ pc = "listed" /\ first /\ list # <<>>
  /\ pc' = "init"
  /\ UNCHANGED <<world, driver, first, todo, list, memory, handle, failed, inits>>

\* Without memory for its own handle the driver writes to it all the same.
NoMemoryForHandle ==
  /\ pc = "init"
  /\ pc' = "crashed"
  /\ UNCHANGED <<world, driver, first, todo, list, memory, handle, failed, inits>>

\* Whatever is in the port by now is opened.
Open ==
  /\ pc = "init"
  /\ plugged[Head(list)] # Null
  /\ handle' = [handle EXCEPT ![driver] =
       [port |-> Head(list), device |-> plugged[Head(list)], steady |-> Head(list) \in steady]]
  /\ ttys' = ttys + 1 /\ fds' = fds + 1
  /\ pc' = "free"
  /\ UNCHANGED <<world, driver, first, todo, list, udev, entries, failed, inits>>

\* No memory for the handle of the AT interface.
OpenNothing ==
  /\ pc = "init"
  /\ pc' = "free"
  /\ UNCHANGED <<world, driver, first, todo, list, memory, handle, failed, inits>>

\* No memory for its strings, or the port cannot be opened: the handle is lost.
OpenFails ==
  /\ pc = "init"
  /\ ttys' = ttys + 1
  /\ failed' = failed + 1
  /\ pc' = "free"
  /\ UNCHANGED <<world, driver, first, todo, list, udev, entries, fds, handle, inits>>

Destroy(d) ==
  /\ pc = "idle" /\ handle[d] # Null
  /\ handle' = [handle EXCEPT ![d] = Null]
  /\ ttys' = ttys - 1 /\ fds' = fds - 1
  /\ UNCHANGED <<world, pc, driver, first, todo, list, udev, entries, failed, inits>>

Library ==
  \/ Look \/ LookCrashes \/ Listed \/ FreeList
  \/ InitFirst \/ NoMemoryForHandle \/ Open \/ OpenNothing \/ OpenFails

Next ==
  \/ \E p \in Ports : Plug(p) \/ Unplug(p)
  \/ \E d \in Drivers : Destroy(d) \/ \E forFirst \in BOOLEAN : Enumerate(d, forFirst)
  \/ Library

Spec == Init /\ [][Next]_vars

-----------------------------------------------------------------------------
(* Properties                                                              *)

\* With devices coming and going during the enumeration, a device that was
\* there all the time is in the list, once, exactly when it is one of the
\* driver's (enumerate.c:95-111).
ListExact ==
  pc = "listed" =>
    /\ \A p \in steady :
         Cardinality({i \in DOMAIN list : list[i] = p}) =
           IF Scanned(plugged[p]) /\ Matches(plugged[p], driver) THEN 1 ELSE 0
    /\ entries = Len(list)

\* What a driver has open is one of its devices, unless it was plugged in
\* after the scan: between the list and the open nothing holds the device
\* (at_sierra_wireless_em7565.c:62-67).
OpensItsDevice ==
  \A d \in Drivers :
    handle[d] # Null /\ handle[d].steady =>
      Scanned(handle[d].device) /\ Matches(handle[d].device, d)

\* Outside of the library everything is released but what the handles have,
\* and for each failed open one handle of the AT interface: its error paths
\* do not free it (at_interface.c:35-58).  traffic_test, which tries again
\* after a failed open, loses that much with each try.
OnlyFailedOpensLeak ==
  LET open == Cardinality({d \in Drivers : handle[d] # Null})
  IN pc = "idle" => /\ udev = {} /\ entries = 0
                    /\ ttys = open + failed /\ fds = open

=============================================================================

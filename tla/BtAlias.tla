------------------------------- MODULE BtAlias -------------------------------
(***************************************************************************)
(* The name that the gadget gives itself: the alias of the phone connected *)
(* over Bluetooth.  A goroutine asks BlueZ for it every minute, keeps it in *)
(* btAlias and in a file; the program may be killed, as a car's ignition   *)
(* does, and starts from the file.                                         *)
(*                                                                         *)
(* A device stands for its path and its alias.  BlueZ lists the devices in *)
(* the order of their numbers.  Each call to it and each system call on the *)
(* file is a step.                                                         *)
(***************************************************************************)
EXTENDS Integers

CONSTANTS
    Devices,       \* the paired devices, numbered
    MaxFaults      \* bound on kills of the program and failing calls together

ASSUME BtAliasAssumption ==
    /\ Devices \subseteq Nat \ {0}
    /\ MaxFaults \in Nat

VARIABLES
    pc,           \* of the goroutine; "down" while the program is not running
    value,        \* btAlias.value, None if ""
    file,         \* btAliasFile: NoFile, Empty, or what is written in it
    paths,        \* devicePaths not yet looked at
    fallback,     \* first alias of the scan, None if ""
    connected,    \* the devices that are connected (external)
    seen,         \* the devices found connected so far (ghost)
    faults        \* counter for the bound

None == 0
NoFile == -1
Empty == -2

refresh == <<paths, fallback>>
vars == <<pc, value, file, refresh, connected, seen, faults>>

Init ==
    /\ pc = "down"
    /\ value = None
    /\ file = NoFile
    /\ paths = {} /\ fallback = None
    /\ connected \in SUBSET Devices
    /\ seen = {}
    /\ faults = 0

-----------------------------------------------------------------------------
(* startBTAliasRefresher. *)

\* Mutation of Load: an empty file is an alias too.
LoadUnchecked == IF file = NoFile THEN None ELSE file

\* loadPersistedBTAlias.
Load == IF file \in {NoFile, Empty} THEN None ELSE file

StartUp ==
    /\ pc = "down"
    /\ value' = Load
    /\ pc' = "wait"
    /\ UNCHANGED <<file, refresh, connected, seen, faults>>

\* refreshBTAlias: "busctl tree" lists the devices.  Where it fails, nothing
\* happens until the next minute.
ListDevices ==
    /\ pc = "wait"
    /\ paths' = Devices
    /\ fallback' = None
    /\ pc' = "scan"
    /\ UNCHANGED <<value, file, connected, seen, faults>>

\* A call to BlueZ or to the file system fails, or the program is killed.
Fault ==
    /\ faults < MaxFaults
    /\ faults' = faults + 1

First(d) == d \in paths /\ \A e \in paths : d <= e

\* getProps returns no alias.
GetPropsFails(d) ==
    /\ pc = "scan" /\ First(d)
    /\ Fault
    /\ paths' = paths \ {d}
    /\ UNCHANGED <<pc, value, file, fallback, connected, seen>>

FindConnected(d) ==
    /\ pc = "scan" /\ First(d)
    /\ d \in connected
    /\ value' = d
    /\ seen' = seen \cup {d}
    /\ pc' = "persist"
    /\ paths' = {} /\ fallback' = None
    /\ UNCHANGED <<file, connected, faults>>

\* Mutation of PassBy: the scan ends at the first device.
PassByEnds(d) ==
    /\ pc = "scan" /\ First(d)
    /\ d \notin connected
    /\ paths' = {}
    /\ fallback' = IF fallback = None THEN d ELSE fallback
    /\ UNCHANGED <<pc, value, file, connected, seen, faults>>

PassBy(d) ==
    /\ pc = "scan" /\ First(d)
    /\ d \notin connected
    /\ paths' = paths \ {d}
    /\ fallback' = IF fallback = None THEN d ELSE fallback
    /\ UNCHANGED <<pc, value, file, connected, seen, faults>>

\* Mutation of FallBack: the fallback goes to the file too.
FallBackPersists ==
    /\ pc = "scan" /\ paths = {}
    /\ value' = IF fallback = None THEN value ELSE fallback
    /\ pc' = IF fallback = None THEN "wait" ELSE "persist"
    /\ UNCHANGED <<file, refresh, connected, seen, faults>>

\* No device is connected: the first one in the list, in memory only.
FallBack ==
    /\ pc = "scan" /\ paths = {}
    /\ value' = IF fallback = None THEN value ELSE fallback
    /\ pc' = "wait"
    /\ fallback' = None
    /\ UNCHANGED <<file, paths, connected, seen, faults>>

\* persistBTAlias: os.WriteFile empties the file, then writes it.
Truncate ==
    /\ pc = "persist"
    /\ file' = Empty
    /\ pc' = "write"
    /\ UNCHANGED <<value, refresh, connected, seen, faults>>

Write ==
    /\ pc = "write"
    /\ file' = value
    /\ pc' = "wait"
    /\ UNCHANGED <<value, refresh, connected, seen, faults>>

\* No directory, no file, or no space for the alias.
PersistFails ==
    /\ pc \in {"persist", "write"}
    /\ Fault
    /\ pc' = "wait"
    /\ UNCHANGED <<value, file, refresh, connected, seen>>

-----------------------------------------------------------------------------
(* Outside (external). *)

Kill ==
    /\ pc # "down"
    /\ Fault
    /\ pc' = "down"
    /\ value' = None
    /\ paths' = {} /\ fallback' = None
    /\ UNCHANGED <<file, connected, seen>>

Connection(d) ==
    /\ connected' \in {connected \cup {d}, connected \ {d}}
    /\ UNCHANGED <<pc, value, file, refresh, seen, faults>>

-----------------------------------------------------------------------------
Scan == \E d \in Devices : FindConnected(d) \/ PassBy(d)

Next ==
    \/ StartUp \/ ListDevices
    \/ Scan \/ \E d \in Devices : GetPropsFails(d)
    \/ FallBack \/ Truncate \/ Write \/ PersistFails
    \/ Kill \/ \E d \in Devices : Connection(d)

Spec == Init /\ [][Next]_vars

\* The program is started again, the ticker ticks, and calls return.
FairSpec ==
    /\ Spec
    /\ WF_vars(StartUp) /\ WF_vars(ListDevices)
    /\ WF_vars(Scan \/ FallBack) /\ WF_vars(Truncate \/ Write)

-----------------------------------------------------------------------------
(* Correctness. *)

\* Every variable has its type; the name is never an empty one from the file.
TypeOK ==
    /\ pc \in {"down", "wait", "scan", "persist", "write"}
    /\ value \in Devices \cup {None}
    /\ file \in Devices \cup {NoFile, Empty}
    /\ paths \in SUBSET Devices
    /\ fallback \in Devices \cup {None}
    /\ connected \in SUBSET Devices
    /\ seen \in SUBSET Devices
    /\ faults \in 0..MaxFaults

\* The file never holds the name of a device that was only in the list, however
\* kills and failing calls cut a refresh short.  ("btAliasFile is where the last
\* confirmed-connected device alias is persisted".)
FileConfirmed == file \in {NoFile, Empty} \cup seen

\* Once one device alone stays connected, it becomes and stays the name, and
\* the file holds it again and again (every refresh empties it for a moment),
\* whatever state kills left the file in.
Converges ==
    \A d \in Devices :
        <>[](connected = {d}) => <>[](value = d) /\ []<>(file = d)
=============================================================================

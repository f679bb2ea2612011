-------------------------------- MODULE Devs --------------------------------
(***************************************************************************)
(* The device table of libu2f-host (c_src/libu2f-host/devs.c): every call  *)
(* of u2fh_devs_discover enumerates the HID devices, pings the ones it has *)
(* open, opens and initialises the others, and closes those that are gone. *)
(* Entries are marked dead, never removed, except that of a device whose   *)
(* initialisation fails, which is the last one.                            *)
(*                                                                         *)
(* Pinging, opening and initialising talk to the device, so devices may be *)
(* plugged and unplugged between any two of these steps.  hidapi and the   *)
(* devices are external: a call on a device that is present may fail, one  *)
(* on a device that is not present, or was replugged since it was opened,  *)
(* does.                                                                   *)
(***************************************************************************)
EXTENDS Integers, Sequences, FiniteSets

CONSTANTS
    Paths,          \* the HID paths a device may show up under
    NoPath,         \* no device is being visited
    MaxPlugs,       \* bound: devices plugged in after the start
    MaxCalls        \* bound: calls of u2fh_devs_discover

PathsAssumption == IsFiniteSet(Paths) /\ NoPath \notin Paths
MaxPlugsAssumption == MaxPlugs \in Nat
MaxCallsAssumption == MaxCalls \in Nat \ {0}

VARIABLES
    plugged,        \* the paths at which a device is present
    plugs,          \* devices plugged in so far
    calls,          \* calls of u2fh_devs_discover so far
    pc,             \* the next step of discover; "idle" outside of it
    listed,         \* di: the enumeration
    todo,           \* the part of di not yet visited
    path,           \* cur_dev->path while it is visited
    res,            \* what discover will return, or returned last
    table,          \* devs->devs[0 .. num_devices - 1]
    handles,        \* the number of hid handles that are open
    maxIndex        \* *max_index

vars == <<plugged, plugs, calls, pc, listed, todo, path, res, table, handles,
          maxIndex>>

Entry == [path: Paths, alive: BOOLEAN,
          fresh: BOOLEAN]   \* still the device its handle was opened on

Alive == {i \in DOMAIN table : table[i].alive}
AliveAt(p) == {i \in Alive : table[i].path = p}

TypeOK ==
    /\ plugged \subseteq Paths
    /\ plugs \in 0 .. MaxPlugs
    /\ calls \in 0 .. MaxCalls
    /\ pc \in {"idle", "visit", "probe", "open", "init", "sweep", "done"}
    /\ listed \subseteq Paths
    /\ todo \subseteq listed
    /\ path \in Paths \cup {NoPath}
    /\ res \in {"OK", "NO_U2F_DEVICE", "MEMORY_ERROR"}
    /\ table \in Seq(Entry)
    /\ handles \in Int
    /\ maxIndex \in Int

Init ==
    /\ plugged \in SUBSET Paths
    /\ plugs = 0
    /\ calls = 0
    /\ pc = "idle"
    /\ listed = {}
    /\ todo = {}
    /\ path = NoPath
    /\ res = "NO_U2F_DEVICE"
    /\ table = <<>>
    /\ handles = 0
    /\ maxIndex = -1

Return(rc) ==
    /\ res' = rc
    /\ pc' = "idle"
    /\ todo' = {}
    /\ path' = NoPath

devVars == <<plugged, plugs>>
callVars == <<calls, listed>>

-----------------------------------------------------------------------------
(* hid_enumerate.                                                          *)
Discover ==
    /\ pc = "idle"
    /\ calls < MaxCalls
    /\ calls' = calls + 1
    /\ listed' = plugged
    /\ todo' = plugged
    /\ res' = "NO_U2F_DEVICE"
    /\ pc' = "visit"
    /\ UNCHANGED <<devVars, path, table, handles, maxIndex>>

(* The loop over the enumeration; its order is hidapi's.                   *)
Visit ==
    /\ pc = "visit"
    /\ IF todo = {}
       THEN pc' = "sweep" /\ UNCHANGED <<todo, path>>
       ELSE \E p \in todo :
               /\ path' = p
               /\ todo' = todo \ {p}
               /\ pc' = IF AliveAt(p) # {} THEN "probe" ELSE "open"
    /\ UNCHANGED <<devVars, callVars, res, table, handles, maxIndex>>

First(indices) == CHOOSE i \in indices : \A j \in indices : i <= j

(* Each preceded by a faulty variant that only shows a property notices.   *)
Closed(i) == [table EXCEPT ![i].alive = FALSE]

HandleLeft == handles
HandleClosed == handles - 1

(* ping_device of the entry that is open at this path, or close_device and *)
(* a new attempt to open it.                                               *)
Ping ==
    LET i == First(AliveAt(path)) IN
    /\ pc = "probe"
    /\ \/ /\ table[i].fresh /\ path \in plugged
          /\ res' = "OK"
          /\ pc' = "visit"
          /\ UNCHANGED <<table, handles>>
       \/ /\ table' = Closed(i)
          /\ handles' = HandleClosed
          /\ pc' = "open"
          /\ UNCHANGED res
    /\ UNCHANGED <<devVars, callVars, todo, path, maxIndex>>

NewEntry == [path |-> path, alive |-> TRUE, fresh |-> TRUE]

(* get_usages, hid_open_path and strdup: not a U2F device or not openable, *)
(* out of memory, or a new last entry.                                     *)
Open ==
    /\ pc = "open"
    /\ \/ pc' = "visit" /\ UNCHANGED <<res, todo, path, table, handles>>
       \/ /\ path \in plugged
          /\ Return("MEMORY_ERROR")
          /\ UNCHANGED <<table, handles>>
       \/ /\ path \in plugged
          /\ table' = Append(table, NewEntry)
          /\ handles' = handles + 1
          /\ pc' = "init"
          /\ UNCHANGED <<res, todo, path>>
    /\ UNCHANGED <<devVars, callVars, maxIndex>>

Front(s) == SubSeq(s, 1, Len(s) - 1)

WithoutFailed == Front(table)

(* init_device: the entry stays, is closed and dropped, or stays dead when *)
(* there is no memory for its description.                                 *)
InitDevice ==
    /\ pc = "init"
    /\ \/ /\ table[Len(table)].fresh /\ path \in plugged
          /\ res' = "OK"
          /\ pc' = "visit"
          /\ UNCHANGED <<todo, path, table, handles>>
       \/ /\ table' = WithoutFailed
          /\ handles' = handles - 1
          /\ pc' = "visit"
          /\ UNCHANGED <<res, todo, path>>
       \/ /\ table[Len(table)].fresh /\ path \in plugged
          /\ Return("MEMORY_ERROR")
          /\ table' = Closed(Len(table))
          /\ handles' = handles - 1
    /\ UNCHANGED <<devVars, callVars, maxIndex>>

(* Preceded by a faulty variant that only shows that a property notices.   *)
NothingLooksDead == {}
LooksDead == {i \in Alive : table[i].path \notin listed}

(* The second loop: entries whose path was not enumerated are closed.      *)
Sweep ==
    /\ pc = "sweep"
    /\ table' = [i \in DOMAIN table |->
                    IF i \in LooksDead THEN [table[i] EXCEPT !.alive = FALSE]
                                       ELSE table[i]]
    /\ handles' = handles - Cardinality(LooksDead)
    /\ maxIndex' = IF res = "OK" THEN Len(table) - 1 ELSE maxIndex
    /\ Return(res)
    /\ UNCHANGED <<devVars, callVars>>

(* u2fh_devs_done.                                                         *)
Done ==
    /\ pc = "idle"
    /\ table' = <<>>
    /\ handles' = handles - Cardinality(Alive)
    /\ pc' = "done"
    /\ UNCHANGED <<devVars, callVars, todo, path, res, maxIndex>>

-----------------------------------------------------------------------------
Unplug(p) ==
    /\ p \in plugged
    /\ plugged' = plugged \ {p}
    /\ table' = [i \in DOMAIN table |->
                    IF table[i].path = p THEN [table[i] EXCEPT !.fresh = FALSE]
                                         ELSE table[i]]
    /\ UNCHANGED <<plugs, callVars, pc, todo, path, res, handles, maxIndex>>

Plug(p) ==
    /\ p \notin plugged
    /\ plugs < MaxPlugs
    /\ plugs' = plugs + 1
    /\ plugged' = plugged \cup {p}
    /\ UNCHANGED <<callVars, pc, todo, path, res, table, handles, maxIndex>>

Next ==
    \/ Discover \/ Visit \/ Ping \/ Open \/ InitDevice \/ Sweep \/ Done
    \/ \E p \in Paths : Unplug(p) \/ Plug(p)

Spec == Init /\ [][Next]_vars

-----------------------------------------------------------------------------
(* Every open handle has exactly one live entry and every live entry an    *)
(* open handle, on every path through discover, failing ones included: no  *)
(* handle leaks and none is closed twice.                                  *)
HandlesOwned == handles = Cardinality(Alive)

(* No device is open twice: a path has at most one live entry, although    *)
(* dead entries for it stay in the table and it is reopened in the middle  *)
(* of a call.                                                              *)
OneEntryPerPath == \A p \in Paths : Cardinality(AliveAt(p)) <= 1

(* The table has the shape it should: the types, the handles, the paths.   *)
EntriesOwned == TypeOK /\ HandlesOwned /\ OneEntryPerPath

(* u2fh_register and u2fh_authenticate loop over the live entries and read *)
(* "len" afterwards, which only that loop sets: OK must leave a live entry *)
(* - and NO_U2F_DEVICE must leave none, or a device in use is forgotten.   *)
ResultFits ==
    pc = "idle" /\ calls > 0 =>
        /\ res = "OK" => Alive # {}
        /\ res = "NO_U2F_DEVICE" => Alive = {}

(* What devs.c:254-257 says of max_index: with one device 0, with two 1.   *)
MaxIndexCounts ==
    pc = "idle" /\ calls > 0 /\ res = "OK" => maxIndex = Cardinality(Alive) - 1

=============================================================================

------------------------------ MODULE WinDevice -------------------------------
(***************************************************************************)
(* hidapi on Windows (c_src/hidapi/hid-win.c): the list that hid_enumerate *)
(* builds, the device hid_open picks from it, and the opening of a device, *)
(* each call of which may fail.  A device may be unplugged between any two *)
(* calls.  Of reads, WinReader tells.                                      *)
(***************************************************************************)
EXTENDS Naturals, Sequences

CONSTANTS
    N,              \* number of devices
    Kinds,          \* what Windows knows of a device, see KindAssumption
    Callers         \* what hidapi is asked

\* serial 0: it has none, or hid_open is given none; vendor 0: any
KindAssumption ==
    Kinds \subseteq [class : {"none", "HIDClass", "other"}, driver : BOOLEAN,
                     openable : BOOLEAN, vendor : Nat \ {0}, serial : Nat]
CallerAssumption ==
    Callers \subseteq [call : {"enumerate", "open"}, vendor : Nat, serial : Nat]

Devices == 1 .. N
Vendors == {k.vendor : k \in Kinds}

VARIABLES
    kind, caller,
    plugged,
    pc, i,          \* where hidapi is, the device it is at
    list,           \* the entries made, from root on
    held,           \* blocks, handles and preparsed data not given back
    path,           \* path_to_open
    handle          \* the device open, 0 for none

vars == <<kind, caller, plugged, pc, i, list, held, path, handle>>

Things == {"detail", "query", "entry",              \* of hid_enumerate
           "dev", "device", "preparsed", "buffer"}  \* of an open device

TypeOK ==
    /\ kind \in [Devices -> Kinds] /\ caller \in Callers
    /\ plugged \subseteq Devices
    /\ pc \in {"detail", "driver", "query", "attributes", "fill", "cont_close",
               "cont", "listed", "choose", "new", "create", "buffers", "preparsed",
               "caps", "err_pp_data", "err", "free", "open", "done", "crashed"}
    /\ i \in 1 .. N + 1
    /\ list \in Seq([dev : Devices, vendor : Vendors, serial : Nat])
    /\ held \subseteq Devices \X Things
    /\ path \in 0 .. N /\ handle \in 0 .. N

Init ==
    /\ kind \in [Devices -> Kinds] /\ caller \in Callers
    /\ plugged = Devices
    /\ pc = "detail" /\ i = 1
    /\ list = <<>> /\ held = {}
    /\ path = 0 /\ handle = 0

given == <<kind, caller, plugged>>
Go(from, to) == pc = from /\ pc' = to
Take(d, S) == held' = held \cup ({d} \X S)
GiveBack(d, S) == held' = held \ ({d} \X S)

-----------------------------------------------------------------------------
(* hid_enumerate.  The detail of the interface, with the path.             *)
More == i <= N

Detail ==
    /\ pc = "detail" /\ More
    /\ Take(i, {"detail"})
    /\ pc' \in {"driver"} \cup (IF i \in plugged THEN {} ELSE {"cont"})
    /\ UNCHANGED <<given, i, list, path, handle>>

(* The loop over the devices of the whole set: it stops at the first of    *)
(* class HIDClass with a driver, and fails at one without a class.         *)
DriverBound(d) == kind[d].class = "HIDClass" /\ kind[d].driver
SetHasDriver ==
    \E d \in Devices : DriverBound(d) /\ \A e \in 1 .. d - 1 : kind[e].class # "none"

Driver ==
    /\ Go("driver", IF SetHasDriver THEN "query" ELSE "cont")
    /\ UNCHANGED <<given, i, list, held, path, handle>>

OpenQuery ==
    /\ LET opens == i \in plugged /\ kind[i].openable IN
         /\ Go("query", IF opens THEN "attributes" ELSE "cont_close")
         /\ Take(i, IF opens THEN {"query"} ELSE {})
    /\ UNCHANGED <<given, i, list, path, handle>>

(* The result of HidD_GetAttributes is not looked at: attrib then holds    *)
(* anything, and that is compared and stored.                              *)
Fits(vendor) == caller.vendor \in {0, vendor}

Attributes ==
    /\ \E vendor \in IF i \in plugged THEN {kind[i].vendor} ELSE Vendors :
         IF Fits(vendor)
         THEN /\ Go("attributes", "fill")
              /\ list' = Append(list, [dev |-> i, vendor |-> vendor, serial |-> 0])
              /\ Take(i, {"entry"})
         ELSE Go("attributes", "cont_close") /\ UNCHANGED <<list, held>>
    /\ UNCHANGED <<given, i, path, handle>>

Fill ==
    /\ Go("fill", "cont_close")
    /\ list' = [list EXCEPT ![Len(list)].serial = IF i \in plugged THEN kind[i].serial ELSE 0]
    /\ UNCHANGED <<given, i, held, path, handle>>

Query == {"query"}

ContClose ==
    /\ Go("cont_close", "cont")
    /\ GiveBack(i, Query)
    /\ UNCHANGED <<given, i, list, path, handle>>

Cont ==
    /\ Go("cont", "detail")
    /\ GiveBack(i, {"detail"})
    /\ i' = i + 1
    /\ UNCHANGED <<given, list, path, handle>>

EndEnumerate ==
    /\ ~More
    /\ Go("detail", IF caller.call = "open" THEN "choose" ELSE "listed")
    /\ UNCHANGED <<given, i, list, held, path, handle>>

(* hid_open: the first entry of the vendor with the serial number.  An     *)
(* entry without one has a NULL there, on which wcscmp crashes.  Preceded  *)
(* by a variant that compares serial numbers only.                         *)
AnyVendor(e) == caller.serial = 0 \/ e.serial \in {0, caller.serial}
Matches(e) ==
    /\ e.vendor = caller.vendor
    /\ caller.serial = 0 \/ e.serial \in {0, caller.serial}

Stops == {k \in DOMAIN list : Matches(list[k])}

Choose ==
    /\ IF Stops = {}
       THEN Go("choose", "free") /\ UNCHANGED path
       ELSE LET k == CHOOSE k \in Stops : \A m \in Stops : k <= m IN
            IF caller.serial # 0 /\ list[k].serial = 0
            THEN Go("choose", "crashed") /\ UNCHANGED path
            ELSE Go("choose", "new") /\ path' = list[k].dev
    /\ UNCHANGED <<given, i, list, held, handle>>

(* hid_open_path.  Every call may fail, as when the device is in use or     *)
(* closed to the caller, and does once the device is gone.                 *)
NewDevice ==
    /\ Go("new", "create")
    /\ Take(path, {"dev"})
    /\ UNCHANGED <<given, i, list, path, handle>>

Call(from, to, failure, S) ==
    /\ \/ path \in plugged /\ Go(from, to) /\ Take(path, S)
       \/ Go(from, failure) /\ UNCHANGED held
    /\ UNCHANGED <<given, i, list, path, handle>>

CreateFile == Call("create", "buffers", "err", {"device"})
SetNumInputBuffers == Call("buffers", "preparsed", "err", {})
GetPreparsedData == Call("preparsed", "caps", "err", {"preparsed"})

FailCaps == "err_pp_data"

GetCaps ==
    /\ \/ /\ Go("caps", "free")
          /\ held' = (held \ {<<path, "preparsed">>}) \cup {<<path, "buffer">>}
          /\ handle' = path
       \/ Go("caps", FailCaps) /\ UNCHANGED <<held, handle>>
    /\ UNCHANGED <<given, i, list, path>>

ErrPpData ==
    /\ Go("err_pp_data", "err")
    /\ GiveBack(path, {"preparsed"})
    /\ UNCHANGED <<given, i, list, path, handle>>

(* free_hid_device, also at the end of hid_close.                          *)
OfDevice == {"dev", "device", "buffer"}

Err ==
    /\ Go("err", "free")
    /\ GiveBack(path, OfDevice)
    /\ UNCHANGED <<given, i, list, path, handle>>

FreeEnumeration ==
    /\ pc \in {"listed", "free"}
    /\ pc' = IF handle = 0 THEN "done" ELSE "open"
    /\ held' = held \ {<<list[k].dev, "entry">> : k \in DOMAIN list}
    /\ list' = <<>>
    /\ UNCHANGED <<given, i, path, handle>>

Close ==
    /\ Go("open", "done")
    /\ GiveBack(handle, OfDevice)
    /\ handle' = 0
    /\ UNCHANGED <<given, i, list, path>>

Unplug(d) ==
    /\ pc \notin {"done", "crashed"}
    /\ d \in plugged
    /\ plugged' = plugged \ {d}
    /\ UNCHANGED <<kind, caller, pc, i, list, held, path, handle>>

Next ==
    \/ Detail \/ Driver \/ OpenQuery \/ Attributes \/ Fill \/ ContClose \/ Cont
    \/ EndEnumerate \/ Choose \/ NewDevice \/ CreateFile \/ SetNumInputBuffers
    \/ GetPreparsedData \/ GetCaps \/ ErrPpData \/ Err \/ FreeEnumeration \/ Close
    \/ \E d \in Devices : Unplug(d)

Spec == Init /\ [][Next]_vars

-----------------------------------------------------------------------------
(* The list has each device once, in order, and only devices that could be *)
(* opened, under a vendor that was asked for; those that stayed plugged     *)
(* with their own vendor and serial number.  Of a driver it says what the   *)
(* comment on the loop over the set and the loop agree on: where no device  *)
(* has one bound, none is listed, and where every device has a class, each  *)
(* that has one bound, stayed plugged and can be opened is listed if it is  *)
(* of the vendor.                                                          *)
Wanted(d) == kind[d].openable /\ Fits(kind[d].vendor)

ListExact ==
    pc \in {"listed", "choose"} =>
        /\ \A k \in 2 .. Len(list) : list[k - 1].dev < list[k].dev
        /\ \A k \in DOMAIN list :
              /\ kind[list[k].dev].openable /\ Fits(list[k].vendor)
              /\ list[k].dev \in plugged =>
                    /\ list[k].vendor = kind[list[k].dev].vendor
                    /\ list[k].serial = kind[list[k].dev].serial
        /\ (\A e \in Devices : ~DriverBound(e)) => list = <<>>
        /\ (\A e \in Devices : kind[e].class # "none") =>
              \A d \in plugged : DriverBound(d) /\ Wanted(d) =>
                  \E k \in DOMAIN list : list[k].dev = d

(* Once a device was asked about it is closed again before the next: the   *)
(* later open with exclusive rights does not meet hidapi's own handle.     *)
OneHandle ==
    /\ pc \in {"detail", "cont", "create"} => \A d \in Devices : <<d, "query">> \notin held
    /\ \A d, e \in Devices : {<<d, "query">>, <<e, "query">>} \subseteq held => d = e

(* What was allocated or opened is given back, whichever call failed; an   *)
(* open device has its two handles and its buffer and nothing else.        *)
NothingLeft ==
    /\ pc = "done" => held = {}
    /\ pc = "open" => held = {handle} \X {"dev", "device", "buffer"}

(* An open device is of the vendor asked for, as far as it was there to be *)
(* asked, and never one that hid_open was given no vendor for.             *)
OpensWanted ==
    handle \in plugged =>
        /\ caller.call = "open"
        /\ kind[handle].vendor = caller.vendor
        /\ caller.serial \in {0, kind[handle].serial}

(* "Make sure this device is of Setup Class HIDClass and has a driver      *)
(* bound to it." Not what the code does: it looks at the devices in the    *)
(* order of the set, not at this one.                                      *)
ListedHaveDriver == \A k \in DOMAIN list : DriverBound(list[k].dev)

(* "Check the VID/PID to see if we should add this device to the           *)
(* enumeration list." Not what the code does of a device that goes away    *)
(* between the opening and the question: what it compares and stores is    *)
(* then not the vendor of any device.                                      *)
VendorOwn == \A k \in DOMAIN list : list[k].vendor = kind[list[k].dev].vendor

=============================================================================

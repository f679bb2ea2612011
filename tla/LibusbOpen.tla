------------------------------ MODULE LibusbOpen ------------------------------
(***************************************************************************)
(* How c_src/hidapi/hid-linux-libusb.c finds and opens a device: the list  *)
(* of hid_enumerate, the choice of hid_open, hid_open_path with the kernel *)
(* driver it detaches and the interface it claims, the reports sent and    *)
(* hid_close.  Devices are unplugged at any time; another program may hold *)
(* an interface.  What the read thread does is LibusbReader's matter.      *)
(*                                                                         *)
(* A device is a sequence of altsettings, each of an interface; a path is  *)
(* the device with the number of the interface.                            *)
(***************************************************************************)
EXTENDS Integers, Sequences, FiniteSets

CONSTANTS
    N,              \* number of devices
    Kinds           \* what a device may be

\* config "first": not configured, only its first configuration can be read
KindAssumption ==
    \A k \in Kinds :
       /\ k.config \in {"active", "first", "none"}
       /\ k.alts \in Seq([interface : Nat, hid : BOOLEAN, output : BOOLEAN])
       /\ k.vendor \in Nat \ {0} /\ k.serial \in Nat

Devices == 1 .. N
Paths == Devices \X (UNION {{k.alts[a].interface : a \in DOMAIN k.alts} : k \in Kinds})
NoPath == <<0, 0>>
Foreign == -1       \* a handle of another program

VARIABLES
    kind, wanted,   \* the devices; the vendor and serial number (0: NULL) asked for
    plugged,
    driver,         \* the interfaces that have a kernel driver
    claims,         \* the handle that has claimed an interface, 0 for none
    handles,        \* the devices of the handles opened and not closed, by handle
    threads,        \* the handles that a read thread was started with
    pc, d, a,       \* where, at which device and altsetting
    list,           \* the entries of hid_enumerate
    path,           \* path_to_open
    handle,         \* device_handle
    good_open,
    report          \* the last report sent: its length, what was returned

vars == <<kind, wanted, plugged, driver, claims, handles, threads, pc, d, a, list,
          path, handle, good_open, report>>

Alts(e) == IF e \in Devices THEN kind[e].alts ELSE <<>>
NoReport == [length |-> 0, ret |-> 0]

TypeOK ==
    /\ kind \in [Devices -> Kinds]
    /\ plugged \subseteq Devices /\ driver \subseteq Paths
    /\ claims \in [Paths -> {Foreign} \cup 0 .. Len(handles)]
    /\ handles \in Seq(0 .. N) /\ threads \subseteq DOMAIN handles
    /\ pc \in {"enum", "query", "strings", "choose", "find", "detach", "claim",
               "thread", "free", "open", "failed", "closed"}
    /\ d \in 1 .. N + 1 /\ a \in 1 .. Len(Alts(d)) + 1
    /\ list \in Seq([path : Paths, vendor : Nat, serial : Nat])
    /\ path \in Paths \cup {NoPath} /\ handle \in 0 .. Len(handles)
    /\ good_open \in BOOLEAN
    /\ report.length \in Nat /\ report.ret \in Int

Init ==
    /\ kind \in [Devices -> Kinds]
    /\ wanted \in [vendor : {kind[e].vendor : e \in Devices} \cup {0},
                   serial : {kind[e].serial : e \in Devices} \cup {0}]
    /\ plugged = Devices
    /\ driver \in {{}, Paths}
    /\ claims \in {[p \in Paths |-> 0]}
                    \cup {[q \in Paths |-> IF q = p THEN Foreign ELSE 0] : p \in Paths}
    /\ handles = <<>> /\ threads = {}
    /\ pc = "enum" /\ d = 1 /\ a = 1
    /\ list = <<>> /\ path = NoPath /\ handle = 0
    /\ good_open = FALSE /\ report = NoReport

given == <<kind, wanted, plugged>>
usb == <<driver, claims, handles, threads>>
device == <<handle, good_open, report>>

-----------------------------------------------------------------------------
(* libusb_open, _close and the places in the loops.                        *)
LibusbOpens(e) == e \in plugged
Opened(e) == Append(handles, e)
Closed(h) == [handles EXCEPT ![h] = 0]      \* the handle stays used up
Released(h) == [p \in Paths |-> IF claims[p] = h THEN 0 ELSE claims[p]]

NextAlt == a' = a + 1 /\ UNCHANGED d
NextDevice == d' = d + 1 /\ a' = 1

(* break: out of the altsettings of this interface.                        *)
BreakTo ==
    LET rest == {b \in a + 1 .. Len(Alts(d)) : Alts(d)[b].interface # Alts(d)[a].interface}
    IN  IF rest = {} THEN Len(Alts(d)) + 1 ELSE CHOOSE b \in rest : \A c \in rest : b <= c
Break == a' = BreakTo /\ UNCHANGED d

Here == <<d, Alts(d)[a].interface>>

(* hid_enumerate: an entry for each altsetting of class HID.               *)
Enumerates(e) == kind[e].config # "none"
VendorFits(v) == wanted.vendor \in {0, v}

Enumerate ==
    /\ pc = "enum" /\ d \in Devices
    /\ IF ~Enumerates(d) \/ a > Len(Alts(d))
       THEN NextDevice /\ UNCHANGED <<pc, list>>
       ELSE IF Alts(d)[a].hid /\ VendorFits(kind[d].vendor)
       THEN /\ list' = Append(list, [path |-> Here, vendor |-> kind[d].vendor, serial |-> 0])
            /\ pc' = "query"
            /\ UNCHANGED <<d, a>>
       ELSE NextAlt /\ UNCHANGED <<pc, list>>
    /\ UNCHANGED <<given, usb, path, device>>

Query ==
    /\ pc = "query"
    /\ IF LibusbOpens(d)
       THEN handles' = Opened(d) /\ pc' = "strings" /\ UNCHANGED <<d, a>>
       ELSE pc' = "enum" /\ NextAlt /\ UNCHANGED handles
    /\ UNCHANGED <<given, driver, claims, threads, list, path, device>>

ReadStrings ==
    /\ pc = "strings"
    /\ list' = [list EXCEPT ![Len(list)].serial = IF d \in plugged THEN kind[d].serial ELSE 0]
    /\ handles' = Closed(Len(handles))
    /\ pc' = "enum" /\ NextAlt
    /\ UNCHANGED <<given, driver, claims, threads, path, device>>

EndEnumerate ==
    /\ pc = "enum" /\ d \notin Devices
    /\ pc' = "choose"
    /\ UNCHANGED <<given, usb, d, a, list, path, device>>

(* hid_open.                                                               *)
Matches(e) == e.vendor = wanted.vendor /\ wanted.serial \in {0, e.serial}

Choose ==
    /\ pc = "choose"
    /\ LET fits == {k \in DOMAIN list : Matches(list[k])} IN
       IF fits = {}
       THEN pc' = "free" /\ UNCHANGED path
       ELSE /\ path' = list[CHOOSE k \in fits : \A m \in fits : k <= m].path
            /\ pc' = "find"
    /\ d' = 1 /\ a' = 1
    /\ UNCHANGED <<given, usb, list, device>>

-----------------------------------------------------------------------------
(* hid_open_path: the list of devices is gone through to its end, also     *)
(* after the path was found.                                               *)
Find ==
    /\ pc = "find" /\ d \in Devices
    /\ IF kind[d].config # "active" \/ a > Len(Alts(d))
       THEN NextDevice /\ UNCHANGED <<pc, handles, handle, good_open>>
       ELSE IF ~Alts(d)[a].hid \/ Here # path
       THEN NextAlt /\ UNCHANGED <<pc, handles, handle, good_open>>
       ELSE IF LibusbOpens(d)
       THEN /\ handles' = Opened(d)
            /\ handle' = Len(handles')
            /\ good_open' = TRUE
            /\ pc' = "detach"
            /\ UNCHANGED <<d, a>>
       ELSE Break /\ UNCHANGED <<pc, handles, handle, good_open>>
    /\ UNCHANGED <<given, driver, claims, threads, list, path, report>>

(* What a failed detach or claim undoes.  Preceded by a variant that       *)
(* forgets the handle.                                                     *)
KeepHandle(h) == handles
CloseHandle(h) == Closed(h)
NotGood == FALSE

Fail ==
    /\ handles' = CloseHandle(handle)
    /\ good_open' = NotGood
    /\ pc' = "find" /\ Break

Detach ==
    /\ pc = "detach"
    /\ \/ /\ Here \notin driver \/ d \in plugged
          /\ driver' = driver \ {Here}
          /\ pc' = "claim"
          /\ UNCHANGED <<handles, good_open, d, a>>
       \/ Here \in driver /\ Fail /\ UNCHANGED driver
    /\ UNCHANGED <<given, claims, threads, list, path, handle, report>>

Claim ==
    /\ pc = "claim"
    /\ IF claims[Here] = 0 /\ d \in plugged
       THEN /\ claims' = [claims EXCEPT ![Here] = handle]
            /\ pc' = "thread"
            /\ UNCHANGED <<handles, good_open, d, a>>
       ELSE Fail /\ UNCHANGED claims
    /\ UNCHANGED <<given, driver, threads, list, path, handle, report>>

(* pthread_create and the barrier; the loop goes on.                       *)
StartThread ==
    /\ pc = "thread"
    /\ threads' = threads \cup {handle}
    /\ pc' = "find" /\ NextAlt
    /\ UNCHANGED <<given, driver, claims, handles, list, path, device>>

EndFind ==
    /\ pc = "find" /\ d \notin Devices
    /\ pc' = "free"
    /\ UNCHANGED <<given, usb, d, a, list, path, device>>

FreeEnumeration ==
    /\ pc = "free"
    /\ list' = <<>>
    /\ pc' = IF good_open THEN "open" ELSE "failed"
    /\ UNCHANGED <<given, usb, d, a, path, device>>

(* hid_write and the feature reports: the number 0 is not sent, but it is  *)
(* counted.  Without an output endpoint the whole report goes as one, else *)
(* part of it may.                                                         *)
Counted(number) == IF number = 0 THEN 1 ELSE 0

HasOutput ==
    \E b \in DOMAIN Alts(path[1]) :
        /\ Alts(path[1])[b].interface = path[2] /\ Alts(path[1])[b].hid
        /\ Alts(path[1])[b].output

Send(number, length) ==
    /\ pc = "open"
    /\ LET sent == length - (IF number = 0 THEN 1 ELSE 0) IN
       \/ report' = [length |-> length, ret |-> -1]
       \/ /\ path[1] \in plugged
          /\ \E actual \in IF HasOutput THEN 0 .. sent ELSE {sent} :
                report' = [length |-> length, ret |-> actual + Counted(number)]
    /\ UNCHANGED <<given, usb, pc, d, a, list, path, handle, good_open>>

(* hid_close: the thread is joined, the interface released.                *)
Close ==
    /\ pc = "open"
    /\ threads' = threads \ {handle}
    /\ claims' = Released(handle)
    /\ handles' = Closed(handle)
    /\ pc' = "closed"
    /\ UNCHANGED <<given, driver, d, a, list, path, device>>

Unplug(e) ==
    /\ pc \notin {"failed", "closed"}
    /\ e \in plugged
    /\ plugged' = plugged \ {e}
    /\ UNCHANGED <<kind, wanted, usb, pc, d, a, list, path, device>>

Next ==
    \/ Enumerate \/ Query \/ ReadStrings \/ EndEnumerate \/ Choose
    \/ Find \/ Detach \/ Claim \/ StartThread \/ EndFind \/ FreeEnumeration
    \/ \E number \in {0, 1}, length \in {1, 3} : Send(number, length)
    \/ Close
    \/ \E e \in Devices : Unplug(e)

Spec == Init /\ [][Next]_vars

-----------------------------------------------------------------------------
OpenHandles == {h \in DOMAIN handles : handles[h] # 0}

(* hid_open opens the interface it was asked for and nothing else: one     *)
(* handle, that has claimed it from the kernel, with one read thread.      *)
OpensOne ==
    pc = "open" =>
        /\ OpenHandles = {handle} /\ threads = {handle}
        /\ handles[handle] = path[1]
        /\ {p \in Paths : claims[p] = handle} = {path} /\ path \notin driver
        /\ kind[path[1]].vendor = wanted.vendor

(* "Unable to open any devices": when NULL is returned nothing is open, no *)
(* interface is held, and no thread runs on the device that was freed.     *)
NullOpensNothing ==
    pc = "failed" =>
        /\ OpenHandles = {} /\ threads = {}
        /\ \A p \in Paths : claims[p] \in {0, Foreign}

(* The serial number was the one asked for.                                *)
SerialFits ==
    pc = "open" /\ wanted.serial # 0 => kind[path[1]].serial = wanted.serial

(* However a device is composed, the list is in order and complete: one    *)
(* entry for each altsetting of class HID of the vendor.                   *)
EntriesOf(e) ==
    IF kind[e].config = "none" \/ wanted.vendor \notin {0, kind[e].vendor} THEN 0
    ELSE Cardinality({b \in DOMAIN Alts(e) : Alts(e)[b].hid})

ListExact ==
    pc = "choose" =>
        /\ \A e \in Devices :
              Cardinality({k \in DOMAIN list : list[k].path[1] = e}) = EntriesOf(e)
        /\ \A k \in DOMAIN list : \A m \in 1 .. k - 1 : list[m].path[1] <= list[k].path[1]

(* A report is counted with its number, sent or not: a whole report is as  *)
(* long as what was passed, and nothing is longer.                         *)
CountsNumber ==
    /\ report.ret <= report.length
    /\ report.ret >= 0 /\ ~HasOutput => report.ret = report.length

(* After hid_close nothing of the device is held.                          *)
CloseReleases ==
    pc = "closed" =>
        OpenHandles = {} /\ threads = {} /\ \A p \in Paths : claims[p] \in {0, Foreign}

=============================================================================

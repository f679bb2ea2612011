------------------------------- MODULE Hidraw --------------------------------
(***************************************************************************)
(* hidapi over Linux hidraw (c_src/hidapi/hid-linux-hidraw.c): the list    *)
(* that hid_enumerate builds from what udev tells of each device, the      *)
(* device that hid_open picks from it, the strings of an open device and   *)
(* its reads.  A device may be unplugged between any two calls to udev.    *)
(*                                                                         *)
(* Devices are numbered in the order udev lists them; the list entry made  *)
(* for device d is d, and the blocks of memory that hang off it are        *)
(* <<d, field>>.                                                           *)
(***************************************************************************)
EXTENDS Integers, Sequences

CONSTANTS
    N,              \* number of devices
    Kinds,          \* what udev may know of a device, see KindAssumption
    Callers         \* what hidapi is asked: see CallerAssumption

KindAssumption ==
    Kinds \subseteq [initialised : BOOLEAN, hid : BOOLEAN,
                     uevent : SUBSET {"ID", "NAME", "UNIQ"},
                     bus : {"usb", "bluetooth", "other"},
                     usb : {"none", "bare", "full"},    \* the USB parent, and its strings
                     vendor : Nat \ {0}, serial : Nat]

\* vendor 0 is any vendor, serial 0 is the NULL of hid_open
CallerAssumption ==
    Callers \subseteq [call : {"enumerate", "open"}, vendor : Nat, serial : Nat]

Devices == 1 .. N

VARIABLES
    kind, caller,
    plugged,
    pc, i,              \* the call under way, the device it is at
    root, cur, prev,    \* the pointers of hid_enumerate, 0 for NULL
    next,               \* the next pointer of each entry
    fields,             \* the fields of each entry that point to a block
    heap,               \* the blocks allocated and not freed
    refs,               \* the udev objects held
    misuse,             \* a block was used or freed that is not in the heap
    path,               \* path_to_open
    handle,             \* the device open, 0 for none
    string              \* what hid_get_..._string did: what it returned, what it wrote

vars == <<kind, caller, plugged, pc, i, root, cur, prev, next, fields, heap,
          refs, misuse, path, handle, string>>

NoString == [ret |-> -1, wrote |-> FALSE]

TypeOK ==
    /\ kind \in [Devices -> Kinds] /\ caller \in Callers
    /\ plugged \subseteq Devices
    /\ pc \in {"take", "hid", "parse", "add", "usb", "next", "listed", "choose",
               "open", "free", "opened", "done", "crashed"}
    /\ i \in 1 .. N + 1
    /\ {root, cur, prev, path, handle} \subseteq 0 .. N
    /\ next \in [Devices -> 0 .. N]
    /\ fields \in [Devices -> SUBSET {"node", "path", "serial", "manufacturer", "product"}]
    /\ heap \subseteq Devices \X {"node", "path", "serial", "manufacturer", "product",
                                  "serial_utf8", "name_utf8"}
    /\ refs \subseteq Devices
    /\ misuse \in BOOLEAN
    /\ string \in [ret : {-1, 0, 1}, wrote : BOOLEAN]

Init ==
    /\ kind \in [Devices -> Kinds] /\ caller \in Callers
    /\ plugged = Devices
    /\ pc = "take" /\ i = 1
    /\ root = 0 /\ cur = 0 /\ prev = 0
    /\ next = [d \in Devices |-> 0]
    /\ fields = [d \in Devices |-> {}]
    /\ heap = {} /\ refs = {} /\ misuse = FALSE
    /\ path = 0 /\ handle = 0
    /\ string = NoString

enumeration == <<root, cur, prev, next, fields>>
memory == <<heap, misuse>>
opening == <<path, handle, string>>

Blocks(d, fs) == {d} \X fs
Free(S) == heap' = heap \ S /\ misuse' = (misuse \/ ~(S \subseteq heap))

(* The entries from e on; N + 1 of them at most, should they form a cycle. *)
ChainFrom(e) ==
    LET chain[k \in 0 .. N + 1] ==
            IF k = 0 THEN <<>>
            ELSE LET s == chain[k - 1]
                     n == IF s = <<>> THEN e ELSE next[s[Len(s)]]
                 IN  IF n = 0 THEN s ELSE Append(s, n)
    IN  chain[N + 1]
Listed == ChainFrom(root)

-----------------------------------------------------------------------------
(* udev_device_new_from_syspath and the test that udev is done with it.    *)
(* Preceded by a variant of the end of the list that is off by one.        *)
MoreInclusive == i <= N + 1
More == i <= N

Take ==
    /\ pc = "take" /\ More
    /\ refs' = refs \cup ({i} \cap plugged)
    /\ pc' = IF i \in plugged /\ kind[i].initialised THEN "hid" ELSE "next"
    /\ UNCHANGED <<kind, caller, plugged, i, memory, enumeration, opening>>

FindHid ==
    /\ pc = "hid"
    /\ pc' = IF i \in plugged /\ kind[i].hid THEN "parse" ELSE "next"
    /\ UNCHANGED <<kind, caller, plugged, i, memory, enumeration, refs, opening>>

(* parse_uevent_info: the file is gone when the device is, and strdup of   *)
(* NULL ends the program.  It says whether it found all three lines.       *)
UeventFound(d) == kind[d].uevent = {"ID", "NAME", "UNIQ"}

UeventBlocks(d) ==
    Blocks(d, (IF "NAME" \in kind[d].uevent THEN {"name_utf8"} ELSE {})
              \cup (IF "UNIQ" \in kind[d].uevent THEN {"serial_utf8"} ELSE {}))

ParseUevent ==
    /\ pc = "parse"
    /\ IF i \notin plugged
       THEN pc' = "crashed" /\ UNCHANGED heap
       ELSE /\ heap' = heap \cup UeventBlocks(i)
            /\ pc' = IF UeventFound(i) /\ kind[i].bus # "other" THEN "add" ELSE "next"
    /\ UNCHANGED <<kind, caller, plugged, i, misuse, enumeration, refs, opening>>

VendorFits(d) == caller.vendor \in {0, kind[d].vendor}

(* The entry goes to the end of the list.  A Bluetooth device is known     *)
(* already, of a USB device the parent is looked up next.                  *)
AddEntry ==
    /\ pc = "add"
    /\ IF ~VendorFits(i)
       THEN pc' = "next" /\ UNCHANGED <<enumeration, heap>>
       ELSE LET own == {"node", "path", "serial"}
                       \cup (IF kind[i].bus = "usb" THEN {} ELSE {"manufacturer", "product"})
            IN /\ next' = [next EXCEPT ![i] = 0, ![IF cur = 0 THEN i ELSE cur] = IF cur = 0 THEN 0 ELSE i]
               /\ root' = IF cur = 0 THEN i ELSE root
               /\ prev' = cur
               /\ cur' = i
               /\ fields' = [fields EXCEPT ![i] = own]
               /\ heap' = heap \cup Blocks(i, own)
               /\ pc' = IF kind[i].bus = "usb" THEN "usb" ELSE "next"
    /\ UNCHANGED <<kind, caller, plugged, i, misuse, refs, opening>>

(* Without a USB parent the entry is taken off again.  Preceded by a       *)
(* variant that forgets the link to it.                                    *)
UnlinkKeeps(d) == next
Unlink(d) == IF prev = 0 THEN next ELSE [next EXCEPT ![prev] = 0]
EntryBlocks(d) == Blocks(d, {"node", "path", "serial"})

FindUsb ==
    /\ pc = "usb"
    /\ IF i \in plugged /\ kind[i].usb # "none"
       THEN /\ LET own == IF kind[i].usb = "full" THEN {"manufacturer", "product"} ELSE {} IN
                 /\ fields' = [fields EXCEPT ![i] = @ \cup own]
                 /\ heap' = heap \cup Blocks(i, own)
            /\ UNCHANGED <<root, cur, prev, next, misuse>>
       ELSE /\ Free(EntryBlocks(i))
            /\ next' = Unlink(i)
            /\ cur' = prev
            /\ root' = IF prev = 0 THEN 0 ELSE root
            /\ UNCHANGED <<prev, fields>>
    /\ pc' = "next"
    /\ UNCHANGED <<kind, caller, plugged, i, refs, opening>>

(* The label next: what the turn of the loop held is let go.               *)
NextDevice ==
    /\ pc = "next"
    /\ Free(heap \cap Blocks(i, {"name_utf8", "serial_utf8"}))
    /\ refs' = refs \ {i}
    /\ i' = i + 1
    /\ pc' = "take"
    /\ UNCHANGED <<kind, caller, plugged, enumeration, opening>>

EndEnumerate ==
    /\ pc = "take" /\ ~More
    /\ pc' = IF caller.call = "open" THEN "choose" ELSE "listed"
    /\ UNCHANGED <<kind, caller, plugged, i, memory, enumeration, refs, opening>>

(* hid_open: the first entry of the vendor, with the serial number if one  *)
(* is given; any vendor is not a vendor here.                              *)
Fits(d) ==
    /\ kind[d].vendor = caller.vendor
    /\ caller.serial \in {0, kind[d].serial}

FirstOf(s) == LET k == CHOOSE k \in DOMAIN s : Fits(s[k]) /\ \A m \in 1 .. k - 1 : ~Fits(s[m])
              IN  s[k]

Choose ==
    /\ pc = "choose"
    /\ path' = IF \E k \in DOMAIN Listed : Fits(Listed[k]) THEN FirstOf(Listed) ELSE 0
    /\ pc' = "open"
    /\ UNCHANGED <<kind, caller, plugged, i, memory, enumeration, refs, handle, string>>

(* hid_open_path, with the path that is still in the list.                 *)
OpenPath ==
    /\ pc = "open"
    /\ handle' = IF path \in plugged THEN path ELSE 0
    /\ misuse' = (misuse \/ (path # 0 /\ <<path, "path">> \notin heap))
    /\ pc' = "free"
    /\ UNCHANGED <<kind, caller, plugged, i, heap, enumeration, refs, path, string>>

(* hid_free_enumeration.                                                   *)
BlocksOf(s) == UNION {Blocks(s[k], fields[s[k]]) : k \in DOMAIN s}

FreeEnumeration ==
    /\ pc \in {"listed", "free"}
    /\ Free(BlocksOf(Listed))
    /\ root' = 0
    /\ pc' = IF handle = 0 THEN "done" ELSE "opened"
    /\ UNCHANGED <<kind, caller, plugged, i, cur, prev, next, fields, refs, opening>>

(* get_device_string, asked of a device that was listed: all of its uevent *)
(* is there.  Without a USB parent or without the string nothing is        *)
(* written, and what parse_uevent_info returned is returned.               *)
GetString ==
    /\ pc = "opened"
    /\ string' =
         IF handle \notin plugged THEN NoString
         ELSE IF kind[handle].bus = "bluetooth" \/ kind[handle].usb = "full"
         THEN [ret |-> 0, wrote |-> TRUE]
         ELSE [ret |-> IF UeventFound(handle) THEN 1 ELSE 0, wrote |-> FALSE]
    /\ UNCHANGED <<kind, caller, plugged, pc, i, memory, enumeration, refs, path, handle>>

Close ==
    /\ pc = "opened"
    /\ handle' = 0
    /\ pc' = "done"
    /\ UNCHANGED <<kind, caller, plugged, i, memory, enumeration, refs, path, string>>

(* Of the environment.                                                     *)
Unplug(d) ==
    /\ pc \notin {"done", "crashed"}
    /\ d \in plugged
    /\ plugged' = plugged \ {d}
    /\ UNCHANGED <<kind, caller, pc, i, memory, enumeration, refs, opening>>

Program ==
    \/ Take \/ FindHid \/ ParseUevent \/ AddEntry \/ FindUsb \/ NextDevice
    \/ EndEnumerate \/ Choose \/ OpenPath \/ FreeEnumeration
    \/ GetString \/ Close

Next == Program \/ \E d \in Devices : Unplug(d)

Spec == Init /\ [][Next]_vars

-----------------------------------------------------------------------------
(* What can be listed: known to udev in full, on a bus hidapi knows, of    *)
(* the vendor asked for, and if on USB with a USB parent.                  *)
Listable(d) ==
    /\ kind[d].initialised /\ kind[d].hid /\ UeventFound(d)
    /\ kind[d].bus = "bluetooth" \/ (kind[d].bus = "usb" /\ kind[d].usb # "none")
    /\ VendorFits(d)

(* Once made, the list has every device that can be listed and was there   *)
(* throughout, nothing that cannot, each once and in the order of udev.    *)
ListExact ==
    pc \in {"listed", "choose"} =>
        LET listed == {Listed[k] : k \in DOMAIN Listed} IN
        /\ listed \subseteq {d \in Devices : Listable(d)}
        /\ {d \in plugged : Listable(d)} \subseteq listed
        /\ \A k \in 2 .. Len(Listed) : Listed[k - 1] < Listed[k]

(* While it is made, every entry that can be reached is allocated, and the *)
(* next one goes behind the last: taking an entry off leaves no way to it. *)
ListSound ==
    pc \in {"take", "hid", "parse", "add", "next"} =>
        /\ \A k \in DOMAIN Listed : <<Listed[k], "node">> \in heap
        /\ cur = IF Listed = <<>> THEN 0 ELSE Listed[Len(Listed)]

(* Nothing is freed twice or used after it was freed, and in the end,      *)
(* however the devices came and went, nothing is left.                     *)
NoMisuse == ~misuse
NothingLeft == pc \in {"done", "opened"} => heap = {} /\ refs = {}

(* hid_open opens the device it was asked for, and the first of several.   *)
OpensFirst ==
    handle # 0 =>
        /\ Fits(handle) /\ Listable(handle)
        /\ \A d \in plugged : Fits(d) /\ Listable(d) => handle <= d

(* hidapi.h on hid_get_manufacturer_string and its like: "This function    *)
(* returns 0 on success and -1 on error." Not what the code does for a USB *)
(* device without such a string: it returns 1.                             *)
StringReturned ==
    [][pc = "opened" /\ pc' = pc =>
         string'.ret \in {0, -1} /\ (string'.ret = 0 => string'.wrote)]_<<pc, string>>

=============================================================================

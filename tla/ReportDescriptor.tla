-------------------------- MODULE ReportDescriptor ---------------------------
(***************************************************************************)
(* The three functions that walk over the items of a HID report            *)
(* descriptor: get_usage of c_src/libu2f-host/devs.c, by which a U2F token *)
(* is told from other devices on Linux, get_usage of hid-linux-libusb.c    *)
(* and uses_numbered_reports of hid-linux-hidraw.c.  One step of the       *)
(* machine is one turn of their while loop.                                *)
(*                                                                         *)
(* Bytes are numbers; offsets start at 0 as in the code.  What a walker    *)
(* should find is defined apart from it, from the items of the descriptor  *)
(* (HID 1.11, 6.2.2).                                                      *)
(***************************************************************************)
EXTENDS Naturals, Sequences, FiniteSets

CONSTANTS
    Bytes,          \* the bytes a descriptor is made of
    MaxSize,        \* bound: its size
    Walkers         \* subset of {"u2f", "libusb", "numbered"}

DescriptorAssumption ==
    /\ Bytes \subseteq 0 .. 255
    /\ MaxSize \in Nat
    /\ Walkers \subseteq {"u2f", "libusb", "numbered"}

VARIABLES
    walker,         \* which of the three runs
    descriptor,
    i,
    page, usage,    \* what was found, or None
    touched,        \* the offsets read
    result          \* "none" while it runs, then "found" or "failed"

vars == <<walker, descriptor, i, page, usage, touched, result>>

None == 65536       \* no 16-bit value

\* 0 beyond the end: InBounds says it is not read there
ByteAt(s, k) == IF k < Len(s) THEN s[k + 1] ELSE 0
IsLong(key) == key >= 240                   \* (key & 0xf0) == 0xf0
SizeCode(key) == key % 4
Command(key) == key - (key % 4)             \* key & 0xfc

(* The length of the data of an item and of its key.                       *)
DataLen(s, k) ==
    LET key == ByteAt(s, k) IN
    IF IsLong(key)
    THEN IF k + 1 < Len(s) THEN ByteAt(s, k + 1) ELSE 0
    ELSE IF SizeCode(key) = 3 THEN 4 ELSE SizeCode(key)

KeySize(key) == IF IsLong(key) THEN 3 ELSE 1

(* get_bytes: the data of the item at k, 0 when it is cut off, reduced to  *)
(* the unsigned short it is stored in.  The one of devs.c knows no items   *)
(* of four bytes.                                                          *)
Fits(s, k, n) == k + n < Len(s)

DataOffsets(w, s, k, n) ==
    IF Fits(s, k, n) /\ (n = 4 => w = "libusb") /\ n \in {1, 2, 4}
    THEN k + 1 .. k + n ELSE {}

GetBytes(w, s, k, n) ==
    LET from == DataOffsets(w, s, k, n) IN
    IF from = {} THEN 0
    ELSE IF n = 1 THEN ByteAt(s, k + 1)
    ELSE ByteAt(s, k + 2) * 256 + ByteAt(s, k + 1)

TypeOK ==
    /\ walker \in Walkers
    /\ descriptor \in Seq(Bytes)
    /\ i \in Nat
    /\ page \in 0 .. None /\ usage \in 0 .. None
    /\ touched \subseteq Nat
    /\ result \in {"none", "found", "failed"}

Init ==
    /\ walker \in Walkers
    /\ descriptor \in UNION {[1 .. n -> Bytes] : n \in 0 .. MaxSize}
    /\ i = 0
    /\ page = None /\ usage = None
    /\ touched = {}
    /\ result = "none"

-----------------------------------------------------------------------------
Skip == i' = i + DataLen(descriptor, i) + KeySize(ByteAt(descriptor, i))

ReadsLength == IF IsLong(ByteAt(descriptor, i)) /\ i + 1 < Len(descriptor)
               THEN {i + 1} ELSE {}

(* uses_numbered_reports: a Report ID key of one byte.                     *)
NumberedTurn ==
    /\ walker = "numbered"
    /\ IF ByteAt(descriptor, i) = 133
       THEN /\ result' = "found"
            /\ touched' = touched \cup {i}
            /\ UNCHANGED i
       ELSE /\ Skip
            /\ touched' = touched \cup {i} \cup ReadsLength
            /\ UNCHANGED result
    /\ UNCHANGED <<page, usage>>

(* get_usage: devs.c gives up at a long item.  Preceded by a variant that  *)
(* remembers a usage only after its page.                                  *)
PageFirst(key) == Command(key) = 8 /\ page # None
IsUsage(key) == Command(key) = 8
IsPage(key) == Command(key) = 4

UsageTurn ==
    /\ walker \in {"u2f", "libusb"}
    /\ LET key == ByteAt(descriptor, i)
           n == DataLen(descriptor, i)
           value == GetBytes(walker, descriptor, i, n)
       IN  IF walker = "u2f" /\ IsLong(key)
           THEN /\ result' = "failed"
                /\ touched' = touched \cup {i}
                /\ UNCHANGED <<i, page, usage>>
           ELSE /\ page' = IF IsPage(key) THEN value ELSE page
                /\ usage' = IF IsUsage(key) THEN value ELSE usage
                /\ touched' = touched \cup {i} \cup ReadsLength
                       \cup (IF IsPage(key) \/ IsUsage(key)
                             THEN DataOffsets(walker, descriptor, i, n) ELSE {})
                /\ IF page' # None /\ usage' # None
                   THEN result' = "found" /\ UNCHANGED i
                   ELSE Skip /\ UNCHANGED result

Turn ==
    /\ result = "none" /\ i < Len(descriptor)
    /\ NumberedTurn \/ UsageTurn
    /\ UNCHANGED <<walker, descriptor>>

End ==
    /\ result = "none" /\ i >= Len(descriptor)
    /\ result' = "failed"
    /\ UNCHANGED <<walker, descriptor, i, page, usage, touched>>

Next == Turn \/ End

Spec == Init /\ [][Next]_vars /\ WF_vars(Next)

-----------------------------------------------------------------------------
(* The offsets at which the items of a descriptor begin: 0, and the one    *)
(* behind an item.                                                         *)
ItemSize(s, k) ==
    LET key == ByteAt(s, k) IN
    IF ~IsLong(key) THEN 1 + <<0, 1, 2, 4>>[1 + (key % 4)]
    ELSE 3 + (IF k + 1 < Len(s) THEN ByteAt(s, k + 1) ELSE 0)

Offsets(s) == {k \in 0 .. Len(s) : k < Len(s)}
Behind(s, S) == {k + ItemSize(s, k) : k \in S} \cap Offsets(s)

Items(s) ==
    {k \in Offsets(s) :
        \A S \in SUBSET Offsets(s) : 0 \in S /\ Behind(s, S) \subseteq S => k \in S}

Last(S) == CHOOSE k \in S : \A m \in S : m <= k
First(S) == CHOOSE k \in S : \A m \in S : k <= m

ItemsOf(command) ==
    {k \in Items(descriptor) : Command(ByteAt(descriptor, k)) = command}

(* The value of an item: its data, little endian, in 16 bits.              *)
ValueOf(k) ==
    LET n == DataLen(descriptor, k) IN
    IF n = 0 \/ k + n >= Len(descriptor) \/ (n = 4 /\ walker = "u2f") THEN 0
    ELSE ByteAt(descriptor, k + 1)
            + (IF n > 1 THEN 256 * ByteAt(descriptor, k + 2) ELSE 0)

LongItems == {k \in Items(descriptor) : IsLong(ByteAt(descriptor, k))}
Until(k) == 0 .. k

(* get_usage finds a page and a usage where both are first known: it fails *)
(* without either, and in devs.c at a long item before that.  What it      *)
(* finds is the value of an item passed; in devs.c, of the last of its     *)
(* kind, so that a page before the usage is the one in force.  Of the walk *)
(* with libusb this is what its comment says too while one item of each    *)
(* kind was passed; of several, see FirstFound.                            *)
Both == LET pages == ItemsOf(4)
            usages == ItemsOf(8)
        IN  IF pages = {} \/ usages = {} THEN MaxSize ELSE Last({First(pages), First(usages)})

UsageExact ==
    result # "none" /\ walker \in {"u2f", "libusb"} =>
        LET both == Both
            pages == ItemsOf(4) \cap Until(both)
            usages == ItemsOf(8) \cap Until(both)
        IN
        /\ result = "found" <=>
              both < MaxSize /\ (walker = "u2f" => LongItems \cap Until(both) = {})
        /\ result = "found" =>
              /\ \E k \in pages : page = ValueOf(k)
              /\ \E k \in usages : usage = ValueOf(k)
        /\ result = "found" /\ walker = "u2f" =>
              page = ValueOf(Last(pages)) /\ usage = ValueOf(Last(usages))

(* A device is taken for one with numbered reports exactly when a Report   *)
(* ID item is among its items: not when the byte is in the data of another.*)
NumberedExact ==
    result # "none" /\ walker = "numbered" =>
        (result = "found" <=>
            \E k \in Items(descriptor) : ByteAt(descriptor, k) = 133)

(* Nothing beyond the descriptor is read, however it is cut off.           *)
InBounds == \A k \in touched : k < Len(descriptor)

(* "it just returns the first Usage and Usage Page that it finds in the    *)
(* descriptor." Not what the code does: it returns the last page before    *)
(* the first usage.                                                        *)
FirstFound ==
    result = "found" /\ walker # "numbered" =>
        /\ page = ValueOf(First(ItemsOf(4)))
        /\ usage = ValueOf(First(ItemsOf(8)))

=============================================================================

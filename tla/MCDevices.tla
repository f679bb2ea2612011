------------------------------ MODULE MCDevices -------------------------------
(***************************************************************************)
(* Models of Devices for TLC: the kinds of device each backend meets, and  *)
(* what it is asked.                                                       *)
(***************************************************************************)
EXTENDS Devices, TLC

(* Three devices, each of one of the kinds that hid_enumerate tells apart. *)
Full == {"ID", "NAME", "UNIQ"}
HidrawKind(initialised, hid, uevent, bus, usb, vendor, serial) ==
    [initialised |-> initialised, hid |-> hid, uevent |-> uevent, bus |-> bus,
     usb |-> usb, vendor |-> vendor, serial |-> serial]

MCHidrawKinds ==
    {HidrawKind(FALSE, TRUE, Full, "usb", "full", 1, 1),
     HidrawKind(TRUE, FALSE, Full, "usb", "full", 1, 1),
     HidrawKind(TRUE, TRUE, {"ID", "NAME"}, "usb", "full", 1, 1),
     HidrawKind(TRUE, TRUE, Full, "other", "none", 1, 1),
     HidrawKind(TRUE, TRUE, Full, "bluetooth", "none", 1, 1),
     HidrawKind(TRUE, TRUE, Full, "usb", "none", 1, 1),
     HidrawKind(TRUE, TRUE, Full, "usb", "bare", 1, 2),
     HidrawKind(TRUE, TRUE, Full, "usb", "full", 2, 1)}

Asks(what, vendor, serial) == [call |-> what, vendor |-> vendor, serial |-> serial]

MCHidrawCallers == {Asks("enumerate", 1, 0), Asks("open", 1, 0), Asks("open", 1, 2)}

(* Devices bound to a driver or not, that can be opened or not, of other   *)
(* classes and vendors.                                                    *)
WinKind(class, bound, openable, vendor, serial) ==
    [class |-> class, driver |-> bound, openable |-> openable,
     vendor |-> vendor, serial |-> serial]

MCWinKinds == {WinKind("HIDClass", TRUE, TRUE, 1, 1),
             WinKind("HIDClass", TRUE, TRUE, 1, 2),
             WinKind("HIDClass", TRUE, FALSE, 1, 1),
             WinKind("HIDClass", FALSE, TRUE, 1, 0),
             WinKind("none", FALSE, TRUE, 1, 1),
             WinKind("other", TRUE, TRUE, 2, 2)}

MCWinCallers == {Asks("enumerate", 0, 0), Asks("open", 1, 2), Asks("open", 0, 0)}

(* Two devices of one or of two interfaces, one that is not configured,    *)
(* one that is not a HID; no interface has two altsettings of class HID.   *)
Alt(interface, hid, output) == [interface |-> interface, hid |-> hid, output |-> output]
LibusbKind(config, alts, vendor, serial) ==
    [config |-> config, alts |-> alts, vendor |-> vendor, serial |-> serial]

MCLibusbKinds ==
    {LibusbKind("active", <<Alt(0, TRUE, TRUE)>>, 1, 1),
     LibusbKind("active",
                <<Alt(0, FALSE, FALSE), Alt(0, TRUE, FALSE), Alt(1, TRUE, TRUE)>>, 1, 2),
     LibusbKind("first", <<Alt(0, TRUE, FALSE)>>, 1, 1),
     LibusbKind("none", <<Alt(0, TRUE, FALSE)>>, 1, 1),
     LibusbKind("active", <<Alt(0, FALSE, FALSE)>>, 2, 0)}

(* The two programs, readers and paths are alike, and a state has only one *)
(* of these pairs: one permutation that swaps them all is enough.          *)
Pairs == {Programs, Readers, TablePaths}
Symmetry ==
    {f \in Permutations(UNION Pairs) :
        \/ \A x \in UNION Pairs : f[x] = x
        \/ \A P \in Pairs : \A x \in P : f[x] \in P \ {x}}

=============================================================================

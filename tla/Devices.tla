------------------------------- MODULE Devices --------------------------------
(***************************************************************************)
(* What happens to devices that several parties hold and that come and go: *)
(* the lists and handles of the three hidapi backends (Hidraw, WinDevice,  *)
(* LibusbOpen), the table of devices over them (Devs), the walks over a    *)
(* report descriptor (ReportDescriptor), programs that share a device      *)
(* (Transport) and the threads of devices on one context (LibusbReader).   *)
(*                                                                         *)
(* A build has one backend, and these parts share no state: the first      *)
(* state chooses the part that runs, and the variables of the others are   *)
(* None throughout.  Variables of the same name are shared.                *)
(***************************************************************************)
EXTENDS Naturals, Sequences

CONSTANTS
    \* of Hidraw, WinDevice and LibusbOpen
    HidrawCount, HidrawKinds, HidrawCallers,
    WinCount, WinKinds, WinCallers,
    LibusbCount, LibusbKinds,
    \* of Devs
    TablePaths, Nowhere,    \* its Paths and NoPath
    MaxPlugs,
    MaxDiscoveries, \* its MaxCalls
    \* of ReportDescriptor
    Bytes, MaxSize, Walkers,
    \* of Transport
    Programs, InitData, ContData, HidTimeout, MaxTimeout, SendLens, AnswerLens,
    InputReports,   \* its QueueLimit: reports the queue of a handle holds
    MaxCalls,
    \* of LibusbReader
    Readers,        \* its Devices
    NoDevice, QueueLimit, MaxReports

VARIABLES
    part,
    kind, caller, plugged, pc, i, path, handle, list, result, queue,
    root, cur, prev, next, fields, heap, refs, misuse, string,
    held,
    wanted, driver, claims, handles, threads, d, a, good_open, report,
    plugs, calls, listed, todo, res, table, maxIndex,
    walker, descriptor, page, usage, touched,
    state, cid, call, datasent, sequence, timeout, got, inbox, jobs,
    emitting, channels, raced,
    thread, transfer, shutdown, cancelled, handler, callback, freed, arrived,
    taken, failed

(* The variables of one part only, and that they are not used.             *)
None == "none"
No(v) == v = None

hidrawOwn ==
    <<root, cur, prev, next, fields, heap, refs, misuse, string>>
HidrawUnused ==
    /\ No(root) /\ No(cur) /\ No(prev) /\ No(next) /\ No(fields)
    /\ No(heap) /\ No(refs) /\ No(misuse) /\ No(string)

winOwn ==
    <<held>>
WinUnused ==
    /\ No(held)

libusbOwn ==
    <<wanted, driver, claims, threads, d, a, good_open, report>>
LibusbUnused ==
    /\ No(wanted) /\ No(driver) /\ No(claims)
    /\ No(threads) /\ No(d) /\ No(a) /\ No(good_open) /\ No(report)

devsOwn ==
    <<plugs, calls, listed, todo, res, table, maxIndex>>
DevsUnused ==
    /\ No(plugs) /\ No(calls) /\ No(listed) /\ No(todo) /\ No(res)
    /\ No(table) /\ No(maxIndex)

descriptorOwn ==
    <<walker, descriptor, page, usage, touched>>
DescriptorUnused ==
    /\ No(walker) /\ No(descriptor) /\ No(page) /\ No(usage) /\ No(touched)

transportOwn ==
    <<state, cid, call, datasent, sequence, timeout, got, inbox, jobs,
      emitting, channels, raced>>
TransportUnused ==
    /\ No(state) /\ No(cid) /\ No(call) /\ No(datasent) /\ No(sequence)
    /\ No(timeout) /\ No(got) /\ No(inbox) /\ No(jobs) /\ No(emitting)
    /\ No(channels) /\ No(raced)

readerOwn ==
    <<thread, transfer, shutdown, cancelled, handler, callback, freed,
      arrived, taken, failed>>
ReaderUnused ==
    /\ No(thread) /\ No(transfer) /\ No(shutdown) /\ No(cancelled)
    /\ No(handler) /\ No(callback) /\ No(freed) /\ No(arrived)
    /\ No(taken) /\ No(failed)

shared ==
    <<kind, caller, plugged, pc, i, path, handle, handles, list, result, queue>>
vars ==
    <<part, shared, hidrawOwn, winOwn, libusbOwn, devsOwn, descriptorOwn,
      transportOwn, readerOwn>>

-----------------------------------------------------------------------------

Hidraw == INSTANCE Hidraw WITH
    N <- HidrawCount, Kinds <- HidrawKinds, Callers <- HidrawCallers
Win == INSTANCE WinDevice WITH
    N <- WinCount, Kinds <- WinKinds, Callers <- WinCallers
Libusb == INSTANCE LibusbOpen WITH N <- LibusbCount, Kinds <- LibusbKinds
Devs == INSTANCE Devs WITH
    Paths <- TablePaths, NoPath <- Nowhere, MaxCalls <- MaxDiscoveries
Descriptor == INSTANCE ReportDescriptor
Transport == INSTANCE Transport WITH QueueLimit <- InputReports
Reader == INSTANCE LibusbReader WITH Devices <- Readers

(* What each module assumes of its constants.                              *)
ASSUME DevicesAssumption ==
    /\ HidrawCount \in Nat /\ Hidraw!KindAssumption /\ Hidraw!CallerAssumption
    /\ WinCount \in Nat /\ Win!KindAssumption /\ Win!CallerAssumption
    /\ LibusbCount \in Nat /\ Libusb!KindAssumption
    /\ Devs!PathsAssumption /\ Devs!MaxPlugsAssumption /\ Devs!MaxCallsAssumption
    /\ Descriptor!DescriptorAssumption
    /\ Transport!SizesAssumption
    /\ Reader!LibusbAssumption

-----------------------------------------------------------------------------

HidrawInit ==
    /\ part = "hidraw" /\ Hidraw!Init
    /\ WinUnused /\ LibusbUnused /\ DevsUnused
    /\ DescriptorUnused /\ TransportUnused /\ ReaderUnused
    /\ No(handles) /\ No(list) /\ No(result) /\ No(queue)
HidrawNext ==
    /\ part = "hidraw"
    /\ UNCHANGED <<part, winOwn, libusbOwn, devsOwn, descriptorOwn, transportOwn, readerOwn>>
    /\ UNCHANGED <<handles, list, result, queue>>
    /\ Hidraw!Next

WinInit ==
    /\ part = "win" /\ Win!Init
    /\ HidrawUnused /\ LibusbUnused /\ DevsUnused
    /\ DescriptorUnused /\ TransportUnused /\ ReaderUnused
    /\ No(handles) /\ No(result) /\ No(queue)
WinNext ==
    /\ part = "win"
    /\ UNCHANGED <<part, hidrawOwn, libusbOwn, devsOwn, descriptorOwn, transportOwn, readerOwn>>
    /\ UNCHANGED <<handles, result, queue>>
    /\ Win!Next

LibusbInit ==
    /\ part = "libusb" /\ Libusb!Init
    /\ HidrawUnused /\ WinUnused /\ DevsUnused
    /\ DescriptorUnused /\ TransportUnused /\ ReaderUnused
    /\ No(caller) /\ No(i) /\ No(result) /\ No(queue)
LibusbNext ==
    /\ part = "libusb"
    /\ UNCHANGED <<part, hidrawOwn, winOwn, devsOwn, descriptorOwn, transportOwn, readerOwn>>
    /\ UNCHANGED <<caller, i, result, queue>>
    /\ Libusb!Next

DevsInit ==
    /\ part = "devs" /\ Devs!Init
    /\ HidrawUnused /\ WinUnused /\ LibusbUnused /\ DescriptorUnused
    /\ TransportUnused /\ ReaderUnused
    /\ No(kind) /\ No(caller) /\ No(i) /\ No(handle) /\ No(list)
    /\ No(result) /\ No(queue)
DevsNext ==
    /\ part = "devs"
    /\ UNCHANGED <<part, hidrawOwn, winOwn, libusbOwn, descriptorOwn, transportOwn, readerOwn>>
    /\ UNCHANGED <<kind, caller, i, handle, list, result, queue>>
    /\ Devs!Next

DescriptorInit ==
    /\ part = "descriptor" /\ Descriptor!Init
    /\ HidrawUnused /\ WinUnused /\ LibusbUnused /\ DevsUnused /\ TransportUnused /\ ReaderUnused
    /\ No(kind) /\ No(caller) /\ No(plugged) /\ No(pc) /\ No(path)
    /\ No(handle) /\ No(handles) /\ No(list) /\ No(queue)
DescriptorNext ==
    /\ part = "descriptor"
    /\ UNCHANGED <<part, hidrawOwn, winOwn, libusbOwn, devsOwn, transportOwn, readerOwn>>
    /\ UNCHANGED <<kind, caller, plugged, pc, path, handle, handles, list, queue>>
    /\ Descriptor!Next

TransportInit ==
    /\ part = "transport" /\ Transport!Init
    /\ HidrawUnused /\ WinUnused /\ LibusbUnused /\ DevsUnused /\ DescriptorUnused /\ ReaderUnused
    /\ No(kind) /\ No(caller) /\ No(plugged) /\ No(i) /\ No(path)
    /\ No(handle) /\ No(handles) /\ No(list)
TransportNext ==
    /\ part = "transport"
    /\ UNCHANGED <<part, hidrawOwn, winOwn, libusbOwn, devsOwn, descriptorOwn, readerOwn>>
    /\ UNCHANGED <<kind, caller, plugged, i, path, handle, handles, list>>
    /\ Transport!Next

ReaderInit ==
    /\ part = "reader" /\ Reader!Init
    /\ HidrawUnused /\ WinUnused /\ LibusbUnused /\ DevsUnused
    /\ DescriptorUnused /\ TransportUnused
    /\ No(kind) /\ No(pc) /\ No(i) /\ No(path) /\ No(handle)
    /\ No(handles) /\ No(list) /\ No(result)
ReaderNext ==
    /\ part = "reader"
    /\ UNCHANGED <<part, hidrawOwn, winOwn, libusbOwn, devsOwn, descriptorOwn, transportOwn>>
    /\ UNCHANGED <<kind, pc, i, path, handle, handles, list, result>>
    /\ Reader!Next

Init ==
    \/ HidrawInit
    \/ WinInit
    \/ LibusbInit
    \/ DevsInit
    \/ DescriptorInit
    \/ TransportInit
    \/ ReaderInit

Next ==
    \/ HidrawNext
    \/ WinNext
    \/ LibusbNext
    \/ DevsNext
    \/ DescriptorNext
    \/ TransportNext
    \/ ReaderNext

Spec == Init /\ [][Next]_vars

-----------------------------------------------------------------------------
(* The variables of the part that runs have their types.                   *)
TypeOK ==
    /\ part = "hidraw" => Hidraw!TypeOK
    /\ part = "win" => Win!TypeOK
    /\ part = "libusb" => Libusb!TypeOK
    /\ part = "descriptor" => Descriptor!TypeOK

(* hid_enumerate returns each device that can be listed and stayed         *)
(* plugged, once and in order, however devices come and go meanwhile.      *)
(* Nothing that cannot is in the list of hidraw and libusb.  That of       *)
(* Windows has only devices that could be opened, those that stayed with   *)
(* their own vendor and serial number, and leaves out any for want of a    *)
(* driver only where code and comment agree.  While the list of hidraw is  *)
(* made, every entry that can be reached is allocated.                     *)
ListExact ==
    /\ part = "hidraw" => Hidraw!ListExact /\ Hidraw!ListSound
    /\ part = "win" => Win!ListExact
    /\ part = "libusb" => Libusb!ListExact

(* hid_open opens a device of the vendor and with the serial number that   *)
(* were asked for: with hidraw the first, with libusb one interface.       *)
OpensWanted ==
    /\ part = "hidraw" => Hidraw!OpensFirst
    /\ part = "win" => Win!OpensWanted
    /\ part = "libusb" => Libusb!OpensOne /\ Libusb!SerialFits

(* Every open handle has one live entry in the table and every live entry  *)
(* one handle, and a path has one at most, although dead entries for it    *)
(* stay in the table and devices are plugged in again.                     *)
EntriesOwned == part = "devs" => Devs!EntriesOwned

(* A discovery returns OK only with a live entry in the table, over which  *)
(* the operations loop, and NO_U2F_DEVICE only without any.                *)
ResultFits == part = "devs" => Devs!ResultFits

(* What was allocated, opened, claimed or started is given back, once,     *)
(* whichever call failed and whenever the device was unplugged; when       *)
(* hid_open returns NULL nothing of the device is held.                    *)
NothingLeft ==
    /\ part = "hidraw" => Hidraw!NoMisuse /\ Hidraw!NothingLeft
    /\ part = "win" => Win!OneHandle /\ Win!NothingLeft
    /\ part = "libusb" =>
          Libusb!NullOpensNothing /\ Libusb!CloseReleases /\ Libusb!CountsNumber

(* The walks find the usage and the report number that the items of the    *)
(* descriptor give, and read within it.                                    *)
DescriptorExact ==
    part = "descriptor" =>
        Descriptor!UsageExact /\ Descriptor!NumberedExact /\ Descriptor!InBounds

(* Programs come to share a channel only by initialising the device at the *)
(* same time, and on a channel of its own a program is never given the     *)
(* answer to another command than the one it has just sent.                *)
ChannelsApart ==
    part = "transport" => Transport!OwnAnswer /\ Transport!SharedByRace

(* Nothing of a device is used after hid_close has freed it, although      *)
(* either thread may run the callbacks of both.                            *)
NoUseAfterFree ==
    part = "reader" => Reader!NoUseAfterFree

(* The reports of each device are queued, dropped and handed out as        *)
(* ReportQueue has it, whichever thread runs the callback.                 *)
QueuesReports ==
    /\ part = "reader" => Reader!ReportsInit
    /\ [][part = "reader" => Reader!ReportsStep]_vars

=============================================================================

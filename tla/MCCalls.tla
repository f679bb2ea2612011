------------------------------- MODULE MCCalls --------------------------------
(***************************************************************************)
(* Models for TLC of the calls the helper makes, and of what they hand     *)
(* over: one program on one device (Transport), one operation over several *)
(* devices (Operations), the JSON an operation builds (JsonBuild), the     *)
(* action the extension writes to the helper (WireFormat), and reads of    *)
(* one device with each of the hidapi backends that buffer reports         *)
(* (LibusbReader, MacReader, WinReader).                                   *)
(*                                                                         *)
(* Each is checked by itself: the first state chooses the part that runs,  *)
(* and the variables of the others are None throughout.  Variables of the  *)
(* same name are shared.                                                   *)
(***************************************************************************)
EXTENDS Naturals, Sequences

CONSTANTS
    \* of Transport
    InitData, ContData, HidTimeout, MaxTimeout, SendLens, AnswerLens,
    InputReports,   \* its QueueLimit: reports the queue of a handle holds
    MaxCalls,
    \* of Operations
    NumDevices, RoundLimit,
    \* of JsonBuild
    FieldSize, OutSize, HandleSize, AnswerMax, TextLengths, DataLengths,
    \* of WireFormat
    Modulus, SenderMax, ReaderMax,
    WireRequests,   \* its Requests
    \* of LibusbReader and MacReader
    QueueLimit, MaxReports,
    \* of WinReader
    RingSize,
    WinReports      \* its MaxReports

VARIABLES
    part,
    pc, call, got, result, queue, op, blocking, rc, lengths, count, plugged,
    thread, shutdown, caller, arrived, taken, failed,
    state, cid, datasent, sequence, timeout, inbox, jobs, emitting, channels,
    raced,
    presence, given, alive, knows, appParam, iterations, device, len, buf,
    skip, answers, vain,
    valid, text, next, refs, members, parsed, response,
    request, unsent, pipe, closed, need, size, chars, starts, action,
    transfer, cancelled, handler, callback, freed,
    runLoop, signalled, registered, disconnected, passed, mode, closedHandle,
    milliseconds, read_pending, read_buf, event, io, started, ring, gone,
    dropped

(* The variables of one part only, and that they are not used.             *)
None == "none"
No(v) == v = None

transportOwn ==
    <<state, cid, datasent, sequence, timeout, inbox, jobs, emitting,
      channels, raced>>
TransportUnused ==
    /\ No(state) /\ No(cid) /\ No(datasent) /\ No(sequence) /\ No(timeout)
    /\ No(inbox) /\ No(jobs) /\ No(emitting) /\ No(channels) /\ No(raced)

operationsOwn ==
    <<presence, given, alive, knows, appParam, iterations, device, len, buf,
      skip, answers, vain>>
OperationsUnused ==
    /\ No(presence) /\ No(given) /\ No(alive) /\ No(knows) /\ No(appParam)
    /\ No(iterations) /\ No(device) /\ No(len) /\ No(buf) /\ No(skip)
    /\ No(answers) /\ No(vain)

buildOwn ==
    <<valid, text, next, refs, members, parsed, response>>
BuildUnused ==
    /\ No(valid) /\ No(text) /\ No(next) /\ No(refs) /\ No(members)
    /\ No(parsed) /\ No(response)

wireOwn ==
    <<request, unsent, pipe, closed, need, size, chars, starts, action>>
WireUnused ==
    /\ No(request) /\ No(unsent) /\ No(pipe) /\ No(closed) /\ No(need)
    /\ No(size) /\ No(chars) /\ No(starts) /\ No(action)

libusbOwn ==
    <<transfer, cancelled, handler, callback, freed>>
LibusbUnused ==
    /\ No(transfer) /\ No(cancelled) /\ No(handler) /\ No(callback)
    /\ No(freed)

macOwn ==
    <<runLoop, signalled, registered, disconnected, passed, mode,
      closedHandle>>
MacUnused ==
    /\ No(runLoop) /\ No(signalled) /\ No(registered) /\ No(disconnected)
    /\ No(passed) /\ No(mode) /\ No(closedHandle)

winOwn ==
    <<milliseconds, read_pending, read_buf, event, io, started, ring, gone,
      dropped>>
WinUnused ==
    /\ No(milliseconds) /\ No(read_pending) /\ No(read_buf) /\ No(event)
    /\ No(io) /\ No(started) /\ No(ring) /\ No(gone) /\ No(dropped)

shared ==
    <<pc, call, got, result, queue, op, blocking, rc, lengths, count,
      plugged, thread, shutdown, caller, arrived, taken, failed>>
vars ==
    <<part, shared, transportOwn, operationsOwn, buildOwn, wireOwn,
      libusbOwn, macOwn, winOwn>>

-----------------------------------------------------------------------------

Transport == INSTANCE Transport WITH
    Programs <- {"p"}, QueueLimit <- InputReports
Operations == INSTANCE Operations
Build == INSTANCE JsonBuild

Wire == INSTANCE WireFormat WITH Requests <- WireRequests

Libusb == INSTANCE LibusbReader WITH Devices <- {"d"}, NoDevice <- None
Mac == INSTANCE MacReader
Win == INSTANCE WinReader WITH MaxReports <- WinReports

(* What each module assumes of its constants.                              *)
ASSUME CallsAssumption ==
    /\ Transport!SizesAssumption
    /\ Operations!NumDevicesAssumption /\ Operations!RoundLimitAssumption
    /\ Build!SizeAssumption
    /\ Wire!WireFormatAssumption
    /\ Libusb!LibusbAssumption /\ Mac!MacAssumption /\ Win!WinReaderAssumption

-----------------------------------------------------------------------------

(* Texts of one byte up to one more than a field holds, texts that are not *)
(* ASCII, and up to four challenges, two more than the helper takes.       *)
Text(units, bytes) == [units |-> units, bytes |-> bytes]
Ascii(n) == Text(n, n)

MCWireRequests ==
    [op : {"r", "s"}, origin : {Ascii(1), Ascii(2), Text(1, 3)},
     challenges :
         {[i \in DOMAIN s |-> Ascii(s[i])] :
             s \in {<<1>>, <<2, 1>>, <<1, 3>>, <<4>>, <<1, 5>>, <<1, 1, 1>>, <<1, 1, 1, 1>>}}
         \cup {<<Text(2, 4)>>, <<Text(1, 2), Ascii(2)>>}]

-----------------------------------------------------------------------------

TransportInit ==
    /\ part = "transport" /\ Transport!Init
    /\ OperationsUnused /\ BuildUnused /\ WireUnused /\ LibusbUnused
    /\ MacUnused /\ WinUnused
    /\ No(op) /\ No(blocking) /\ No(rc) /\ No(lengths) /\ No(count)
    /\ No(plugged) /\ No(thread) /\ No(shutdown) /\ No(caller)
    /\ No(arrived) /\ No(taken) /\ No(failed)
TransportAlone ==
    /\ part = "transport"
    /\ UNCHANGED <<part, operationsOwn, buildOwn, wireOwn, libusbOwn, macOwn, winOwn>>
    /\ UNCHANGED
          <<op, blocking, rc, lengths, count, plugged, thread, shutdown, caller,
            arrived, taken, failed>>

OperationsInit ==
    /\ part = "operations" /\ Operations!Init
    /\ TransportUnused /\ BuildUnused /\ WireUnused /\ LibusbUnused
    /\ MacUnused /\ WinUnused
    /\ No(call) /\ No(got) /\ No(result) /\ No(queue) /\ No(lengths)
    /\ No(count) /\ No(plugged) /\ No(thread) /\ No(shutdown)
    /\ No(caller) /\ No(arrived) /\ No(taken) /\ No(failed)
OperationsAlone ==
    /\ part = "operations"
    /\ UNCHANGED <<part, transportOwn, buildOwn, wireOwn, libusbOwn, macOwn, winOwn>>
    /\ UNCHANGED
          <<call, got, result, queue, lengths, count, plugged, thread, shutdown,
            caller, arrived, taken, failed>>

BuildInit ==
    /\ part = "build" /\ Build!Init
    /\ TransportUnused /\ OperationsUnused /\ WireUnused /\ LibusbUnused
    /\ MacUnused /\ WinUnused
    /\ No(got) /\ No(queue) /\ No(blocking) /\ No(count) /\ No(plugged)
    /\ No(thread) /\ No(shutdown) /\ No(caller) /\ No(arrived)
    /\ No(taken) /\ No(failed)
BuildAlone ==
    /\ part = "build"
    /\ UNCHANGED <<part, transportOwn, operationsOwn, wireOwn, libusbOwn, macOwn, winOwn>>
    /\ UNCHANGED
          <<got, queue, blocking, count, plugged, thread, shutdown, caller,
            arrived, taken, failed>>

WireInit ==
    /\ part = "wire" /\ Wire!Init
    /\ TransportUnused /\ OperationsUnused /\ BuildUnused /\ LibusbUnused
    /\ MacUnused /\ WinUnused
    /\ No(call) /\ No(result) /\ No(queue) /\ No(op) /\ No(blocking)
    /\ No(rc) /\ No(plugged) /\ No(thread) /\ No(shutdown) /\ No(caller)
    /\ No(arrived) /\ No(taken) /\ No(failed)
WireAlone ==
    /\ part = "wire"
    /\ UNCHANGED <<part, transportOwn, operationsOwn, buildOwn, libusbOwn, macOwn, winOwn>>
    /\ UNCHANGED
          <<call, result, queue, op, blocking, rc, plugged, thread, shutdown,
            caller, arrived, taken, failed>>

LibusbInit ==
    /\ part = "libusb" /\ Libusb!Init
    /\ TransportUnused /\ OperationsUnused /\ BuildUnused /\ WireUnused
    /\ MacUnused /\ WinUnused
    /\ No(pc) /\ No(call) /\ No(got) /\ No(result) /\ No(op)
    /\ No(blocking) /\ No(rc) /\ No(lengths) /\ No(count)
LibusbAlone ==
    /\ part = "libusb"
    /\ UNCHANGED <<part, transportOwn, operationsOwn, buildOwn, wireOwn, macOwn, winOwn>>
    /\ UNCHANGED
          <<pc, call, got, result, op, blocking, rc, lengths, count>>

MacInit ==
    /\ part = "mac" /\ Mac!Init
    /\ TransportUnused /\ OperationsUnused /\ BuildUnused /\ WireUnused
    /\ LibusbUnused /\ WinUnused
    /\ No(pc) /\ No(call) /\ No(got) /\ No(result) /\ No(op)
    /\ No(blocking) /\ No(rc) /\ No(lengths)
MacAlone ==
    /\ part = "mac"
    /\ UNCHANGED <<part, transportOwn, operationsOwn, buildOwn, wireOwn, libusbOwn, winOwn>>
    /\ UNCHANGED
          <<pc, call, got, result, op, blocking, rc, lengths>>

WinInit ==
    /\ part = "win" /\ Win!Init
    /\ TransportUnused /\ OperationsUnused /\ BuildUnused /\ WireUnused
    /\ LibusbUnused /\ MacUnused
    /\ No(call) /\ No(got) /\ No(result) /\ No(queue) /\ No(op) /\ No(rc)
    /\ No(lengths) /\ No(count) /\ No(plugged) /\ No(thread)
    /\ No(shutdown) /\ No(caller) /\ No(failed)
WinAlone ==
    /\ part = "win"
    /\ UNCHANGED <<part, transportOwn, operationsOwn, buildOwn, wireOwn, libusbOwn, macOwn>>
    /\ UNCHANGED
          <<call, got, result, queue, op, rc, lengths, count, plugged, thread,
            shutdown, caller, failed>>

Init ==
    \/ TransportInit
    \/ OperationsInit
    \/ BuildInit
    \/ WireInit
    \/ LibusbInit
    \/ MacInit
    \/ WinInit

Next ==
    \/ TransportAlone /\ Transport!Next
    \/ OperationsAlone /\ Operations!Next
    \/ BuildAlone /\ Build!Next
    \/ WireAlone /\ Wire!Next
    \/ LibusbAlone /\ Libusb!Next
    \/ MacAlone /\ Mac!Next
    \/ WinAlone /\ Win!Next

Spec == Init /\ [][Next]_vars

(* What each of the modules assumes.                                       *)
Fairness ==
    /\ WF_vars(TransportAlone /\ (\/ Transport!Send("p") \/ Transport!ReadTimeout("p")
                                  \/ Transport!Read("p")))
    /\ WF_vars(OperationsAlone /\ Operations!Next)
    /\ WF_vars(WireAlone /\ Wire!Write) /\ WF_vars(WireAlone /\ Wire!Next)
    /\ WF_vars(LibusbAlone /\ Libusb!ThreadStep("d"))
    /\ SF_vars(LibusbAlone /\ Libusb!Complete("d"))
    /\ SF_vars(LibusbAlone /\ Libusb!CallerStep("d"))
    /\ WF_vars(LibusbAlone /\ Libusb!Close)
    /\ SF_vars(MacAlone /\ Mac!ThreadStep)
    /\ SF_vars(MacAlone /\ Mac!Callback)
    /\ WF_vars(MacAlone /\ (Mac!OpenMeet \/ Mac!Opened))
    /\ SF_vars(MacAlone /\ Mac!ReadOn)
    /\ WF_vars(MacAlone /\ Mac!CloseStep)
    /\ WF_vars(WinAlone /\ Win!Return)

FairSpec == Spec /\ Fairness

-----------------------------------------------------------------------------
(* An answer that u2fh_sendrecv returns with U2FH_OK is put together from  *)
(* all the frames of one answer, in order, and that is the answer to the   *)
(* command just sent, although late frames of earlier ones are in the same *)
(* queue, and a full queue loses frames.                                   *)
AnswersMatch ==
    part = "transport" => Transport!TypeOK /\ Transport!OneAnswer /\ Transport!OwnAnswer

(* At most one device does an operation, none that has rejected it or is   *)
(* dead is asked again, and the code that is returned says what the        *)
(* devices have answered.                                                  *)
OneDeviceActs ==
    part = "operations" =>
        /\ Operations!TypeOK
        /\ Operations!OneDeviceActs /\ Operations!NotAskedInVain /\ Operations!CodesFit

(* Whichever allocation fails, each JSON object an operation makes is put  *)
(* once and a response is whole; and nothing is written beyond a buffer    *)
(* but long client data, encoded, and a long key handle, decoded.          *)
Balanced ==
    part = "build" => Build!TypeOK /\ Build!Balanced /\ Build!Fits /\ Build!Whole

(* The helper runs what the extension wrote, in whatever pieces it came,   *)
(* if its texts are ASCII and their lengths fit into their fields; it has  *)
(* room for any texts, and runs nothing that has too many challenges.      *)
Delivered ==
    part = "wire" => Wire!TypeOK /\ Wire!Delivered /\ Wire!HasRoom /\ Wire!ManyAreRefused

(* With macOS the thread of a device is there from before hid_open returns *)
(* until hid_close wakes it up for the last time, unless the condition of  *)
(* a barrier has woken up for nothing.  With Windows each report is handed *)
(* out once and in order, however often reads time out, and the kernel has *)
(* the buffer of the device for one read at most.                          *)
ReadsOrdered ==
    /\ part = "libusb" => Libusb!TypeOK
    /\ part = "mac" => Mac!TypeOK /\ Mac!SequencesKept
    /\ part = "win" => Win!TypeOK /\ Win!NoneLost /\ Win!OneRead

(* The reports are queued, dropped and handed out as ReportQueue has it,   *)
(* with libusb all that are left before a read fails.                      *)
QueuesReports ==
    /\ part = "libusb" => Libusb!ReportsInit
    /\ part = "mac" => Mac!ReportsInit
    /\ [][/\ part = "libusb" => Libusb!ReportsStep
          /\ part = "mac" => Mac!ReportsStep]_vars

(* Calls return, whatever devices and threads do: u2fh_sendrecv, an        *)
(* operation although a device may wait for its button for ever, the       *)
(* reading of an action, hid_close, a read with Windows that has a timeout *)
(* or whose device is gone.  A read that sleeps wakes up for a report and  *)
(* for the end of the device.  With libusb only when the first transfer    *)
(* has been submitted, and with macOS hid_close returns or crashes.        *)
Called ==
    \/ part = "transport" /\ pc["p"] # "idle"
    \/ part \in {"operations", "wire"}
    \/ part = "libusb" /\ Libusb!Joins("d") /\ transfer["d"] # "none"
    \/ part = "mac" /\ caller = "unregistered"
    \/ part = "win" /\ pc # "idle" /\ (milliseconds >= 0 \/ gone)
Returned ==
    \/ part = "transport" /\ pc["p"] = "idle"
    \/ part = "operations" /\ rc # "none"
    \/ part = "wire" /\ action # "none"
    \/ part = "libusb" /\ "d" \in freed
    \/ part = "mac" /\ caller \in {"freed", "crashed"}
    \/ part = "win" /\ pc = "idle"

Sleeps ==
    \/ part = "libusb" /\ caller.at = "waiting"
    \/ part = "mac" /\ caller = "waiting"
Due ==
    \/ part = "libusb" /\ (queue["d"] # <<>> \/ "d" \in cancelled)
    \/ part = "mac" /\ (queue # <<>> \/ disconnected)

CallsReturn == (Called ~> Returned) /\ (Sleeps /\ Due ~> ~Sleeps)

=============================================================================

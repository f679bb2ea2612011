---------------------------- MODULE LibusbReader ------------------------------
(***************************************************************************)
(* The read threads of c_src/hidapi/hid-linux-libusb.c.  Every open device *)
(* has a thread that handles libusb's events and an input transfer that    *)
(* its callback submits again and again; the callback queues the reports   *)
(* for hid_read_timeout.  All devices share one usb_context, so the thread *)
(* of one device may run the callback of another.  One caller (the thread  *)
(* of main.c) opens, reads and closes.                                     *)
(*                                                                         *)
(* External: a transfer is in flight until it completes, with data, by its *)
(* 5 s timeout, with an error, because it was cancelled or because the     *)
(* device is gone; cancelling one that is not in flight does nothing; one  *)
(* thread at a time handles events.  What the mutex protects is one step.  *)
(***************************************************************************)
EXTENDS Naturals, Sequences

CONSTANTS
    Devices,
    NoDevice,           \* not a device
    QueueLimit,         \* the 30 of "num_queued > 30"
    MaxReports          \* bound: reports a device sends

LibusbAssumption ==
    /\ NoDevice \notin Devices
    /\ QueueLimit \in Nat
    /\ MaxReports \in Nat

VARIABLES
    plugged,    \* the devices that are there
    thread,     \* where read_thread of a device is
    transfer,   \* "none" until it is submitted, "idle", "flight", "cancelling"
    shutdown,   \* devices with shutdown_thread set
    cancelled,  \* devices with cancelled set
    queue,      \* input_reports, by number
    handler,    \* the device whose thread runs a callback
    callback,   \* the device the callback is for
    caller,     \* what the caller does, to which device
    freed,      \* devices whose hid_device was freed
    arrived, taken, failed  \* history: see ReportQueue

deviceVars == <<shutdown, cancelled, queue, transfer>>
history == <<arrived, taken, failed>>
vars == <<plugged, thread, deviceVars, handler, callback, caller, freed, history>>

Idle == [at |-> "idle", dev |-> NoDevice, mode |-> "none"]
Modes == {"blocking", "timed", "none"}

TypeOK ==
    /\ plugged \subseteq Devices
    /\ thread \in [Devices -> {"none", "start", "barrier", "loop", "events",
                               "cancel", "drain", "wake", "ended"}]
    /\ transfer \in [Devices -> {"none", "idle", "flight", "cancelling"}]
    /\ shutdown \subseteq Devices /\ cancelled \subseteq shutdown
    /\ \A d \in Devices :
          /\ queue[d] \in Seq(1 .. MaxReports)
          /\ Len(queue[d]) <= QueueLimit + 2
    /\ handler \in Devices \cup {NoDevice}
    /\ callback \in Devices \cup {NoDevice}
    /\ caller \in [at: {"idle", "opening", "waiting", "woken", "cancel", "join"},
                   dev: Devices \cup {NoDevice}, mode: Modes]
    /\ freed \subseteq Devices
    /\ arrived \in [Devices -> 0 .. MaxReports]
    /\ taken \in [Devices -> 0 .. MaxReports]
    /\ failed \subseteq Devices

Init ==
    /\ plugged = Devices
    /\ thread = [d \in Devices |-> "none"]
    /\ transfer = [d \in Devices |-> "none"]
    /\ shutdown = {} /\ cancelled = {}
    /\ queue = [d \in Devices |-> <<>>]
    /\ handler = NoDevice /\ callback = NoDevice
    /\ caller = Idle
    /\ freed = {}
    /\ arrived = [d \in Devices |-> 0]
    /\ taken = [d \in Devices |-> 0]
    /\ failed = {}

Unplug(d) ==
    /\ plugged' = plugged \ {d}
    /\ UNCHANGED <<thread, deviceVars, handler, callback, caller, freed, history>>

-----------------------------------------------------------------------------
(* read_thread.                                                            *)
GoTo(t, label) == thread' = [thread EXCEPT ![t] = label]

(* The first submission; it may fail, and its result is not looked at.     *)
Start(t) ==
    /\ thread[t] = "start"
    /\ GoTo(t, "barrier")
    /\ \/ t \in plugged /\ transfer' = [transfer EXCEPT ![t] = "flight"]
       \/ UNCHANGED transfer
    /\ UNCHANGED <<plugged, shutdown, cancelled, queue, handler, callback,
                   caller, freed, history>>

Loop(t) ==
    /\ thread[t] = "loop"
    /\ GoTo(t, IF t \in shutdown THEN "cancel" ELSE "events")
    /\ UNCHANGED <<plugged, deviceVars, handler, callback, caller, freed, history>>

(* libusb_cancel_transfer.                                                 *)
Cancel(d) ==
    transfer' = IF transfer[d] = "flight"
                THEN [transfer EXCEPT ![d] = "cancelling"] ELSE transfer

CancelPending(t) ==
    /\ thread[t] = "cancel"
    /\ Cancel(t)
    /\ GoTo(t, "drain")
    /\ UNCHANGED <<plugged, shutdown, cancelled, queue, handler, callback,
                   caller, freed, history>>

(* The drain loop goes on until the callback has seen the cancellation.    *)
(* Preceded by a variant that does not wait for it.                        *)
DrainedAtOnce(t) == thread[t] = "drain"
Drained(t) == thread[t] = "drain" /\ t \in cancelled

EndDrain(t) ==
    /\ Drained(t)
    /\ handler # t
    /\ GoTo(t, "wake")
    /\ UNCHANGED <<plugged, deviceVars, handler, callback, caller, freed, history>>

(* Signal or broadcast of the condition: a caller asleep on it wakes up.   *)
WakeCaller(d) ==
    IF caller.at = "waiting" /\ caller.dev = d
    THEN [caller EXCEPT !.at = "woken"] ELSE caller

Woken(d) == WakeCaller(d)

Broadcast(t) ==
    /\ thread[t] = "wake"
    /\ caller' = Woken(t)
    /\ GoTo(t, "ended")
    /\ UNCHANGED <<plugged, deviceVars, handler, callback, freed, history>>

-----------------------------------------------------------------------------
(* libusb_handle_events in either loop of the thread of t.                 *)
HandlesEvents(t) == thread[t] \in {"events", "drain"}

(* It returns without having run a callback, or for good on an error.      *)
ReturnEmpty(t) ==
    /\ thread[t] = "events"
    /\ handler # t
    /\ GoTo(t, "loop") \/ GoTo(t, "cancel")
    /\ UNCHANGED <<plugged, deviceVars, handler, callback, caller, freed, history>>

Pending(d) == transfer[d] \in {"flight", "cancelling"}

Queued(s, r) == Append(s, r)
KeepNewest(s) == IF Len(s) > QueueLimit + 2 THEN Tail(s) ELSE s

(* read_callback up to the submission: t runs it for d.                    *)
Received(t, d) ==
    /\ HandlesEvents(t) /\ handler = NoDevice
    /\ transfer[d] = "flight" /\ d \in plugged
    /\ transfer' = [transfer EXCEPT ![d] = "idle"]
    /\ handler' = t /\ callback' = d
    /\ \/ /\ arrived[d] < MaxReports
          /\ arrived' = [arrived EXCEPT ![d] = @ + 1]
          /\ queue' = [queue EXCEPT ![d] = KeepNewest(Queued(@, arrived'[d]))]
          /\ caller' = IF queue[d] = <<>> THEN WakeCaller(d) ELSE caller
       \/ UNCHANGED <<arrived, queue, caller>>      \* timeout or error
    /\ UNCHANGED <<plugged, thread, shutdown, cancelled, freed, taken, failed>>

(* ... and the submission.                                                 *)
FlagsSet(d) ==
    /\ shutdown' = shutdown \cup {d}
    /\ cancelled' = cancelled \cup {d}

AfterEvents(t) ==
    /\ handler' = NoDevice /\ callback' = NoDevice
    /\ GoTo(t, IF thread[t] = "events" THEN "loop" ELSE "drain")

Resubmit(t) ==
    /\ handler = t
    /\ \/ /\ callback \in plugged
          /\ transfer' = [transfer EXCEPT ![callback] = "flight"]
          /\ UNCHANGED <<shutdown, cancelled>>
       \/ FlagsSet(callback) /\ UNCHANGED transfer
    /\ AfterEvents(t)
    /\ UNCHANGED <<plugged, queue, caller, freed, history>>

(* The callback for a cancelled transfer or a device that is gone.         *)
Stopped(t, d) ==
    /\ HandlesEvents(t) /\ handler = NoDevice
    /\ transfer[d] = "cancelling" \/ (transfer[d] = "flight" /\ d \notin plugged)
    /\ transfer' = [transfer EXCEPT ![d] = "idle"]
    /\ FlagsSet(d)
    /\ AfterEvents(t)
    /\ UNCHANGED <<plugged, queue, caller, freed, history>>

-----------------------------------------------------------------------------
(* The caller.  hid_open_path starts the thread and meets it at the        *)
(* barrier; how it finds and claims the device is in LibusbOpen.           *)
Open(d) ==
    /\ caller = Idle
    /\ thread[d] = "none" /\ d \in plugged
    /\ GoTo(d, "start")
    /\ caller' = [at |-> "opening", dev |-> d, mode |-> "none"]
    /\ UNCHANGED <<plugged, deviceVars, handler, callback, freed, history>>

MeetAtBarrier(d) ==
    /\ caller.at = "opening" /\ caller.dev = d
    /\ thread[d] = "barrier"
    /\ GoTo(d, "loop")
    /\ caller' = Idle
    /\ UNCHANGED <<plugged, deviceVars, handler, callback, freed, history>>

IsOpen(d) == thread[d] \notin {"none", "start", "barrier"} /\ d \notin freed

(* return_data: the oldest report is handed out.                           *)
ReturnData(d) ==
    /\ queue[d] # <<>>
    /\ taken' = [taken EXCEPT ![d] = Head(queue[d])]
    /\ queue' = [queue EXCEPT ![d] = Tail(@)]
    /\ caller' = Idle
    /\ UNCHANGED failed

(* The read fails with -1.  Preceded by a variant that looks at the flag   *)
(* before the queue.                                                       *)
ShutdownFirst(d) == d \in shutdown
ReadsOver(d) == queue[d] = <<>> /\ d \in shutdown

ReturnError(d) ==
    /\ ReadsOver(d)
    /\ failed' = failed \cup {d}
    /\ caller' = Idle
    /\ UNCHANGED <<queue, taken>>

Sleep(d, mode) ==
    /\ queue[d] = <<>> /\ d \notin shutdown
    /\ caller' = IF mode = "none" THEN Idle
                 ELSE [at |-> "waiting", dev |-> d, mode |-> mode]
    /\ UNCHANGED <<queue, taken, failed>>

(* hid_read_timeout: blocking, with a timeout, or neither.                 *)
Read(d, mode) ==
    /\ caller = Idle
    /\ IsOpen(d)
    /\ ReturnData(d) \/ ReturnError(d) \/ Sleep(d, mode)
    /\ UNCHANGED <<plugged, thread, shutdown, cancelled, transfer, handler,
                   callback, freed, arrived>>

ReadOn(d) ==
    /\ caller.at = "woken" /\ caller.dev = d
    /\ ReturnData(d) \/ ReturnError(d) \/ Sleep(d, caller.mode)
    /\ UNCHANGED <<plugged, thread, shutdown, cancelled, transfer, handler,
                   callback, freed, arrived>>

(* The condition may wake up for nothing; a timed wait ends by itself.     *)
ReadTimeout ==
    /\ \/ caller.at = "waiting" /\ caller' = [caller EXCEPT !.at = "woken"]
       \/ /\ caller.at \in {"waiting", "woken"} /\ caller.mode = "timed"
          /\ caller' = Idle
    /\ UNCHANGED <<plugged, thread, deviceVars, handler, callback, freed, history>>

(* hid_close: flag, cancel, join, free.                                    *)
CloseFlag(d) ==
    /\ caller = Idle
    /\ IsOpen(d)
    /\ shutdown' = shutdown \cup {d}
    /\ caller' = [at |-> "cancel", dev |-> d, mode |-> "none"]
    /\ UNCHANGED <<plugged, thread, cancelled, queue, transfer, handler,
                   callback, freed, history>>

CloseCancel ==
    /\ caller.at = "cancel"
    /\ Cancel(caller.dev)
    /\ caller' = [caller EXCEPT !.at = "join"]
    /\ UNCHANGED <<plugged, thread, shutdown, cancelled, queue, handler,
                   callback, freed, history>>

CloseFree ==
    /\ caller.at = "join"
    /\ thread[caller.dev] = "ended"
    /\ freed' = freed \cup {caller.dev}
    /\ queue' = [queue EXCEPT ![caller.dev] = <<>>]
    /\ transfer' = [transfer EXCEPT ![caller.dev] =
                        IF Pending(caller.dev) THEN @ ELSE "none"]
    /\ caller' = Idle
    /\ UNCHANGED <<plugged, thread, shutdown, cancelled, handler, callback, history>>

-----------------------------------------------------------------------------
ThreadStep(t) ==
    Start(t) \/ Loop(t) \/ CancelPending(t) \/ EndDrain(t) \/ Broadcast(t)
        \/ ReturnEmpty(t) \/ Resubmit(t)

Complete(d) == \E t \in Devices : Received(t, d) \/ Stopped(t, d)

CallerStep(d) == MeetAtBarrier(d) \/ ReadOn(d)

Close == CloseCancel \/ CloseFree

Next ==
    \/ \E d \in Devices :
          \/ Unplug(d)
          \/ ThreadStep(d)
          \/ Complete(d)
          \/ CallerStep(d)
          \/ Open(d)
          \/ CloseFlag(d)
          \/ \E mode \in Modes : Read(d, mode)
    \/ ReadTimeout
    \/ Close

(* Threads run, and a transfer completes by its timeout at the latest.     *)
Fairness ==
    /\ \A d \in Devices :
          /\ WF_vars(ThreadStep(d))
          /\ SF_vars(Complete(d))
          /\ SF_vars(CallerStep(d))
    /\ WF_vars(Close)

Spec == Init /\ [][Next]_vars
FairSpec == Spec /\ Fairness

-----------------------------------------------------------------------------
(* Nothing of a device is used after hid_close has freed it: its thread    *)
(* has ended, its transfer is not pending, and no thread, its own or that  *)
(* of another device, is in its callback.                                  *)
NoUseAfterFree ==
    \A d \in freed :
        /\ thread[d] = "ended"
        /\ ~Pending(d)
        /\ callback # d

(* The reports of each device are queued, dropped and handed out as        *)
(* ReportQueue has it, whichever thread runs the callback, and a read      *)
(* fails only when the device is gone and its queue is empty.              *)
Reports(d) == INSTANCE ReportQueue WITH
    Capacity <- QueueLimit + 2,
    Drains <- TRUE,
    queue <- queue[d], arrived <- arrived[d], taken <- taken[d],
    gone <- d \in cancelled,
    failed <- d \in failed

ReportsInit == \A d \in Devices : Reports(d)!Init
ReportsStep == \A d \in Devices : UNCHANGED Reports(d)!vars \/ Reports(d)!Next

(* "Wait for read_thread() to end.": hid_close returns, once the transfer  *)
(* of the device has been submitted.  Not what the code does with two      *)
(* devices open.                                                           *)
Joins(d) == caller.at = "join" /\ caller.dev = d
CloseReturns == \A d \in Devices : Joins(d) /\ transfer[d] # "none" ~> d \in freed

(* "This call will fail if no transfers are pending, but that's OK."  Not  *)
(* what the code does: if the first submission has failed nothing ever     *)
(* sets cancelled, and hid_close never returns.                            *)
CloseReturnsAnyway == \A d \in Devices : Joins(d) ~> d \in freed

(* "Pop one off if we've reached 30 in the queue." Not what the code does: *)
(* it keeps up to QueueLimit + 2.                                          *)
QueueAtLimit == \A d \in Devices : Len(queue[d]) <= QueueLimit

=============================================================================

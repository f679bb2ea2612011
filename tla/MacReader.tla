------------------------------ MODULE MacReader -------------------------------
(***************************************************************************)
(* One open device of c_src/hidapi/hid-mac.c: its read thread, which runs  *)
(* a CFRunLoop that calls back with reports and with the removal of the    *)
(* device, and the caller that opens, reads and closes it.  The two meet   *)
(* at a barrier when the thread is up and at another before it ends; the   *)
(* barriers are the file's own, made of a mutex and a condition; nobody    *)
(* looks whether the condition has woken up for nothing.                   *)
(*                                                                         *)
(* External: the run loop calls back only while it runs and only what is   *)
(* registered; a signalled source stays signalled until its callback; the  *)
(* loop may find that it has no sources left once the device is gone.  To  *)
(* use a run loop that is not set crashes, to wake up that of a thread     *)
(* that has ended may.  What the mutex protects is one step.               *)
(***************************************************************************)
EXTENDS Naturals, Sequences

CONSTANTS
    QueueLimit,         \* the 30 of "num_queued > 30"
    MaxReports          \* bound: reports the device sends

MacAssumption == QueueLimit \in Nat /\ MaxReports \in Nat

VARIABLES
    plugged,        \* the device is there
    thread,         \* where read_thread is
    runLoop,        \* dev->run_loop and dev->source are set
    signalled,      \* the source is signalled
    registered,     \* the callbacks are registered
    disconnected, shutdown,     \* the flags
    queue,          \* input_reports, by number
    count,          \* count of each barrier
    passed,         \* who may leave a barrier it waits at
    caller,         \* where the caller is
    mode,           \* of the read it is in
    closedHandle,   \* IOHIDDeviceClose was called: on a device "in" or "out"
    arrived, taken, failed      \* history: see ReportQueue

flags == <<disconnected, shutdown, registered, signalled>>
barriers == <<count, passed>>
history == <<arrived, taken, failed>>
vars == <<plugged, thread, runLoop, flags, queue, barriers, caller, mode,
          closedHandle, history>>

Barriers == {"start", "shutdown"}
Modes == {"blocking", "timed", "none"}

TypeOK ==
    /\ plugged \in BOOLEAN
    /\ thread \in {"none", "start", "loop", "run", "wake",
                   "at start", "at shutdown", "ended"}
    /\ runLoop \in BOOLEAN /\ signalled \in BOOLEAN /\ registered \in BOOLEAN
    /\ disconnected \in BOOLEAN /\ shutdown \in BOOLEAN
    /\ queue \in Seq(1 .. MaxReports) /\ Len(queue) <= QueueLimit + 2
    /\ count \in [Barriers -> 0 .. 1]
    /\ passed \subseteq Barriers \X {"thread", "caller"}
    /\ caller \in {"new", "created", "at start", "idle", "waiting", "woken",
                   "unregistered", "signal", "at shutdown", "join", "freed", "crashed"}
    /\ mode \in Modes
    /\ closedHandle \in {"no", "in", "out"}
    /\ arrived \in 0 .. MaxReports /\ taken \in 0 .. MaxReports
    /\ failed \in BOOLEAN

Init ==
    /\ plugged = TRUE
    /\ thread = "none" /\ caller = "new" /\ mode = "none"
    /\ runLoop = FALSE /\ signalled = FALSE /\ registered = FALSE
    /\ disconnected = FALSE /\ shutdown = FALSE
    /\ queue = <<>>
    /\ count = [b \in Barriers |-> 0] /\ passed = {}
    /\ closedHandle = "no"
    /\ arrived = 0 /\ taken = 0 /\ failed = FALSE

Unplug ==
    /\ plugged /\ plugged' = FALSE
    /\ UNCHANGED <<thread, runLoop, flags, queue, barriers, caller, mode,
                   closedHandle, history>>

-----------------------------------------------------------------------------
(* pthread_barrier_wait, which the second to come opens for both.          *)
Partner(who) == IF who = "thread" THEN "caller" ELSE "thread"

Arrive(b, who) ==
    IF count[b] = 1
    THEN /\ count' = [count EXCEPT ![b] = 0]
         /\ passed' = passed \cup {<<b, who>>, <<b, Partner(who)>>}
    ELSE count' = [count EXCEPT ![b] = 1] /\ UNCHANGED passed

Pass(b, who) ==
    /\ <<b, who>> \in passed
    /\ passed' = passed \ {<<b, who>>}
    /\ UNCHANGED count

Place == [start |-> "at start", shutdown |-> "at shutdown"]
Waits(b, who) == Place[b] = IF who = "thread" THEN thread ELSE caller

(* pthread_cond_wait may return for nothing, and what it waited for is not *)
(* looked at again.                                                        *)
WakeUp(b, who) ==
    /\ Waits(b, who)
    /\ passed' = passed \cup {<<b, who>>}
    /\ UNCHANGED <<plugged, thread, runLoop, flags, queue, count, caller, mode,
                   closedHandle, history>>

(* The process is still there.                                             *)
Runs == caller # "crashed"

(* Signal or broadcast of the condition of the reads.                      *)
WakeCaller == IF caller = "waiting" THEN "woken" ELSE caller

-----------------------------------------------------------------------------
(* read_thread.                                                            *)
StartThread ==
    /\ thread = "start"
    /\ runLoop' = TRUE
    /\ Arrive("start", "thread")
    /\ thread' = "at start"
    /\ UNCHANGED <<plugged, flags, queue, caller, mode, closedHandle, history>>

ThreadIsUp ==
    /\ thread = "at start"
    /\ Pass("start", "thread")
    /\ thread' = "loop"
    /\ UNCHANGED <<plugged, runLoop, flags, queue, caller, mode, closedHandle, history>>

Loop ==
    /\ thread = "loop"
    /\ thread' = IF shutdown \/ disconnected THEN "wake" ELSE "run"
    /\ UNCHANGED <<plugged, runLoop, flags, queue, barriers, caller, mode,
                   closedHandle, history>>

(* CFRunLoopRunInMode times out and the loop goes round ...                *)
RunTimeout ==
    /\ thread = "run"
    /\ thread' = "loop"
    /\ UNCHANGED <<plugged, runLoop, flags, queue, barriers, caller, mode,
                   closedHandle, history>>

(* ... or it has finished, which the thread takes for a disconnection.     *)
RunFinished ==
    /\ thread = "run"
    /\ ~plugged
    /\ disconnected' = TRUE
    /\ thread' = "wake"
    /\ UNCHANGED <<plugged, runLoop, shutdown, registered, signalled, queue, barriers,
                   caller, mode, closedHandle, history>>

KeepNewest(s) == IF Len(s) > QueueLimit + 2 THEN Tail(s) ELSE s

(* Preceded by a variant that drops the new report when the queue is full. *)
DropNew(s, r) == IF Len(s) = QueueLimit + 2 THEN s ELSE Append(s, r)
Queued(s, r) == KeepNewest(Append(s, r))

(* hid_report_callback.                                                    *)
ReportCallback ==
    /\ thread = "run"
    /\ registered /\ plugged
    /\ arrived < MaxReports
    /\ arrived' = arrived + 1
    /\ queue' = Queued(queue, arrived')
    /\ caller' = WakeCaller
    /\ UNCHANGED <<plugged, thread, runLoop, flags, barriers, mode, closedHandle,
                   taken, failed>>

(* hid_device_removal_callback stops the run loop, and so does             *)
(* perform_signal_callback; "stopped" is taken for an error.               *)
StopsLoop == thread' = "wake" /\ shutdown' = TRUE

RemovalCallback ==
    /\ thread = "run"
    /\ registered /\ ~plugged
    /\ disconnected' = TRUE
    /\ StopsLoop
    /\ UNCHANGED <<plugged, runLoop, registered, signalled, queue, barriers, caller,
                   mode, closedHandle, history>>

SignalCallback ==
    /\ thread = "run"
    /\ signalled
    /\ signalled' = FALSE
    /\ StopsLoop
    /\ UNCHANGED <<plugged, runLoop, registered, disconnected, queue, barriers,
                   caller, mode, closedHandle, history>>

(* Preceded by a variant that forgets to broadcast.                        *)
NotWoken == caller
Woken == WakeCaller

Broadcast ==
    /\ thread = "wake"
    /\ caller' = Woken
    /\ thread' = "at shutdown"
    /\ Arrive("shutdown", "thread")
    /\ UNCHANGED <<plugged, runLoop, flags, queue, mode, closedHandle, history>>

EndThread ==
    /\ thread = "at shutdown"
    /\ Pass("shutdown", "thread")
    /\ thread' = "ended"
    /\ UNCHANGED <<plugged, runLoop, flags, queue, caller, mode, closedHandle, history>>

-----------------------------------------------------------------------------
(* hid_open_path once IOHIDDeviceOpen has succeeded; when it does not,     *)
(* everything is freed and NULL is returned.                               *)
Open ==
    /\ caller = "new" /\ plugged
    /\ registered' = TRUE
    /\ thread' = "start"
    /\ caller' = "created"
    /\ UNCHANGED <<plugged, runLoop, disconnected, shutdown, signalled, queue, barriers,
                   mode, closedHandle, history>>

OpenMeet ==
    /\ caller = "created"
    /\ Arrive("start", "caller")
    /\ caller' = "at start"
    /\ UNCHANGED <<plugged, thread, runLoop, flags, queue, mode, closedHandle, history>>

Opened ==
    /\ caller = "at start"
    /\ Pass("start", "caller")
    /\ caller' = "idle"
    /\ UNCHANGED <<plugged, thread, runLoop, flags, queue, mode, closedHandle, history>>

ReturnData ==
    /\ queue # <<>>
    /\ taken' = Head(queue) /\ queue' = Tail(queue)
    /\ caller' = "idle"
    /\ UNCHANGED failed

ReturnError ==
    /\ disconnected \/ shutdown
    /\ failed' = TRUE
    /\ caller' = "idle"
    /\ UNCHANGED <<queue, taken>>

(* hid_read_timeout: what is queued comes first ...                        *)
Read(m) ==
    /\ caller = "idle"
    /\ \/ ReturnData /\ UNCHANGED mode
       \/ queue = <<>> /\ ReturnError /\ UNCHANGED mode
       \/ /\ queue = <<>> /\ ~disconnected /\ ~shutdown
          /\ caller' = IF m = "none" THEN "idle" ELSE "waiting"
          /\ mode' = m
          /\ UNCHANGED <<queue, taken, failed>>
    /\ UNCHANGED <<plugged, thread, runLoop, flags, barriers, closedHandle, arrived>>

(* ... but cond_wait and cond_timedwait look at the flags first.           *)
ReadOn ==
    /\ caller = "woken"
    /\ \/ ReturnError
       \/ ~disconnected /\ ~shutdown /\ ReturnData
       \/ /\ ~disconnected /\ ~shutdown /\ queue = <<>>
          /\ caller' = "waiting"
          /\ UNCHANGED <<queue, taken, failed>>
    /\ UNCHANGED <<plugged, thread, runLoop, flags, barriers, mode, closedHandle,
                   arrived>>

ReadTimeout ==
    /\ \/ caller = "waiting" /\ caller' = "woken"
       \/ caller \in {"waiting", "woken"} /\ mode = "timed" /\ caller' = "idle"
    /\ UNCHANGED <<plugged, thread, runLoop, flags, queue, barriers, mode,
                   closedHandle, history>>

(* hid_close.                                                              *)
CloseUnregister ==
    /\ caller = "idle"
    /\ registered' = (registered /\ disconnected)
    /\ caller' = IF runLoop THEN "unregistered" ELSE "crashed"
    /\ UNCHANGED <<plugged, thread, runLoop, disconnected, shutdown, signalled,
                   queue, barriers, mode, closedHandle, history>>

CloseFlag ==
    /\ caller = "unregistered"
    /\ shutdown' = TRUE
    /\ caller' = "signal"
    /\ UNCHANGED <<plugged, thread, runLoop, disconnected, registered, signalled,
                   queue, barriers, mode, closedHandle, history>>

(* The run loop has to be woken up.                                        *)
Signalled == TRUE

CloseSignal ==
    /\ caller = "signal"
    /\ signalled' = Signalled
    /\ \/ Arrive("shutdown", "caller") /\ caller' = "at shutdown"
       \/ thread = "ended" /\ caller' = "crashed" /\ UNCHANGED barriers
    /\ UNCHANGED <<plugged, thread, runLoop, disconnected, shutdown, registered,
                   queue, mode, closedHandle, history>>

CloseMeet ==
    /\ caller = "at shutdown"
    /\ Pass("shutdown", "caller")
    /\ caller' = "join"
    /\ UNCHANGED <<plugged, thread, runLoop, flags, queue, mode, closedHandle, history>>

CloseJoin ==
    /\ caller = "join"
    /\ thread = "ended"
    /\ caller' = "freed"
    /\ closedHandle' = IF disconnected THEN "no" ELSE IF plugged THEN "in" ELSE "out"
    /\ queue' = <<>>
    /\ UNCHANGED <<plugged, thread, runLoop, flags, barriers, mode, history>>

-----------------------------------------------------------------------------
ThreadStep ==
    /\ Runs
    /\ \/ StartThread \/ ThreadIsUp \/ Loop \/ Broadcast \/ EndThread
       \/ RemovalCallback \/ SignalCallback

Callback == Runs /\ (RemovalCallback \/ SignalCallback)

CloseStep == CloseFlag \/ CloseSignal \/ CloseMeet \/ CloseJoin

Next ==
    \/ Unplug \/ ThreadStep
    \/ Runs /\ (RunTimeout \/ RunFinished \/ ReportCallback)
    \/ \E b \in Barriers, who \in {"thread", "caller"} : Runs /\ WakeUp(b, who)
    \/ Open \/ OpenMeet \/ Opened \/ ReadOn \/ ReadTimeout \/ CloseUnregister \/ CloseStep
    \/ \E m \in Modes : Read(m)

(* The threads run; the run loop does not put off a callback for ever.     *)
(* Nothing makes a condition wake up for nothing.                          *)
Spec == Init /\ [][Next]_vars
FairSpec ==
    /\ Spec
    /\ SF_vars(ThreadStep)
    /\ SF_vars(Callback)
    /\ WF_vars(OpenMeet \/ Opened) /\ SF_vars(ReadOn) /\ WF_vars(CloseStep)

-----------------------------------------------------------------------------
(* "Ensures correct startup sequence": the caller has no device whose run  *)
(* loop is not set.  "Ensures correct shutdown sequence": the thread is    *)
(* still there when hid_close wakes up its run loop.  Not kept when a      *)
(* barrier wakes up for nothing.                                           *)
StartupOrdered == caller \notin {"new", "created", "at start"} => runLoop
ShutdownOrdered ==
    thread = "ended" => caller \in {"at shutdown", "join", "freed"}
SequencesOrdered == StartupOrdered /\ ShutdownOrdered

(* One has come to a barrier and gone on, and the other has not come.      *)
WentAlone(b) == count[b] = 1 /\ ~Waits(b, "thread") /\ ~Waits(b, "caller")

(* Nothing but a barrier that wakes up for nothing breaks either sequence, *)
(* and then only that of its own.                                          *)
SequencesKept ==
    /\ StartupOrdered \/ WentAlone("start")
    /\ ShutdownOrdered \/ WentAlone("shutdown")

(* The reports are queued, dropped and handed out as ReportQueue has it.   *)
(* A read may fail with reports left.                                      *)
Reports == INSTANCE ReportQueue WITH
    Capacity <- QueueLimit + 2,
    Drains <- FALSE,
    gone <- disconnected \/ shutdown

ReportsInit == Reports!Init
ReportsStep == Reports!Next \/ UNCHANGED Reports!vars

(* "Check to see that there's acutally data in the queue before            *)
(* returning": a read does not fail while reports are left to hand out.    *)
(* Not what the code does: cond_wait looks at the flags first.             *)
FailsWhenEmpty == [][failed' # failed => queue = <<>>]_vars

(* "If it's been unplugged, then calling IOHIDDeviceClose() will crash."   *)
(* Not avoided when the device goes after its callback was unregistered.   *)
ClosesPlugged == closedHandle # "out"

=============================================================================

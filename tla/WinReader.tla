------------------------------ MODULE WinReader -------------------------------
(***************************************************************************)
(* The reads of an open device on Windows (hid_read_timeout, hid_read and  *)
(* hid_set_nonblocking of c_src/hidapi/hid-win.c).  A read that times out  *)
(* goes on in the kernel, into the buffer of the device, and the next call *)
(* takes up its result.  The kernel keeps the reports nobody asked for in  *)
(* a ring, and drops the oldest when it is full.                           *)
(*                                                                         *)
(* Reports are numbered as they arrive.                                    *)
(***************************************************************************)
EXTENDS Integers, Sequences

CONSTANTS
    RingSize,       \* HidD_SetNumInputBuffers: 64
    MaxReports      \* bound: the reports that arrive

WinReaderAssumption == RingSize \in Nat \ {0} /\ MaxReports \in Nat

VARIABLES
    pc,             \* "idle", or where in hid_read_timeout
    blocking,       \* blocking of the device
    milliseconds,   \* the argument of the call: -1, or 0 for any other
    read_pending, read_buf, event,      \* of the device
    io,             \* the overlapped read: "none", "pending", "done" or "error"
    started,        \* reads in the kernel that use read_buf
    ring, gone,     \* of the kernel
    arrived, dropped, taken             \* history: the last report, sets of reports

vars == <<pc, blocking, milliseconds, read_pending, read_buf, event, io, started,
          ring, gone, arrived, dropped, taken>>

TypeOK ==
    /\ pc \in {"idle", "wait", "get"}
    /\ blocking \in BOOLEAN /\ milliseconds \in {-1, 0}
    /\ read_pending \in BOOLEAN /\ event \in BOOLEAN
    /\ read_buf \in 0 .. MaxReports
    /\ io \in {"none", "pending", "done", "error"}
    /\ started \in 0 .. 1
    /\ ring \in Seq(1 .. MaxReports) /\ Len(ring) <= RingSize
    /\ gone \in BOOLEAN
    /\ arrived \in 0 .. MaxReports
    /\ dropped \subseteq 1 .. arrived
    /\ taken \in Seq(1 .. arrived)

Init ==
    /\ pc = "idle" /\ blocking = TRUE /\ milliseconds = -1
    /\ read_pending = FALSE /\ read_buf = 0 /\ event = FALSE
    /\ io = "none" /\ started = 0
    /\ ring = <<>> /\ gone = FALSE
    /\ arrived = 0 /\ dropped = {} /\ taken = <<>>

kernel == <<ring, gone, arrived, dropped>>

-----------------------------------------------------------------------------
(* ReadFile, from the ring if there is a report in it.  Preceded by a      *)
(* variant that leaves read_pending set when it fails.                     *)
StillPending == TRUE
AfterFailure == FALSE

(* Whether the call waits for the event only.                              *)
Limited(ms) == ms >= 0

StartRead(ms) ==
    /\ milliseconds' = ms
    /\ IF gone
       THEN /\ pc' = "idle"
            /\ read_pending' = AfterFailure
            /\ read_buf' = 0 /\ event' = FALSE
            /\ UNCHANGED <<io, started, ring>>
       ELSE /\ pc' = IF Limited(ms) THEN "wait" ELSE "get"
            /\ read_pending' = TRUE
            /\ event' = (ring # <<>>)
            /\ read_buf' = IF ring # <<>> THEN Head(ring) ELSE 0
            /\ ring' = IF ring # <<>> THEN Tail(ring) ELSE ring
            /\ io' = IF ring # <<>> THEN "done" ELSE "pending"
            /\ started' = started + (IF ring # <<>> THEN 0 ELSE 1)

TakeUp(ms) ==
    /\ milliseconds' = ms
    /\ pc' = IF Limited(ms) THEN "wait" ELSE "get"
    /\ UNCHANGED <<read_pending, read_buf, event, io, started, ring>>

Running == read_pending

ReadTimeout(ms) ==
    /\ pc = "idle"
    /\ IF Running THEN TakeUp(ms) ELSE StartRead(ms)
    /\ UNCHANGED <<blocking, gone, arrived, dropped, taken>>

Read == ReadTimeout(IF blocking THEN -1 ELSE 0)

SetNonblocking(nonblock) ==
    /\ pc = "idle"
    /\ blocking' = ~nonblock
    /\ UNCHANGED <<pc, milliseconds, read_pending, read_buf, event, io, started, kernel, taken>>

(* WaitForSingleObject: the event resets itself.                           *)
Signalled ==
    /\ pc = "wait" /\ event
    /\ event' = FALSE
    /\ pc' = "get"
    /\ UNCHANGED <<blocking, milliseconds, read_pending, read_buf, io, started, kernel, taken>>

Timeout ==
    /\ pc = "wait" /\ ~event
    /\ pc' = "idle"
    /\ UNCHANGED <<blocking, milliseconds, read_pending, read_buf, event, io, started,
                   kernel, taken>>

(* GetOverlappedResult, which waits while the read is under way.           *)
GetResult ==
    /\ pc = "get" /\ io \in {"done", "error"}
    /\ pc' = "idle"
    /\ read_pending' = FALSE
    /\ taken' = IF io = "done" THEN Append(taken, read_buf) ELSE taken
    /\ io' = "none"
    /\ UNCHANGED <<blocking, milliseconds, read_buf, event, started, kernel>>

(* The kernel.                                                             *)
Arrive ==
    /\ ~gone /\ arrived < MaxReports
    /\ arrived' = arrived + 1
    /\ IF io = "pending"
       THEN /\ io' = "done" /\ event' = TRUE
            /\ read_buf' = arrived'
            /\ started' = started - 1
            /\ UNCHANGED <<ring, dropped>>
       ELSE /\ ring' = Append(IF Len(ring) = RingSize THEN Tail(ring) ELSE ring, arrived')
            /\ dropped' = dropped \cup (IF Len(ring) = RingSize THEN {Head(ring)} ELSE {})
            /\ UNCHANGED <<io, event, read_buf, started>>
    /\ UNCHANGED <<pc, blocking, milliseconds, read_pending, gone, taken>>

Unplug ==
    /\ ~gone
    /\ gone' = TRUE
    /\ ring' = <<>>
    /\ dropped' = dropped \cup {ring[k] : k \in DOMAIN ring}
    /\ IF io = "pending"
       THEN io' = "error" /\ event' = TRUE /\ started' = started - 1
       ELSE UNCHANGED <<io, event, started>>
    /\ UNCHANGED <<pc, blocking, milliseconds, read_pending, read_buf, arrived, taken>>

Call == Read \/ (\E ms \in {-1, 0} : ReadTimeout(ms)) \/ \E b \in BOOLEAN : SetNonblocking(b)
Return == Signalled \/ Timeout \/ GetResult
Next == Call \/ Return \/ Arrive \/ Unplug

\* a call that is not waiting goes on
Spec == Init /\ [][Next]_vars /\ WF_vars(Return)

-----------------------------------------------------------------------------
Reports(s) == {s[k] : k \in DOMAIN s}
Buffered == IF io = "done" THEN {read_buf} ELSE {}

(* However often reads time out, each report is handed out at most once    *)
(* and in the order of arrival, and none is lost but those the kernel      *)
(* dropped: one that arrives after the timeout waits in the buffer of the  *)
(* device for the next call.                                               *)
NoneLost ==
    /\ \A k \in 2 .. Len(taken) : taken[k - 1] < taken[k]
    /\ 1 .. arrived = Reports(taken) \cup Buffered \cup Reports(ring) \cup dropped

(* The kernel reads into the buffer of the device at most once at a time,  *)
(* and only as long as the device remembers that it does.                  *)
OneRead == started <= 1 /\ (started = 1 => read_pending) /\ (read_pending <=> io # "none")

=============================================================================

------------------------------ MODULE Transport ------------------------------
(***************************************************************************)
(* u2fh_sendrecv (c_src/libu2f-host/u2fmisc.c): one command to a device,   *)
(* cut into frames, and its answer, put together from frames.  Several     *)
(* programs may have the device open; each has its own queue of input      *)
(* reports, and the device's reports go to all of them.  A program calls   *)
(* u2fh_sendrecv the way devs.c and main.c do: INIT on a new handle, then  *)
(* PING or MSG; after a failed MSG the device is pinged first, and after a *)
(* failed INIT or PING the handle is closed.                               *)
(*                                                                         *)
(* The device is external.  It handles what it receives in order and       *)
(* answers each message, on the channel it came from, with the command it  *)
(* came with - or with an error - as late as it likes.  An INIT is         *)
(* answered with a channel that is new.                                    *)
(*                                                                         *)
(* Payloads are left out: a frame carries the call it answers and how many *)
(* bytes of the message it holds.                                          *)
(***************************************************************************)
EXTENDS Naturals, Sequences, FiniteSets

CONSTANTS
    Programs,       \* the programs that use the device
    InitData,       \* sizeof (frame.init.data), 57
    ContData,       \* sizeof (frame.cont.data), 59
    HidTimeout,     \* HID_TIMEOUT, the first window
    MaxTimeout,     \* HID_MAX_TIMEOUT
    SendLens,       \* lengths of MSG commands that are tried
    AnswerLens,     \* lengths of MSG answers that are tried
    QueueLimit,     \* reports a queue can hold
    MaxCalls        \* bound: calls of u2fh_sendrecv of all programs

(* The answer to an INIT, 17 bytes, fits into one frame.                   *)
SizesAssumption ==
    /\ IsFiniteSet(Programs)
    /\ InitData \in Nat /\ InitData >= 17 /\ ContData \in Nat \ {0}
    /\ HidTimeout \in Nat \ {0} /\ MaxTimeout \in Nat /\ HidTimeout <= MaxTimeout
    /\ SendLens \subseteq Nat /\ AnswerLens \subseteq Nat
    /\ QueueLimit \in Nat \ {0} /\ MaxCalls \in Nat

Broadcast == 0
Commands == {"INIT", "PING", "MSG"}
NoResult == [rc |-> "none", cmd |-> "INIT", len |-> 0, of |-> <<>>]
NoAnswer == [len |-> 0, recvd |-> 0, of |-> <<>>]

VARIABLES
    state,      \* what the program knows: "closed", "new", "ready", "suspect"
    pc,         \* where it is in u2fh_sendrecv: "idle", "send", "read"
    cid,        \* dev->cid
    call,       \* cmd and sendlen of the call, and its number
    datasent,   \* datasent
    sequence,   \* sequence
    timeout,    \* timeout
    got,        \* the answer so far: datalen, recvddata, frames taken
    result,     \* rc of the last call, and the frames of its answer
    queue,      \* per program: input reports not yet read
    inbox,      \* device: the message it is receiving, per channel
    jobs,       \* device: messages to answer
    emitting,   \* device: frames of the current answer still to be sent
    channels,   \* device: channels given out so far
    raced       \* history: channels given out while two waited for one

locals == <<datasent, sequence, timeout, got>>
progVars == <<state, pc, cid, call, locals, result>>
devVars == <<inbox, jobs, emitting, channels, raced>>
vars == <<progVars, queue, devVars>>

Lens == SendLens \cup AnswerLens \cup {1, 8, 17}
Channels == 0 .. MaxCalls
Calls == [by: Programs, no: 1 .. MaxCalls]

TypeOK ==
    /\ state \in [Programs -> {"closed", "new", "ready", "suspect"}]
    /\ pc \in [Programs -> {"idle", "send", "read"}]
    /\ cid \in [Programs -> Channels]
    /\ \A p \in Programs :
          /\ call[p].cmd \in Commands /\ call[p].len \in Lens \cup {0}
          /\ call[p].no \in 0 .. MaxCalls
          /\ datasent[p] <= call[p].len
          /\ timeout[p] <= 2 * MaxTimeout
          /\ \A k \in DOMAIN got[p].of : got[p].of[k] \in Calls \X Nat
          /\ result[p].rc \in {"none", "OK", "TRANSPORT_ERROR"}
    /\ channels \in Channels

Init ==
    /\ state = [p \in Programs |-> "closed"]
    /\ pc = [p \in Programs |-> "idle"]
    /\ cid = [p \in Programs |-> Broadcast]
    /\ call = [p \in Programs |-> [cmd |-> "INIT", len |-> 0, no |-> 0]]
    /\ datasent = [p \in Programs |-> 0]
    /\ sequence = [p \in Programs |-> 0]
    /\ timeout = [p \in Programs |-> HidTimeout]
    /\ got = [p \in Programs |-> NoAnswer]
    /\ result = [p \in Programs |-> NoResult]
    /\ queue = [p \in Programs |-> <<>>]
    /\ inbox = {}
    /\ jobs = <<>>
    /\ emitting = <<>>
    /\ channels = 0
    /\ raced = {}

-----------------------------------------------------------------------------
(* The caller.  Which commands a program may send in what it knows.        *)
Allowed(s) ==
    CASE s = "new" -> {"INIT"}
      [] s = "ready" -> {"PING", "MSG"}
      [] s = "suspect" -> {"PING"}
      [] OTHER -> {}

CanCall == Cardinality({c \in Calls : c.no <= call[c.by].no}) < MaxCalls

CommandLens(cmd) == CASE cmd = "INIT" -> {8} [] cmd = "PING" -> {1}
                      [] OTHER -> SendLens

(* hid_open_path: a handle starts with an empty queue.  Preceded by a      *)
(* variant that uses the old handle again.                                 *)
ReusedHandle(p) == queue[p]
FirstQueue(p) == <<>>

Open(p) ==
    /\ state[p] = "closed"
    /\ CanCall
    /\ state' = [state EXCEPT ![p] = "new"]
    /\ cid' = [cid EXCEPT ![p] = Broadcast]
    /\ queue' = [queue EXCEPT ![p] = FirstQueue(p)]
    /\ UNCHANGED <<pc, call, locals, result, devVars>>

(* Entry of u2fh_sendrecv.                                                 *)
Call(p) ==
    /\ pc[p] = "idle"
    /\ CanCall
    /\ \E cmd \in Allowed(state[p]) : \E len \in CommandLens(cmd) :
          call' = [call EXCEPT ![p] =
                      [cmd |-> cmd, len |-> len, no |-> call[p].no + 1]]
    /\ pc' = [pc EXCEPT ![p] = IF call'[p].len > 0 THEN "send" ELSE "read"]
    /\ result' = [result EXCEPT ![p] = NoResult]
    /\ UNCHANGED <<state, cid, locals, queue, devVars>>

(* What the caller makes of the result: init_device takes the channel of   *)
(* the answer, whichever program's INIT it answers.                        *)
StateAfter(cmd, rc) ==
    IF rc = "OK" THEN "ready" ELSE IF cmd = "MSG" THEN "suspect" ELSE "closed"

Return(p, rc, answer) ==
    /\ pc' = [pc EXCEPT ![p] = "idle"]
    /\ result' = [result EXCEPT ![p] = [rc |-> rc, cmd |-> call[p].cmd,
                                        len |-> answer.len, of |-> answer.of]]
    /\ state' = [state EXCEPT ![p] = StateAfter(call[p].cmd, rc)]
    /\ datasent' = [datasent EXCEPT ![p] = 0]
    /\ sequence' = [sequence EXCEPT ![p] = 0]
    /\ timeout' = [timeout EXCEPT ![p] = HidTimeout]
    /\ got' = [got EXCEPT ![p] = NoAnswer]

Fail(p) == Return(p, "TRANSPORT_ERROR", NoAnswer)

-----------------------------------------------------------------------------
Smaller(a, b) == IF a < b THEN a ELSE b

FrameTo(p) ==
    IF datasent[p] = 0
    THEN [cid |-> cid[p], cmd |-> call[p].cmd, seq |-> 0,
          total |-> call[p].len, size |-> Smaller(call[p].len, InitData)]
    ELSE [cid |-> cid[p], cmd |-> "CONT", seq |-> sequence[p], total |-> 0,
          size |-> Smaller(call[p].len - datasent[p], ContData)]

(* The device puts frames on one channel together; an initial frame starts *)
(* anew.  A message that is complete is a job.                             *)
Received(f, who) ==
    LET open == {m \in inbox : m.cid = f.cid}
        old == CHOOSE m \in open : TRUE
        first == f.cmd # "CONT"
        new == IF first
               THEN [cid |-> f.cid, cmd |-> f.cmd, total |-> f.total,
                     have |-> f.size, next |-> 0, of |-> who]
               ELSE [old EXCEPT !.have = @ + f.size, !.next = @ + 1]
        rest == inbox \ open
    IN IF ~first /\ (open = {} \/ old.next # f.seq)
       THEN inbox' = rest /\ UNCHANGED jobs
       ELSE IF new.have = new.total
            THEN inbox' = rest /\ jobs' = Append(jobs, new)
            ELSE inbox' = rest \cup {new} /\ UNCHANGED jobs

(* One turn of the loop that sends: hid_write takes the frame, or fails.   *)
Send(p) ==
    /\ pc[p] = "send"
    /\ LET f == FrameTo(p) IN
       \/ /\ Received(f, [by |-> p, no |-> call[p].no])
          /\ datasent' = [datasent EXCEPT ![p] = @ + f.size]
          /\ sequence' = [sequence EXCEPT ![p] =
                             IF datasent[p] = 0 THEN 0 ELSE @ + 1]
          /\ IF call[p].len > datasent'[p]
             THEN UNCHANGED pc
             ELSE pc' = [pc EXCEPT ![p] = "read"]
          /\ UNCHANGED <<state, timeout, got, result>>
       \/ Fail(p) /\ UNCHANGED <<inbox, jobs>>
    /\ UNCHANGED <<cid, call, queue, emitting, channels, raced>>

-----------------------------------------------------------------------------
Fits(p, f) == f.cid = cid[p] /\ f.cmd = call[p].cmd
Continues(p, f) == f.cid = cid[p] /\ f.cmd = "CONT" /\ f.seq = sequence[p]

(* The test of line 264 is against the buffers of 1024 bytes of all        *)
(* callers; answers of the model are never that long.  Preceded by a       *)
(* variant that takes all frames for equally long.                         *)
TakenAlike(p, f) ==
    [len |-> IF got[p].of = <<>> THEN f.total ELSE got[p].len,
     recvd |-> got[p].recvd + ContData, of |-> Append(got[p].of, f.id)]

Taken(p, f) ==
    IF got[p].of = <<>>
    THEN [len |-> f.total, recvd |-> InitData, of |-> <<f.id>>]
    ELSE [got[p] EXCEPT !.recvd = @ + ContData, !.of = Append(@, f.id)]

Doubled(t) == 2 * t
LastWindow(p) == Doubled(timeout[p]) > MaxTimeout

(* A window passes in silence.                                             *)
ReadTimeout(p) ==
    /\ pc[p] = "read"
    /\ queue[p] = <<>>
    /\ IF LastWindow(p)
       THEN Fail(p)
       ELSE /\ timeout' = [timeout EXCEPT ![p] = Doubled(@)]
            /\ UNCHANGED <<pc, state, datasent, sequence, got, result>>
    /\ UNCHANGED <<cid, call, queue, devVars>>

(* hid_read_timeout fails, for example because the device is gone.         *)
ReadFails(p) ==
    /\ pc[p] = "read"
    /\ Fail(p)
    /\ UNCHANGED <<cid, call, queue, devVars>>

(* hid_read_timeout returns a report - but a report that comes in the last *)
(* window is dropped, since the timeout is doubled and tested after the    *)
(* read.  The first report must be the initial frame, the others must      *)
(* continue it.                                                            *)
Read(p) ==
    /\ pc[p] = "read"
    /\ queue[p] # <<>>
    /\ queue' = [queue EXCEPT ![p] = Tail(@)]
    /\ LET f == Head(queue[p])
           first == got[p].of = <<>>
           good == IF first THEN Fits(p, f) ELSE Continues(p, f)
           now == Taken(p, f)
       IN CASE LastWindow(p) \/ ~good -> Fail(p) /\ UNCHANGED cid
            [] ~(LastWindow(p) \/ ~good) /\ now.len > now.recvd ->
                 /\ timeout' = [timeout EXCEPT ![p] = HidTimeout]
                 /\ sequence' = [sequence EXCEPT ![p] = IF first THEN 0 ELSE @ + 1]
                 /\ got' = [got EXCEPT ![p] = now]
                 /\ UNCHANGED <<pc, state, cid, datasent, result>>
            [] OTHER ->
                 /\ Return(p, "OK", now)
                 /\ cid' = IF call[p].cmd = "INIT"
                           THEN [cid EXCEPT ![p] = f.new] ELSE cid
    /\ UNCHANGED <<call, devVars>>

-----------------------------------------------------------------------------
FramesFor(len) ==
    IF len <= InitData THEN 1 ELSE 1 + (len - InitData + ContData - 1) \div ContData

Waiting == {p \in Programs : state[p] = "new"}

(* The device answers the next message: with an error, or with the command.*)
Answer ==
    /\ jobs # <<>>
    /\ emitting = <<>>
    /\ LET j == Head(jobs)
           lens == CASE j.cmd = "INIT" -> {17} [] j.cmd = "PING" -> {j.total}
                     [] OTHER -> AnswerLens
           Frame(k, len) == [cid |-> j.cid, id |-> <<j.of, k>>, total |-> len,
                             cmd |-> IF k = 1 THEN j.cmd ELSE "CONT",
                             seq |-> IF k = 1 THEN 0 ELSE k - 2, new |-> channels']
       IN \/ \E len \in lens :
                /\ channels' = IF j.cmd = "INIT" THEN channels + 1 ELSE channels
                /\ emitting' = [k \in 1 .. FramesFor(len) |-> Frame(k, len)]
          \/ /\ emitting' = <<[cid |-> j.cid, id |-> <<j.of, 1>>, total |-> 1,
                               cmd |-> "ERROR", seq |-> 0, new |-> Broadcast]>>
             /\ UNCHANGED channels
    /\ jobs' = Tail(jobs)
    /\ UNCHANGED <<progVars, queue, inbox, raced>>

(* A report reaches every program that has the device open.  A queue that  *)
(* is full loses it (hidraw), or its oldest one (hidapi with libusb).      *)
With(q, f, oldest) ==
    IF Len(q) < QueueLimit THEN Append(q, f)
    ELSE IF oldest THEN Append(Tail(q), f) ELSE q

Emit ==
    /\ emitting # <<>>
    /\ \E oldest \in BOOLEAN :
          queue' = [p \in Programs |-> IF state[p] = "closed" THEN queue[p]
                                      ELSE With(queue[p], Head(emitting), oldest)]
    /\ emitting' = Tail(emitting)
    /\ raced' = IF Head(emitting).cmd = "INIT" /\ Cardinality(Waiting) > 1
                THEN raced \cup {Head(emitting).new} ELSE raced
    /\ UNCHANGED <<progVars, inbox, jobs, channels>>

Next ==
    \/ \E p \in Programs :
          Open(p) \/ Call(p) \/ Send(p) \/ ReadTimeout(p) \/ ReadFails(p)
             \/ Read(p)
    \/ Answer \/ Emit

(* A program that is in a call runs on: hid_write and hid_read_timeout     *)
(* return.                                                                 *)
Fairness == \A p \in Programs : WF_vars(Send(p) \/ ReadTimeout(p) \/ Read(p))

Spec == Init /\ [][Next]_vars
FairSpec == Spec /\ Fairness

-----------------------------------------------------------------------------
(* Two programs are on one channel.                                        *)
Shared(p) == \E q \in Programs \ {p} :
                cid[q] = cid[p] /\ "closed" \notin {state[p], state[q]}

(* An answer that u2fh_sendrecv returns with U2FH_OK is put together from  *)
(* all the frames of one answer, in order, although late frames of earlier *)
(* commands, what is left of an answer whose first frame was dropped in    *)
(* the last window, and frames for other programs are in the same queue,   *)
(* and a full queue loses frames.                                          *)
OneAnswer ==
    \A p \in Programs : result[p].rc = "OK" =>
        /\ \A k \in DOMAIN result[p].of :
              result[p].of[k] = <<result[p].of[1][1], k>>
        /\ Len(result[p].of) = FramesFor(result[p].len)

(* It is the answer to the command just sent, never a late answer to an    *)
(* earlier one that gave up, when the channel was not given out in a race: *)
(* the ping before the next command meets what came too late.              *)
OwnAnswer ==
    \A p \in Programs :
        result[p].rc = "OK" /\ result[p].cmd # "INIT" /\ cid[p] \notin raced =>
        result[p].of[1][1] = [by |-> p, no |-> call[p].no]

(* Two programs come to share a channel only by initialising the device at *)
(* the same time: each then takes the first INIT answer it sees, since     *)
(* init_device does not compare nonces.                                    *)
SharedByRace ==
    \A p \in Programs : Shared(p) /\ cid[p] # Broadcast => cid[p] \in raced

=============================================================================

----------------------------- MODULE Operations ------------------------------
(***************************************************************************)
(* u2fh_register and u2fh_authenticate (c_src/libu2f-host/register.c,      *)
(* authenticate.c): one call goes round the devices of the table until one *)
(* of them answers, and either polls by itself or leaves the polling to    *)
(* the caller (U2FH_REQUEST_NON_BLOCKING, as main.c does).                 *)
(*                                                                         *)
(* The devices are external: a device may answer with data, with           *)
(* NOTSATISFIED or with any other status of two bytes, but with another    *)
(* status only if it was asked to authenticate with a key handle it does   *)
(* not know.                                                               *)
(* Devs provides the table and sees to it that a device is alive when one  *)
(* of the two is called.  Payloads are left out; the parts of the request  *)
(* are recorded as far as they were filled in.                             *)
(***************************************************************************)
EXTENDS Naturals, FiniteSets

CONSTANTS
    NumDevices,     \* devs->num_devices
    RoundLimit      \* the 15 of "iterations++ > 15"

NumDevicesAssumption == NumDevices \in Nat \ {0}
RoundLimitAssumption == RoundLimit \in Nat

Devices == 1 .. NumDevices
Ops == {"register", "authenticate"}
Parts == {"challenge", "appId", "keyHandle"}

VARIABLES
    op,             \* which of the two was called
    presence,       \* whether U2FH_REQUEST_USER_PRESENCE is set
    blocking,       \* whether U2FH_REQUEST_NON_BLOCKING is not set
    given,          \* the parts the challenge JSON has
    alive,          \* the devices whose is_alive is set
    knows,          \* the devices that know the key handle
    pc,             \* "prepare", "round", "devices", "status", "done"
    appParam,       \* data + V2CHALLEN: "unset" or "hash"
    iterations,
    device,         \* i
    len,            \* "unset", "two" or "data"
    buf,            \* what buf holds, and who said it: last copied answer
    skip,           \* devices with skip_devices[i] != 0
    rc,             \* what is returned
    answers,        \* history: what each device said
    vain            \* history: devices asked although dead, or after they rejected

input == <<op, presence, blocking, given, alive, knows>>
vars == <<input, pc, appParam, iterations, device, len, buf, skip, rc,
          answers, vain>>
history == <<answers, vain>>

Unset == [status |-> "unset", by |-> 0]
Statuses == {"data", "notsatisfied", "wrong"}
Codes == {"none", "OK", "MEMORY_ERROR", "TRANSPORT_ERROR", "JSON_ERROR",
          "AUTHENTICATOR_ERROR", "TIMEOUT_ERROR", "NOT_FINISHED_ERROR"}

TypeOK ==
    /\ op \in Ops /\ presence \in BOOLEAN /\ blocking \in BOOLEAN
    /\ given \subseteq Parts
    /\ alive \subseteq Devices /\ knows \subseteq Devices
    /\ pc \in {"prepare", "round", "devices", "status", "done"}
    /\ appParam \in {"unset", "hash"}
    /\ iterations \in 0 .. RoundLimit + 2
    /\ device \in 1 .. NumDevices + 1
    /\ len \in {"unset", "two", "data"}
    /\ buf \in [status: Statuses, by: Devices] \cup {Unset}
    /\ skip \subseteq Devices
    /\ rc \in Codes
    /\ answers \in [Devices -> SUBSET (Statuses \cup {"error"})]
    /\ vain \subseteq Devices

Init ==
    /\ op \in Ops /\ presence \in BOOLEAN /\ blocking \in BOOLEAN
    /\ given \in SUBSET Parts
    /\ alive \in (SUBSET Devices) \ {{}}
    /\ knows \in SUBSET Devices
    /\ pc = "prepare"
    /\ appParam = "unset"
    /\ iterations = 0
    /\ device = 1
    /\ len = "unset"
    /\ buf = Unset
    /\ skip = {}
    /\ rc = "none"
    /\ answers = [d \in Devices |-> {}]
    /\ vain = {}

Return(code) == rc' = code /\ pc' = "done"

-----------------------------------------------------------------------------
(* The parts of the challenge that the operation does not do without.  The *)
(* appId is not among them: the result of prepare_origin is ignored.       *)
Needs(o) == {"challenge"} \cup (IF o = "authenticate" THEN {"keyHandle"} ELSE {})

(* get_fixed_json_data, prepare_browserdata and prepare_origin.            *)
Prepare ==
    /\ pc = "prepare"
    /\ \/ /\ Needs(op) \subseteq given
          /\ pc' = "round"
          /\ UNCHANGED rc
       \/ Return("JSON_ERROR")          \* a part is missing, or no memory
       \/ /\ "challenge" \in given      \* the client data is too long
          /\ Return("MEMORY_ERROR")
    /\ appParam' = IF "appId" \in given THEN "hash" ELSE "unset"
    /\ UNCHANGED <<input, iterations, device, len, buf, skip, history>>

(* The head of the do loop.                                                *)
Counted(n) == n + 1
GivesUp == iterations > RoundLimit

Round ==
    /\ pc = "round"
    /\ iterations' = Counted(iterations)
    /\ IF GivesUp
       THEN Return("TIMEOUT_ERROR") /\ UNCHANGED device
       ELSE pc' = "devices" /\ device' = 1 /\ UNCHANGED rc
    /\ UNCHANGED <<input, appParam, len, buf, skip, history>>

(* What a device says when it is asked.                                    *)
Replies(d) ==
    IF op = "register" \/ d \in knows THEN Statuses ELSE {"wrong"}

(* The for loop passes over a device: a dead one, or one that rejected the *)
(* key.  Preceded by a variant that asks the last.                         *)
AsksRejected(d) == d \notin alive
Skipped(d) == d \notin alive \/ d \in skip

PassOver ==
    /\ pc = "devices"
    /\ device <= NumDevices
    /\ Skipped(device)
    /\ skip' = IF op = "authenticate" THEN skip \cup {device} ELSE skip
    /\ device' = device + 1
    /\ UNCHANGED <<input, pc, appParam, iterations, len, buf, rc, history>>

Stops(status) == status = "data"

(* What send_apdu fails with: u2fh_sendrecv did, the answer is too short   *)
(* for a status, the request or the answer is too long.                    *)
ApduErrors == {"TRANSPORT_ERROR", "MEMORY_ERROR"}

Rejected(d) == op = "authenticate" /\ "wrong" \in answers[d]

(* send_apdu to one device.  A failure ends the operation.                 *)
Ask ==
    /\ pc = "devices"
    /\ device <= NumDevices
    /\ ~Skipped(device)
    /\ \/ \E status \in Replies(device) :
             /\ answers' = [answers EXCEPT ![device] = @ \cup {status}]
             /\ len' = IF status = "data" THEN "data" ELSE "two"
             /\ buf' = [status |-> status, by |-> device]
             /\ skip' = IF op = "authenticate" /\ status = "wrong"
                        THEN skip \cup {device} ELSE skip
             /\ IF Stops(status)
                THEN pc' = "status" /\ UNCHANGED device
                ELSE device' = device + 1 /\ UNCHANGED pc
             /\ UNCHANGED rc
       \/ /\ \E code \in ApduErrors : Return(code)
          /\ answers' = [answers EXCEPT ![device] = @ \cup {"error"}]
          /\ UNCHANGED <<device, len, buf, skip>>
    /\ vain' = IF device \in alive /\ ~Rejected(device) THEN vain ELSE vain \cup {device}
    /\ UNCHANGED <<input, appParam, iterations>>

EndOfDevices ==
    /\ pc = "devices"
    /\ device > NumDevices
    /\ pc' = "status"
    /\ UNCHANGED <<input, appParam, iterations, device, len, buf, skip, rc, history>>

-----------------------------------------------------------------------------
Waits == len = "two" /\ buf.status = "notsatisfied"

(* After the for loop: what the last copied answer was decides.  A         *)
(* register that is polled is not finished whatever the status is.         *)
PollLater ==
    /\ pc = "status"
    /\ ~blocking
    /\ len = "two" /\ (op = "register" \/ Waits)
    /\ Return("NOT_FINISHED_ERROR")
    /\ UNCHANGED <<input, appParam, iterations, device, len, buf, skip, history>>

PollAgain ==
    /\ pc = "status"
    /\ blocking /\ presence
    /\ Waits
    /\ pc' = "round"
    /\ UNCHANGED <<input, appParam, iterations, device, len, buf, skip, rc, history>>

Reject ==
    /\ pc = "status"
    /\ len = "two"
    /\ \/ op = "authenticate" /\ ~Waits /\ Return("AUTHENTICATOR_ERROR")
       \/ op = "register" /\ blocking /\ ~Waits /\ Return("TRANSPORT_ERROR")
       \/ blocking /\ ~presence /\ Waits /\ Return("TRANSPORT_ERROR")
    /\ UNCHANGED <<input, appParam, iterations, device, len, buf, skip, history>>

(* prepare_response; its result is ignored.                                *)
Respond ==
    /\ pc = "status"
    /\ len # "two"
    /\ Return("OK")
    /\ UNCHANGED <<input, appParam, iterations, device, len, buf, skip, history>>

Next ==
    \/ Prepare \/ Round \/ PassOver \/ Ask \/ EndOfDevices
    \/ PollLater \/ PollAgain \/ Reject \/ Respond

(* The calls of the operation return.                                      *)
Spec == Init /\ [][Next]_vars
FairSpec == Spec /\ WF_vars(Next)

-----------------------------------------------------------------------------
(* At most one device does the operation: once one has answered no other   *)
(* is asked, so one touch registers one device, and what is returned as OK *)
(* is that device's answer.                                                *)
Done(d) == "data" \in answers[d]

OneDeviceActs ==
    /\ Cardinality({d \in Devices : Done(d)}) <= 1
    /\ rc = "OK" => Done(buf.by) /\ buf.status = "data"
    /\ \A d \in Devices : Done(d) => rc \in {"none", "OK"}

(* A device that rejected the key handle, or is dead, is not asked again,  *)
(* in whatever round; what the loop looks at was set by a device.          *)
NotAskedInVain ==
    /\ vain = {}
    /\ pc = "status" => len # "unset" /\ buf # Unset

(* What the codes say of the devices.  AUTHENTICATOR_ERROR: the device     *)
(* asked last rejected the key handle, and so have all alive behind it.    *)
(* NOT_FINISHED_ERROR: each device that is alive was asked and answered    *)
(* with a status; a device that authenticates waits for its button, and    *)
(* knows the key.  TIMEOUT_ERROR: a device waits for its button still.     *)
CodesFit ==
    /\ rc = "AUTHENTICATOR_ERROR" =>
          /\ op = "authenticate" /\ buf.status = "wrong"
          /\ \A d \in alive : d >= buf.by => "wrong" \in answers[d]
    /\ rc = "NOT_FINISHED_ERROR" =>
          /\ ~blocking
          /\ \A d \in alive : answers[d] # {} /\ answers[d] \subseteq {"notsatisfied", "wrong"}
          /\ op = "authenticate" => buf.status = "notsatisfied" /\ buf.by \in alive \cap knows
    /\ rc = "TIMEOUT_ERROR" =>
          blocking /\ presence /\ buf.status = "notsatisfied" /\ buf.by \in alive

(* main.c goes on to the next challenge then, as if no device had the key  *)
(* of this one.  Not so: what the last device answers decides, although    *)
(* one before it waits for its button and may go on to accept the key.     *)
NoneWaits ==
    rc = "AUTHENTICATOR_ERROR" => \A d \in alive : "notsatisfied" \notin answers[d]

(* main.c prompts for the button then.  A register that is polled says so  *)
(* whatever the devices have answered, also if none waits for its button.  *)
NotFinishedWaits ==
    rc = "NOT_FINISHED_ERROR" => \E d \in alive : "notsatisfied" \in answers[d]

(* A failed step is reported: what is returned with U2FH_OK was made from  *)
(* all the parts it needs.  Not what the code does, since the result of    *)
(* prepare_origin is ignored.                                              *)
ErrorsReported == rc = "OK" => appParam = "hash"

=============================================================================

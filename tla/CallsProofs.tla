----------------------------- MODULE CallsProofs ------------------------------
(***************************************************************************)
(* Proofs about the calls of the helper (MCCalls), one part after another. *)
(***************************************************************************)
EXTENDS MCCalls, FiniteSets, FiniteSetTheorems, SequenceTheorems, WellFoundedInduction,
        TLAPS

-----------------------------------------------------------------------------
(* Operations.  What each device has answered, and what buf says of it.    *)
Answered ==
    /\ \A d \in Operations!Devices :
          /\ "data" \in answers[d] =>
                /\ pc \in {"status", "done"} /\ rc \in {"none", "OK"}
                /\ buf = [status |-> "data", by |-> d]
          /\ "error" \in answers[d] => pc = "done" /\ rc \in Operations!ApduErrors
          /\ Operations!Rejected(d) => d \in skip
          /\ op = "authenticate" /\ ("notsatisfied" \in answers[d] \/ "data" \in answers[d])
                => d \in knows
    /\ buf # Operations!Unset => buf.by \in alive /\ buf.status \in answers[buf.by]
    /\ len = IF buf = Operations!Unset THEN "unset"
             ELSE IF buf.status = "data" THEN "data" ELSE "two"
    /\ \A d \in skip : d \notin alive \/ "wrong" \in answers[d]

(* As long as nobody has answered no live device was passed over.          *)
Fresh ==
    /\ vain = {} /\ alive # {}
    /\ buf = Operations!Unset =>
          /\ \A d \in skip : d \notin alive
          /\ pc # "status"
          /\ pc = "devices" => \A d \in alive : d >= device

(* The devices of this round, or of an earlier one, that have answered.    *)
Visited ==
    /\ pc = "devices" => \A d \in alive : d < device => answers[d] # {}
    /\ (pc = "status" /\ buf.status # "data") \/ rc = "NOT_FINISHED_ERROR" =>
          \A d \in alive : answers[d] # {}

(* After a device rejected the key handle, those with higher numbers are   *)
(* still to be asked or have rejected it too.                              *)
Last ==
    /\ buf.status = "wrong" /\ op = "authenticate" =>
          /\ pc \in {"devices", "status", "done"}
          /\ pc = "devices" =>
                /\ buf.by < device
                /\ \A d \in alive : d > buf.by /\ d < device => "wrong" \in answers[d]
          /\ pc = "status" \/ rc = "AUTHENTICATOR_ERROR" =>
                \A d \in alive : d > buf.by => "wrong" \in answers[d]
    /\ rc = "OK" => buf.status = "data"
    /\ rc = "AUTHENTICATOR_ERROR" => buf.status = "wrong" /\ op = "authenticate"
    /\ rc = "NOT_FINISHED_ERROR" =>
          ~blocking /\ (op = "authenticate" => buf.status = "notsatisfied")

(* A round after the first is for a device that waits for its button.      *)
Rounds ==
    /\ pc = "prepare" => iterations = 0
    /\ (pc = "round" /\ iterations > 0) \/ rc = "TIMEOUT_ERROR" =>
          blocking /\ presence /\ buf.status = "notsatisfied"

Running ==
    pc # "done" => rc = "none" /\ iterations <= RoundLimit + 1

OperationsInv ==
    part = "operations" =>
        Operations!TypeOK /\ Answered /\ Fresh /\ Visited /\ Last /\ Rounds /\ Running

LEMMA OperationsConstants == NumDevices \in Nat \ {0} /\ RoundLimit \in Nat
BY CallsAssumption DEF Operations!NumDevicesAssumption, Operations!RoundLimitAssumption

LEMMA OperationsInitially == Init => OperationsInv
<1> SUFFICES ASSUME OperationsInit PROVE OperationsInv
  BY DEF Init, TransportInit, BuildInit, WireInit, LibusbInit, MacInit, WinInit,
         OperationsInv
<1>1. Operations!Init
  BY DEF OperationsInit
<1> USE OperationsConstants DEF Operations!Init
<1>2. Operations!TypeOK
  <2>1. answers \in [Operations!Devices -> SUBSET (Operations!Statuses \cup {"error"})]
    <3>1. \A d \in Operations!Devices : {} \in SUBSET (Operations!Statuses \cup {"error"})
      OBVIOUS
    <3> QED
      BY <1>1, <3>1
  <2>2. device \in 1 .. NumDevices + 1 /\ iterations \in 0 .. RoundLimit + 2
    BY <1>1
  <2> QED
    BY <1>1, <2>1, <2>2
       DEF Operations!TypeOK, Operations!Devices, Operations!Codes, Operations!Ops
<1>3. Answered /\ Fresh /\ Visited /\ Last /\ Rounds /\ Running
  BY <1>1
     DEF Answered, Fresh, Visited, Last, Rounds, Running, Operations!Rejected,
         Operations!Unset, Operations!Devices
<1> QED
  BY <1>2, <1>3 DEF OperationsInv

(* A step of an operation; the others leave these variables alone.         *)
LEMMA OperationsStutter ==
  ASSUME OperationsInv, UNCHANGED <<part, Operations!vars>>
  PROVE  OperationsInv'
BY DEF OperationsInv, Operations!TypeOK, Answered, Fresh, Visited, Last, Rounds, Running,
       Operations!Rejected, Operations!vars, Operations!input, Operations!Unset, Operations!Devices

LEMMA OperationsPrepare ==
  ASSUME Operations!TypeOK, Answered, Fresh, Visited, Last, Rounds, Running, Operations!Prepare
  PROVE  Operations!TypeOK' /\ Answered' /\ Fresh' /\ Visited' /\ Last' /\ Rounds' /\ Running'
<1> USE OperationsConstants
    DEF Operations!Prepare, Operations!Return, Operations!input, Operations!history
<1>1. Operations!TypeOK'
  BY DEF Operations!TypeOK, Operations!Codes
<1>2. Answered' /\ Fresh' /\ Visited' /\ Last' /\ Rounds' /\ Running'
  BY DEF Answered, Fresh, Visited, Last, Rounds, Running, Operations!Rejected,
         Operations!Unset, Operations!TypeOK
<1> QED
  BY <1>1, <1>2

LEMMA OperationsRound ==
  ASSUME Operations!TypeOK, Answered, Fresh, Visited, Last, Rounds, Running, Operations!Round
  PROVE  Operations!TypeOK' /\ Answered' /\ Fresh' /\ Visited' /\ Last' /\ Rounds' /\ Running'
<1> USE OperationsConstants
    DEF Operations!Round, Operations!Return, Operations!input, Operations!history,
        Operations!GivesUp, Operations!Counted, Operations!TypeOK
<1>1. Operations!TypeOK'
  BY DEF Running, Operations!Codes
<1>2. Answered' /\ Running'
  BY DEF Answered, Running, Operations!Rejected, Operations!Unset
<1>3. Fresh' /\ Visited' /\ Last'
  BY DEF Fresh, Visited, Last, Operations!Unset, Operations!Devices
<1>4. Rounds'
  BY DEF Rounds, Running
<1> QED
  BY <1>1, <1>2, <1>3, <1>4

LEMMA OperationsPassOver ==
  ASSUME Operations!TypeOK, Answered, Fresh, Visited, Last, Rounds, Running, Operations!PassOver
  PROVE  Operations!TypeOK' /\ Answered' /\ Fresh' /\ Visited' /\ Last' /\ Rounds' /\ Running'
<1> USE OperationsConstants
    DEF Operations!PassOver, Operations!Skipped, Operations!input, Operations!history,
        Operations!TypeOK, Operations!Devices
<1>1. Operations!TypeOK'
  OBVIOUS
<1>2. Answered' /\ Running' /\ Rounds'
  BY DEF Answered, Running, Rounds, Operations!Rejected, Operations!Unset
<1>3. Fresh' /\ Visited' /\ Last'
  BY DEF Fresh, Visited, Last, Answered, Running, Operations!Unset
<1> QED
  BY <1>1, <1>2, <1>3

LEMMA OperationsAsk ==
  ASSUME Operations!TypeOK, Answered, Fresh, Visited, Last, Rounds, Running, Operations!Ask
  PROVE  Operations!TypeOK' /\ Answered' /\ Fresh' /\ Visited' /\ Last' /\ Rounds' /\ Running'
<1> USE OperationsConstants
    DEF Operations!Skipped, Operations!input, Operations!TypeOK, Operations!Devices
<1>1. /\ pc = "devices" /\ device \in Operations!Devices
      /\ device \in alive /\ device \notin skip
      /\ ~Operations!Rejected(device)
      /\ vain' = {}
      /\ UNCHANGED <<op, presence, blocking, given, alive, knows, appParam, iterations>>
  BY DEF Operations!Ask, Answered, Fresh
<1>2. CASE \E code \in Operations!ApduErrors :
              /\ Operations!Return(code)
              /\ answers' = [answers EXCEPT ![device] = @ \cup {"error"}]
              /\ UNCHANGED <<device, len, buf, skip>>
  <2> USE <1>1, <1>2 DEF Operations!Return, Operations!ApduErrors
  <2>1. answers' \in [Operations!Devices -> SUBSET (Operations!Statuses \cup {"error"})]
    OBVIOUS
  <2>2. /\ \A d \in Operations!Devices, s \in Operations!Statuses :
               s \in answers'[d] <=> s \in answers[d]
        /\ \A d \in Operations!Devices : Operations!Rejected(d)' <=> Operations!Rejected(d)
        /\ rc' \in {"TRANSPORT_ERROR", "MEMORY_ERROR"} /\ pc' = "done"
    BY DEF Operations!Statuses, Operations!Rejected
  <2>3. Operations!TypeOK'
    BY <2>1, <2>2 DEF Operations!Codes
  <2>4. Answered'
    <3>1. \A d \in Operations!Devices : "data" \notin answers[d]
      BY DEF Answered
    <3> QED
      BY <2>2, <3>1 DEF Answered, Operations!Unset, Operations!Statuses
  <2>5. Fresh' /\ Visited' /\ Last' /\ Rounds' /\ Running'
    BY <2>2 DEF Fresh, Visited, Last, Rounds, Running, Operations!Unset
  <2> QED
    BY <2>3, <2>4, <2>5
<1>3. ASSUME NEW status \in Operations!Replies(device),
             answers' = [answers EXCEPT ![device] = @ \cup {status}],
             len' = IF status = "data" THEN "data" ELSE "two",
             buf' = [status |-> status, by |-> device],
             skip' = IF op = "authenticate" /\ status = "wrong"
                     THEN skip \cup {device} ELSE skip,
             IF Operations!Stops(status)
             THEN pc' = "status" /\ UNCHANGED device
             ELSE device' = device + 1 /\ UNCHANGED pc,
             UNCHANGED rc
      PROVE  Operations!TypeOK' /\ Answered' /\ Fresh' /\ Visited' /\ Last' /\ Rounds' /\ Running'
  <2> USE <1>1, <1>3 DEF Operations!Stops
  <2>1. /\ status \in Operations!Statuses
        /\ op = "authenticate" /\ status # "wrong" => device \in knows
    BY DEF Operations!Replies, Operations!Statuses, Operations!Ops
  <2>2. answers' \in [Operations!Devices -> SUBSET (Operations!Statuses \cup {"error"})]
    BY <2>1
  <2>3. \A d \in Operations!Devices, s \in Operations!Statuses :
           s \in answers'[d] <=> s \in answers[d] \/ (d = device /\ s = status)
    OBVIOUS
  <2>4. buf' # Operations!Unset
    BY DEF Operations!Unset
  <2>5. buf' \in [status : Operations!Statuses, by : Operations!Devices]
    BY <2>1
  <2>6. Operations!TypeOK'
    BY <2>1, <2>2, <2>5
  <2>7. Answered'
    <3>1. \A d \in Operations!Devices : "data" \notin answers[d]
      BY DEF Answered
    <3>2. \A d \in Operations!Devices :
            /\ "data" \in answers'[d] =>
                  /\ pc' \in {"status", "done"} /\ rc' \in {"none", "OK"}
                  /\ buf' = [status |-> "data", by |-> d]
            /\ "error" \in answers'[d] => pc' = "done" /\ rc' \in Operations!ApduErrors
            /\ Operations!Rejected(d)' => d \in skip'
            /\ op = "authenticate" /\ ("notsatisfied" \in answers'[d] \/ "data" \in answers'[d])
                  => d \in knows
      <4>1. \A d \in Operations!Devices : "error" \notin answers'[d]
        BY DEF Answered, Operations!Replies, Operations!Statuses
      <4> QED
        BY <2>1, <2>3, <3>1, <4>1
           DEF Answered, Running, Operations!Rejected, Operations!Statuses
    <3>3. /\ buf'.by \in alive' /\ buf'.status \in answers'[buf'.by]
          /\ len' = IF buf'.status = "data" THEN "data" ELSE "two"
      BY <2>1, <2>3
    <3>4. \A d \in skip' : d \notin alive \/ "wrong" \in answers'[d]
      BY <2>1, <2>3 DEF Answered, Operations!Statuses
    <3> QED
      BY <2>4, <3>2, <3>3, <3>4 DEF Answered
  <2>8. Fresh' /\ Running' /\ Rounds'
    BY <2>4 DEF Fresh, Running, Rounds
  <2>9. Last'
    <3>1. buf'.status = status /\ buf'.by = device
      OBVIOUS
    <3>2. buf'.status = "wrong" /\ op = "authenticate" => pc' = "devices" /\ device' = device + 1
      BY <3>1
    <3>3. /\ rc' = "none" /\ pc' \in {"devices", "status"}
          /\ pc' = "status" => status = "data"
      BY DEF Running
    <3>4. buf'.status = "wrong" /\ op = "authenticate" =>
             \A d \in alive : ~(d > buf'.by /\ d < device')
      BY <3>1, <3>2
    <3> HIDE <1>1, <1>3
    <3> QED
      BY <1>1, <3>1, <3>2, <3>3, <3>4 DEF Last
  <2>10. Visited'
    <3>1. rc' = "none" /\ (pc' = "status" => buf'.status = "data")
      BY DEF Running
    <3>2. ASSUME pc' = "devices", NEW d \in alive, d < device' PROVE answers'[d] # {}
      <4>1. d = device \/ d < device
        BY <3>2
      <4> QED
        BY <2>1, <2>3, <4>1 DEF Visited
    <3> QED
      BY <3>1, <3>2 DEF Visited
  <2> QED
    BY <2>6, <2>7, <2>8, <2>9, <2>10
<1> QED
  BY <1>2, <1>3 DEF Operations!Ask

(* What follows the for loop.                                              *)
LEMMA OperationsEnd ==
  ASSUME Operations!TypeOK, Answered, Fresh, Visited, Last, Rounds, Running,
         \/ Operations!EndOfDevices
         \/ Operations!PollLater
         \/ Operations!PollAgain
         \/ Operations!Reject
         \/ Operations!Respond
  PROVE  Operations!TypeOK' /\ Answered' /\ Fresh' /\ Visited' /\ Last' /\ Rounds' /\ Running'
<1> USE OperationsConstants
    DEF Operations!Waits, Operations!Return,
        Operations!input, Operations!history, Operations!TypeOK, Operations!Devices
<1>1. /\ UNCHANGED <<op, presence, blocking, given, alive, knows, appParam, iterations,
                     device, len, buf, skip, answers, vain>>
      /\ pc \in {"devices", "status"}
  BY DEF Operations!EndOfDevices, Operations!PollLater, Operations!PollAgain,
         Operations!Reject, Operations!Respond
<1>2. CASE Operations!EndOfDevices
  <2> USE <1>1, <1>2 DEF Operations!EndOfDevices
  <2>1. Operations!TypeOK' /\ Answered' /\ Rounds' /\ Running'
    BY DEF Answered, Rounds, Running, Operations!Rejected, Operations!Unset
  <2>2. buf # Operations!Unset
    <3>1. PICK d \in alive : d \in 1 .. NumDevices
      BY DEF Fresh
    <3>2. ~(d >= device)
      BY <3>1
    <3> QED
      BY <3>1, <3>2 DEF Fresh
  <2>3. \A d \in alive : d < device
    OBVIOUS
  <2>4. Fresh' /\ Visited' /\ Last'
    BY <2>2, <2>3 DEF Fresh, Visited, Last, Running
  <2> QED
    BY <2>1, <2>4
<1>3. CASE Operations!PollLater
  <2> USE <1>1, <1>3 DEF Operations!PollLater
  <2>1. buf # Operations!Unset /\ buf.status # "data"
    BY DEF Answered
  <2>2. op = "authenticate" => buf.status = "notsatisfied"
    BY DEF Operations!Ops
  <2>3. Operations!TypeOK' /\ Answered'
    <3>1. \A d \in Operations!Devices : "data" \notin answers[d] /\ "error" \notin answers[d]
      BY <2>1 DEF Answered
    <3> QED
      BY <2>1, <3>1 DEF Answered, Operations!Rejected, Operations!Unset, Operations!Codes
  <2>4. Fresh' /\ Visited' /\ Last' /\ Rounds' /\ Running'
    BY <2>1, <2>2 DEF Fresh, Visited, Last, Rounds, Running
  <2> QED
    BY <2>3, <2>4
<1>4. CASE Operations!PollAgain
  <2> USE <1>1, <1>4 DEF Operations!PollAgain
  <2>1. Operations!TypeOK' /\ Answered' /\ Fresh' /\ Running'
    BY DEF Answered, Fresh, Running, Operations!Rejected, Operations!Unset
  <2>2. Visited' /\ Last' /\ Rounds'
    BY DEF Visited, Last, Rounds, Running
  <2> QED
    BY <2>1, <2>2
<1>5. CASE Operations!Reject
  <2> USE <1>1, <1>5 DEF Operations!Reject
  <2>1. /\ pc' = "done" /\ rc' \in {"AUTHENTICATOR_ERROR", "TRANSPORT_ERROR"}
        /\ rc' = "AUTHENTICATOR_ERROR" => op = "authenticate" /\ ~Operations!Waits
    OBVIOUS
  <2>2. buf # Operations!Unset /\ buf.status # "data"
    BY DEF Answered
  <2>3. rc' = "AUTHENTICATOR_ERROR" => buf.status = "wrong"
    BY <2>1, <2>2 DEF Operations!Statuses
  <2>4. Operations!TypeOK' /\ Answered'
    <3>1. \A d \in Operations!Devices : "data" \notin answers[d] /\ "error" \notin answers[d]
      BY <2>2 DEF Answered
    <3> QED
      BY <2>1, <3>1 DEF Answered, Operations!Rejected, Operations!Unset, Operations!Codes
  <2>5. Fresh' /\ Visited' /\ Last' /\ Rounds' /\ Running'
    BY <2>1, <2>2, <2>3 DEF Fresh, Visited, Last, Rounds, Running
  <2> QED
    BY <2>4, <2>5
<1>6. CASE Operations!Respond
  <2> USE <1>1, <1>6 DEF Operations!Respond
  <2>1. Operations!TypeOK' /\ Answered'
    <3>1. \A d \in Operations!Devices : "error" \notin answers[d]
      BY DEF Answered
    <3> QED
      BY <3>1 DEF Answered, Operations!Rejected, Operations!Unset, Operations!Codes
  <2>2. buf.status = "data"
    BY DEF Answered, Fresh
  <2>3. Fresh' /\ Visited' /\ Last' /\ Rounds' /\ Running'
    BY <2>2 DEF Fresh, Visited, Last, Rounds, Running
  <2> QED
    BY <2>1, <2>3
<1> QED
  BY <1>2, <1>3, <1>4, <1>5, <1>6

LEMMA OperationsStep ==
  ASSUME OperationsInv, [Next]_vars
  PROVE  OperationsInv'
<1> SUFFICES ASSUME part' = "operations" PROVE OperationsInv'
  BY DEF OperationsInv
<1>1. part = "operations"
  BY DEF Next, vars, TransportAlone, OperationsAlone, BuildAlone, WireAlone, LibusbAlone,
         MacAlone, WinAlone
<1>2. CASE Operations!Next
  BY <1>1, <1>2, OperationsPrepare, OperationsRound, OperationsPassOver, OperationsAsk,
     OperationsEnd
     DEF Operations!Next, OperationsInv
<1>3. CASE UNCHANGED vars
  BY <1>3, OperationsStutter
     DEF vars, shared, operationsOwn, Operations!vars, Operations!input
<1> QED
  BY <1>1, <1>2, <1>3
     DEF Next, TransportAlone, OperationsAlone, BuildAlone, WireAlone, LibusbAlone,
         MacAlone, WinAlone

LEMMA SameCardinality == \A S : Operations!Cardinality(S) = Cardinality(S)
BY DEF Operations!Cardinality, Operations!IsFiniteSet, Cardinality, IsFiniteSet

LEMMA OperationsFine ==
  ASSUME OperationsInv
  PROVE  OneDeviceActs
<1> SUFFICES ASSUME part = "operations"
             PROVE  /\ Operations!TypeOK
                    /\ Operations!OneDeviceActs /\ Operations!NotAskedInVain
                    /\ Operations!CodesFit
  BY DEF OneDeviceActs
<1> USE DEF OperationsInv
<1>1. Operations!OneDeviceActs
  <2>1. {d \in Operations!Devices : Operations!Done(d)} \subseteq {buf.by}
    BY DEF Operations!Done, Answered
  <2>2. Cardinality({d \in Operations!Devices : Operations!Done(d)}) <= 1
    <3>1. IsFiniteSet({buf.by}) /\ Cardinality({buf.by}) = 1
      BY FS_Singleton
    <3>2. /\ IsFiniteSet({d \in Operations!Devices : Operations!Done(d)})
          /\ Cardinality({d \in Operations!Devices : Operations!Done(d)})
                <= Cardinality({buf.by})
      BY <2>1, <3>1, FS_Subset
    <3> QED
      BY <3>1, <3>2
  <2>3. rc = "OK" => Operations!Done(buf.by) /\ buf.status = "data"
    BY DEF Answered, Last, Operations!Done, Operations!Unset
  <2>4. \A d \in Operations!Devices : Operations!Done(d) => rc \in {"none", "OK"}
    BY DEF Answered, Operations!Done
  <2> QED
    BY <2>2, <2>3, <2>4, SameCardinality DEF Operations!OneDeviceActs
<1>2. Operations!NotAskedInVain
  BY DEF Operations!NotAskedInVain, Fresh, Answered
<1>3. Operations!CodesFit
  <2>1. buf.status \in Operations!Statuses => buf # Operations!Unset
    BY DEF Operations!Unset, Operations!Statuses
  <2>2. ASSUME rc = "AUTHENTICATOR_ERROR"
        PROVE  /\ op = "authenticate" /\ buf.status = "wrong"
               /\ \A d \in alive : d >= buf.by => "wrong" \in answers[d]
    <3>1. op = "authenticate" /\ buf.status = "wrong" /\ buf # Operations!Unset
      BY <2>1, <2>2 DEF Last, Operations!Statuses
    <3>2. buf.by \in Operations!Devices /\ alive \subseteq Operations!Devices
      BY <3>1 DEF Operations!TypeOK
    <3>3. "wrong" \in answers[buf.by]
      BY <3>1 DEF Answered
    <3>4. \A d \in alive : d > buf.by => "wrong" \in answers[d]
      BY <2>2, <3>1 DEF Last
    <3>5. \A d \in alive : d >= buf.by => d = buf.by \/ d > buf.by
      BY <3>2 DEF Operations!Devices
    <3> QED
      BY <3>1, <3>3, <3>4, <3>5
  <2>3. ASSUME rc = "NOT_FINISHED_ERROR"
        PROVE  /\ ~blocking
               /\ \A d \in alive : /\ answers[d] # {}
                                  /\ answers[d] \subseteq {"notsatisfied", "wrong"}
               /\ op = "authenticate" =>
                     buf.status = "notsatisfied" /\ buf.by \in alive \cap knows
    <3>1. \A d \in alive : d \in Operations!Devices
      BY DEF Operations!TypeOK
    <3>2. \A d \in alive : answers[d] \subseteq Operations!Statuses \cup {"error"}
      BY <3>1 DEF Operations!TypeOK
    <3>3. \A d \in alive : "error" \notin answers[d] /\ "data" \notin answers[d]
      BY <2>3, <3>1 DEF Answered, Operations!ApduErrors
    <3>4. \A d \in alive : answers[d] # {}
      BY <2>3 DEF Visited
    <3>5. ~blocking /\ (op = "authenticate" => buf.status = "notsatisfied")
      BY <2>3 DEF Last
    <3>6. ASSUME op = "authenticate" PROVE buf.by \in alive \cap knows
      BY <2>1, <3>1, <3>5, <3>6 DEF Answered, Operations!Statuses
    <3> QED
      BY <3>2, <3>3, <3>4, <3>5, <3>6 DEF Operations!Statuses
  <2>4. ASSUME rc = "TIMEOUT_ERROR"
        PROVE  blocking /\ presence /\ buf.status = "notsatisfied" /\ buf.by \in alive
    BY <2>1, <2>4 DEF Rounds, Answered, Operations!Statuses
  <2> QED
    BY <2>2, <2>3, <2>4 DEF Operations!CodesFit
<1> QED
  BY <1>1, <1>2, <1>3

(* At most one device does an operation, none that has rejected it or is   *)
(* dead is asked again, and the code that is returned says what the        *)
(* devices have answered: for any number of devices and of rounds.         *)
THEOREM OneDeviceActsAlways == Spec => []OneDeviceActs
<1>1. Spec => []OperationsInv
  BY OperationsInitially, OperationsStep, PTL DEF Spec
<1> QED
  BY <1>1, OperationsFine, PTL

-----------------------------------------------------------------------------
(* The JSON an operation builds.  BuildAt(n): the first n calls are made,  *)
(* and what each of them has left.                                         *)
Calls == Build!Calls(op)
Wanted == Build!ToSet(Build!StringsOf(Head(call)))
WholeResponse == Build!ToSet(Build!StringsOf("response"))

BuildAt(n) ==
    /\ n \in 0 .. Len(Calls)
    /\ call = SubSeq(Calls, n + 1, Len(Calls))
    /\ n >= 1 => valid /\ text["challenge"] # Build!ABSENT
    /\ n >= 2 => lengths["bd"] > 0
    /\ n >= 4 /\ op = "authenticate" => text["keyHandle"] = lengths["keyHandle"]
    /\ rc = "none" => parsed <= IF n >= 3 THEN 1 ELSE 0
    /\ pc # "call" => rc = "none"
    /\ pc \notin {"call", "overrun"} => n \in {1, Len(Calls) - 1}

BuildTyped ==
    /\ op \in {"register", "authenticate"} /\ valid \in BOOLEAN
    /\ text \in [Build!Keys -> {Build!ABSENT} \cup Nat]
    /\ pc \in {"call", "strings", "fetch", "add", "copy", "done", "overrun"}
    /\ next \in Seq(Build!Strings)
    /\ refs \in [Build!Objects -> 0 .. 1] /\ members \subseteq Build!Strings
    /\ parsed \in 0 .. 2
    /\ lengths \in [Build!Buffers -> Nat]
    /\ response \subseteq Build!Strings
    /\ result \in Build!Errors \cup {"none", "OK"} /\ rc \in Build!Errors \cup {"none", "OK"}

(* The strings that are made, those still to make, and who holds them.     *)
Made == {o \in Build!Strings : refs[o] = 1}

Held ==
    /\ pc \in {"call", "overrun"} => \A o \in Build!Objects : refs[o] = 0
    /\ refs["jo"] = 0 => members = {}
    /\ refs["jo"] = 1 => pc \in {"add", "copy", "done"}
    /\ pc \in {"strings", "fetch"} => Made \cup Build!ToSet(next) = Wanted
    /\ pc = "fetch" => "key" \in Wanted
    /\ pc \in {"add", "copy"} => refs["jo"] = 1 /\ Made = Wanted
    /\ pc = "copy" => members = Wanted
    /\ pc = "done" /\ refs["jo"] = 1 => members = Made

Copied ==
    /\ response # {} => response = WholeResponse /\ lengths["bd"] > 0
    /\ pc \notin {"call", "overrun", "done"} => result = "JSON_ERROR"
    /\ pc = "done" /\ result = "OK" => lengths["bd"] > 0

Built ==
    /\ BuildTyped
    /\ \E n \in Nat : BuildAt(n)
    /\ Held
    /\ Build!Fits
    /\ Copied

BuildInv == part = "build" => Built

LEMMA BuildConstants ==
  /\ FieldSize \in Nat \ {0} /\ OutSize \in Nat
  /\ HandleSize \in Nat /\ AnswerMax \in Nat \ {0}
  /\ TextLengths \subseteq Nat /\ DataLengths \subseteq Nat \ {0}
  /\ Build!Encoded(AnswerMax) < OutSize
BY CallsAssumption DEF Build!SizeAssumption

CallNames == {"challenge", "browserdata", "origin", "keyHandle", "decode", "devices",
              "encode", "response"}

LEMMA CallsOf ==
  ASSUME op \in {"register", "authenticate"}
  PROVE  /\ Calls \in Seq(CallNames)
         /\ Len(Calls) = IF op = "register" THEN 6 ELSE 8
         /\ Calls[1] = "challenge" /\ Calls[2] = "browserdata" /\ Calls[3] = "origin"
         /\ op = "register" =>
               Calls[4] = "devices" /\ Calls[5] = "encode" /\ Calls[6] = "response"
         /\ op = "authenticate" =>
               /\ Calls[4] = "keyHandle" /\ Calls[5] = "decode" /\ Calls[6] = "devices"
               /\ Calls[7] = "encode" /\ Calls[8] = "response"
<1>1. CASE op = "register"
  <2>1. Calls = <<"challenge", "browserdata", "origin", "devices", "encode", "response">>
    BY <1>1 DEF Calls, Build!Calls
  <2>2. Calls \in Seq(CallNames)
    <3> DEFINE N == CallNames
    <3>1. /\ "challenge" \in N /\ "browserdata" \in N /\ "origin" \in N
          /\ "keyHandle" \in N /\ "decode" \in N /\ "devices" \in N
          /\ "encode" \in N /\ "response" \in N
      BY DEF CallNames
    <3> HIDE DEF N
    <3>2. Calls \in Seq(N)
      BY <2>1, <3>1
    <3> QED
      BY <3>2 DEF N
  <2> QED
    BY <1>1, <2>1, <2>2
<1>2. CASE op = "authenticate"
  <2>1. Calls = <<"challenge", "browserdata", "origin", "keyHandle", "decode", "devices",
                 "encode", "response">>
    BY <1>2 DEF Calls, Build!Calls
  <2>2. Calls \in Seq(CallNames)
    <3> DEFINE N == CallNames
    <3>1. /\ "challenge" \in N /\ "browserdata" \in N /\ "origin" \in N
          /\ "keyHandle" \in N /\ "decode" \in N /\ "devices" \in N
          /\ "encode" \in N /\ "response" \in N
      BY DEF CallNames
    <3> HIDE DEF N
    <3>2. Calls \in Seq(N)
      BY <2>1, <3>1
    <3> QED
      BY <3>2 DEF N
  <2> QED
    BY <1>2, <2>1, <2>2
<1> QED
  BY <1>1, <1>2

(* The call that is made next.                                             *)
LEMMA NextCall ==
  ASSUME op \in {"register", "authenticate"}, NEW n \in 0 .. Len(Calls),
         call = SubSeq(Calls, n + 1, Len(Calls))
  PROVE  /\ call = <<>> <=> n = Len(Calls)
         /\ n < Len(Calls) =>
               /\ Head(call) = Calls[n + 1]
               /\ Tail(call) = SubSeq(Calls, n + 2, Len(Calls))
<1>1. Calls \in Seq(CallNames) /\ Len(Calls) \in Nat
  BY CallsOf
<1> HIDE DEF Calls
<1>2. /\ call \in Seq(CallNames) /\ Len(call) = Len(Calls) - n
      /\ \A i \in 1 .. Len(Calls) - n : call[i] = Calls[n + i]
  BY <1>1, SubSeqProperties
<1>3. call = <<>> <=> n = Len(Calls)
  <2>1. Len(call) = 0 <=> n = Len(Calls)
    BY <1>1, <1>2
  <2>2. call # <<>> => Len(call) # 0
    BY <1>2, EmptySeq
  <2> QED
    BY <2>1, <2>2, EmptySeq
<1>4. ASSUME n < Len(Calls)
      PROVE  /\ Head(call) = Calls[n + 1]
             /\ Tail(call) = SubSeq(Calls, n + 2, Len(Calls))
  <2>1. call # <<>>
    BY <1>3, <1>4
  <2>2. Head(call) = Calls[n + 1]
    BY <1>1, <1>2, <1>4, <2>1, HeadTailProperties
  <2>3. /\ Tail(call) \in Seq(CallNames) /\ Len(Tail(call)) = Len(Calls) - n - 1
        /\ \A i \in 1 .. Len(Calls) - n - 1 : Tail(call)[i] = Calls[n + 1 + i]
    BY <1>1, <1>2, <1>4, <2>1, HeadTailProperties
  <2> DEFINE t == SubSeq(Calls, n + 2, Len(Calls))
  <2>4. /\ t \in Seq(CallNames) /\ Len(t) = Len(Calls) - n - 1
        /\ \A i \in 1 .. Len(Calls) - n - 1 : t[i] = Calls[n + 1 + i]
    BY <1>1, <1>4, SubSeqProperties
  <2> HIDE DEF t
  <2>5. Tail(call) = t
    BY <1>1, <2>3, <2>4, SeqEqual
  <2> QED
    BY <2>2, <2>5 DEF t
<1> QED
  BY <1>3, <1>4

LEMMA NoStrings == Build!ToSet(<<>>) = {}
BY DEF Build!ToSet

LEMMA KeyOnly == "key" \in Build!ToSet(<<"key">>)
<1>1. 1 \in DOMAIN <<"key">> /\ <<"key">>[1] = "key"
  OBVIOUS
<1> QED
  BY <1>1 DEF Build!ToSet

LEMMA TailStrings ==
  ASSUME NEW S, NEW s \in Seq(S), s # <<>>
  PROVE  Build!ToSet(s) = {Head(s)} \cup Build!ToSet(Tail(s))
<1>1. /\ Len(s) \in Nat \ {0} /\ DOMAIN s = 1 .. Len(s)
      /\ Tail(s) \in Seq(S) /\ Len(Tail(s)) = Len(s) - 1
      /\ \A i \in 1 .. Len(s) - 1 : Tail(s)[i] = s[i + 1]
      /\ Head(s) = s[1]
  BY HeadTailProperties, LenProperties, EmptySeq
<1>2. DOMAIN Tail(s) = 1 .. Len(s) - 1
  BY <1>1, LenProperties
<1> DEFINE t == Tail(s)
<1>3. t = Tail(s)
  OBVIOUS
<1> HIDE DEF t
<1>4. \A i \in 1 .. Len(s) : i = 1 \/ (i - 1 \in 1 .. Len(s) - 1 /\ s[i] = t[i - 1])
  BY <1>1, <1>3
<1>5. \A i \in 1 .. Len(s) - 1 : i + 1 \in 1 .. Len(s) /\ t[i] = s[i + 1]
  BY <1>1, <1>3
<1>6. Build!ToSet(s) = {s[i] : i \in 1 .. Len(s)}
      /\ Build!ToSet(t) = {t[i] : i \in 1 .. Len(s) - 1}
  BY <1>1, <1>2, <1>3 DEF Build!ToSet
<1>7. ASSUME NEW x \in Build!ToSet(s) PROVE x \in {Head(s)} \cup Build!ToSet(t)
  <2>1. PICK i \in 1 .. Len(s) : x = s[i]
    BY <1>6
  <2> QED
    BY <1>1, <1>4, <1>6, <2>1
<1>8. ASSUME NEW x \in {Head(s)} \cup Build!ToSet(t) PROVE x \in Build!ToSet(s)
  BY <1>1, <1>5, <1>6
<1> QED
  BY <1>3, <1>7, <1>8

LEMMA StringsFit ==
  ASSUME op \in {"register", "authenticate"}, NEW c \in {"browserdata", "response"}
  PROVE  Build!StringsOf(c) \in Seq(Build!Strings)
<1> DEFINE T == Build!Strings
<1>1. "chal" \in T /\ "orig" \in T /\ "typ" \in T /\ "resp" \in T /\ "enc" \in T
      /\ "bd" \in T /\ "key" \in T
  BY DEF Build!Strings
<1> HIDE DEF T
<1>2. /\ <<"chal", "orig", "typ">> \in Seq(T) /\ <<"bd", "resp">> \in Seq(T)
      /\ <<"enc", "bd", "key">> \in Seq(T)
  BY <1>1
<1>3. \/ Build!StringsOf(c) = <<"chal", "orig", "typ">>
      \/ Build!StringsOf(c) = <<"bd", "resp">>
      \/ Build!StringsOf(c) = <<"enc", "bd", "key">>
  BY DEF Build!StringsOf
<1> QED
  BY <1>2, <1>3 DEF T

(* Where an operation is, and what it will call next.                      *)
LEMMA BuildHere ==
  ASSUME BuildTyped, NEW n \in Nat, BuildAt(n)
  PROVE  /\ call # <<>> => n < Len(Calls) /\ Head(call) = Calls[n + 1]
         /\ pc \notin {"call", "overrun"} =>
               call # <<>> /\ Head(call) \in {"browserdata", "response"}
         /\ Head(call) = "challenge" /\ call # <<>> => n = 0
         /\ Head(call) = "browserdata" /\ call # <<>> => n = 1
         /\ Head(call) = "origin" /\ call # <<>> => n = 2
         /\ Head(call) = "keyHandle" /\ call # <<>> => n = 3
         /\ Head(call) = "decode" /\ call # <<>> => n = 4 /\ op = "authenticate"
         /\ Head(call) = "devices" /\ call # <<>> => n = Len(Calls) - 3
         /\ Head(call) = "encode" /\ call # <<>> => n = Len(Calls) - 2
         /\ Head(call) = "response" /\ call # <<>> => n = Len(Calls) - 1
         /\ Len(Calls) \in {6, 8} /\ (op = "authenticate" => Len(Calls) = 8)
<1>1. op \in {"register", "authenticate"} /\ n \in 0 .. Len(Calls)
      /\ call = SubSeq(Calls, n + 1, Len(Calls))
  BY DEF BuildTyped, BuildAt
<1>2. call # <<>> => n < Len(Calls) /\ Head(call) = Calls[n + 1]
  BY <1>1, NextCall, CallsOf
<1>3. n < Len(Calls) => call # <<>>
  BY <1>1, NextCall, CallsOf
<1>4. pc \notin {"call", "overrun"} => n \in {1, Len(Calls) - 1}
  BY DEF BuildAt
<1>5. Len(Calls) = IF op = "register" THEN 6 ELSE 8
  BY <1>1, CallsOf
<1>6. CASE op = "register"
  <2>1. /\ Calls[1] = "challenge" /\ Calls[2] = "browserdata" /\ Calls[3] = "origin"
        /\ Calls[4] = "devices" /\ Calls[5] = "encode" /\ Calls[6] = "response"
        /\ Len(Calls) = 6
    BY <1>6, CallsOf
  <2>2. n < 6 => n \in {0, 1, 2, 3, 4, 5}
    BY <1>1
  <2> HIDE DEF Calls
  <2> QED
    BY <1>2, <1>3, <1>4, <1>6, <2>1, <2>2
<1>7. CASE op = "authenticate"
  <2>1. /\ Calls[1] = "challenge" /\ Calls[2] = "browserdata" /\ Calls[3] = "origin"
        /\ Calls[4] = "keyHandle" /\ Calls[5] = "decode" /\ Calls[6] = "devices"
        /\ Calls[7] = "encode" /\ Calls[8] = "response" /\ Len(Calls) = 8
    BY <1>7, CallsOf
  <2>2. n < 8 => n \in {0, 1, 2, 3, 4, 5, 6, 7}
    BY <1>1
  <2> HIDE DEF Calls
  <2> QED
    BY <1>2, <1>3, <1>4, <1>7, <2>1, <2>2
<1> QED
  BY <1>1, <1>6, <1>7

(* A call that has succeeded is left behind.                               *)
LEMMA BuildGoesOn ==
  ASSUME BuildTyped, NEW n \in Nat, BuildAt(n), call # <<>>
  PROVE  /\ n + 1 \in 0 .. Len(Calls)
         /\ Tail(call) = SubSeq(Calls, n + 2, Len(Calls))
<1>1. op \in {"register", "authenticate"} /\ n \in 0 .. Len(Calls)
      /\ call = SubSeq(Calls, n + 1, Len(Calls))
  BY DEF BuildTyped, BuildAt
<1>2. n < Len(Calls) /\ Len(Calls) \in Nat
  BY BuildHere
<1> QED
  BY <1>1, <1>2, NextCall

LEMMA BuildInitially == Init => BuildInv
<1> SUFFICES ASSUME BuildInit PROVE BuildInv
  BY DEF Init, TransportInit, OperationsInit, WireInit, LibusbInit, MacInit, WinInit,
         BuildInv
<1>1. Build!Init
  BY DEF BuildInit
<1> USE <1>1, BuildConstants
<1>2. op \in {"register", "authenticate"} /\ call = Calls /\ pc = "call" /\ rc = "none"
      /\ parsed = 0
  BY DEF Build!Init, Calls
<1>3. BuildTyped
  <2>1. text \in [Build!Keys -> {Build!ABSENT} \cup Nat]
    BY DEF Build!Init
  <2>2. refs \in [Build!Objects -> 0 .. 1]
    BY DEF Build!Init
  <2>3. lengths \in [Build!Buffers -> Nat]
    BY DEF Build!Init
  <2>4. next \in Seq(Build!Strings)
    BY EmptySeq DEF Build!Init
  <2> QED
    BY <2>1, <2>2, <2>3, <2>4 DEF BuildTyped, Build!Init, Build!Errors
<1>4. BuildAt(0)
  <2>1. Calls \in Seq(CallNames) /\ Len(Calls) \in {6, 8}
    BY <1>2, CallsOf
  <2> HIDE DEF Calls
  <2> DEFINE t == SubSeq(Calls, 1, Len(Calls))
  <2>2. /\ t \in Seq(CallNames) /\ Len(t) = Len(Calls)
        /\ \A i \in 1 .. Len(Calls) : t[i] = Calls[i]
    BY <2>1, SubSeqProperties
  <2> HIDE DEF t
  <2>3. Calls = t
    BY <2>1, <2>2, SeqEqual
  <2> QED
    BY <1>2, <2>1, <2>3 DEF BuildAt, t
<1>5. Held /\ Copied
  <2>1. "jo" \in Build!Objects
    BY DEF Build!Objects
  <2> QED
    BY <2>1 DEF Build!Init, Held, Copied
<1>6. Build!Fits
  BY DEF Build!Init, Build!Fits, Build!Buffers, Build!Fields, Build!Encoded
<1> QED
  BY <1>3, <1>4, <1>5, <1>6 DEF BuildInv, Built

LEMMA BuildStutter ==
  ASSUME BuildInv, UNCHANGED <<part, Build!vars>>
  PROVE  BuildInv'
<1> SUFFICES ASSUME part = "build", Built PROVE Built'
  BY DEF BuildInv, Built
<1>1. Calls' = Calls /\ Wanted' = Wanted /\ WholeResponse' = WholeResponse /\ Made' = Made
  BY DEF Build!vars, Build!input, Calls, Build!Calls, Wanted, WholeResponse, Made,
         Build!StringsOf, Build!ToSet
<1>2. BuildTyped' /\ Build!Fits' /\ Held' /\ Copied'
  BY <1>1 DEF Built, Build!vars, Build!input, BuildTyped, Build!Fits, Held, Copied, Build!ToSet
<1>3. ASSUME NEW n \in Nat, BuildAt(n) PROVE BuildAt(n)'
  BY <1>1, <1>3 DEF Build!vars, Build!input, BuildAt
<1> QED
  BY <1>2, <1>3 DEF Built

(* A step outside of the functions that build.                             *)
LEMMA BuildOutside ==
  ASSUME Held, Copied, pc = "call", pc' \in {"call", "overrun"},
         UNCHANGED <<op, refs, members, response, result>>,
         lengths'["bd"] = lengths["bd"]
  PROVE  Held' /\ Copied'
<1>1. WholeResponse' = WholeResponse
  BY DEF WholeResponse, Build!StringsOf, Build!ToSet
<1> QED
  BY <1>1 DEF Held, Copied

LEMMA BuildGetFixed ==
  ASSUME Built, NEW key \in {"challenge", "keyHandle"}, Build!GetFixed(key)
  PROVE  Built'
<1> USE BuildConstants
<1>n. PICK n \in Nat : BuildAt(n)
  BY DEF Built
<1>1. /\ BuildTyped /\ Held /\ Build!Fits /\ Copied
      /\ pc = "call" /\ call # <<>> /\ Head(call) = key /\ rc = "none"
      /\ UNCHANGED <<op, valid, text, pc, next, refs, members, response, result>>
  BY DEF Built, Build!GetFixed, Build!In, Build!input
<1>2. CASE /\ valid /\ text[key] # Build!ABSENT /\ text[key] < FieldSize
           /\ lengths' = [lengths EXCEPT ![key] = text[key]]
           /\ call' = Tail(call) /\ UNCHANGED <<rc, parsed>>
  <2> USE <1>1, <1>2
  <2>1. text[key] \in Nat /\ key \in Build!Keys
    BY DEF BuildTyped, Build!Keys
  <2>2. BuildTyped'
    BY <2>1 DEF BuildTyped
  <2>3. BuildAt(n + 1)'
    <3>1. n + 1 \in 0 .. Len(Calls) /\ Tail(call) = SubSeq(Calls, n + 2, Len(Calls))
          /\ (key = "challenge" => n = 0) /\ (key = "keyHandle" => n = 3)
      BY <1>n, BuildGoesOn, BuildHere
    <3>2. Calls' = Calls
      BY DEF Calls, Build!Calls
    <3>3. lengths'["bd"] = lengths["bd"] /\ lengths'[key] = text[key]
          /\ n \in Nat
      BY DEF BuildTyped, Build!Buffers, Build!Fields
    <3> HIDE DEF Calls
    <3> QED
      BY <1>n, <3>1, <3>2, <3>3 DEF BuildAt
  <2>4. Held' /\ Copied'
    BY BuildOutside DEF BuildTyped
  <2>5. Build!Fits'
    BY <2>1 DEF Build!Fits, BuildTyped, Build!Buffers, Build!Fields
  <2> QED
    BY <2>2, <2>3, <2>4, <2>5 DEF Built
<1>3. CASE /\ rc' = "JSON_ERROR" /\ parsed' \in {parsed, parsed + 1}
           /\ UNCHANGED <<call, lengths>>
  <2> USE <1>1, <1>3
  <2>1. parsed <= 1
    BY <1>n DEF BuildAt, BuildTyped
  <2>2. BuildTyped'
    BY <2>1 DEF BuildTyped, Build!Errors
  <2>3. BuildAt(n)'
    BY <1>n DEF BuildAt, Calls, Build!Calls
  <2>4. Held' /\ Copied' /\ Build!Fits'
    BY BuildOutside DEF Build!Fits
  <2> QED
    BY <2>2, <2>3, <2>4 DEF Built
<1> QED
  <2>1. FieldSize \in Nat /\ (text[key] = Build!ABSENT \/ text[key] \in Nat)
    BY <1>1 DEF BuildTyped, Build!Keys
  <2> QED
    BY <1>2, <1>3, <2>1
       DEF Build!GetFixed, Build!Fixed, Build!GoOn, Build!Fail, Build!TooLong, Build!ABSENT

LEMMA BuildOther ==
  ASSUME Built, Build!PrepareOrigin \/ Build!Devices
  PROVE  Built'
<1>n. PICK n \in Nat : BuildAt(n)
  BY DEF Built
<1>1. /\ BuildTyped /\ Held /\ Build!Fits /\ Copied
      /\ pc = "call" /\ call # <<>> /\ rc = "none"
      /\ UNCHANGED <<op, valid, text, pc, next, refs, members, lengths, response, result>>
  BY DEF Built, Build!PrepareOrigin, Build!Devices, Build!In, Build!input
<1>2. Calls' = Calls /\ Held' /\ Build!Fits' /\ Copied'
  BY <1>1, BuildOutside DEF Calls, Build!Calls, Build!Fits
<1>3. CASE call' = Tail(call) /\ UNCHANGED rc
  <2> USE <1>1, <1>3
  <2>1. \/ n = 2 /\ parsed = 0 /\ parsed' \in {0, 1}
        \/ n = Len(Calls) - 3 /\ Len(Calls) \in {6, 8} /\ parsed <= 1 /\ parsed' = parsed
            /\ (op = "authenticate" => Len(Calls) = 8)
    <3>1. n = 2 => parsed = 0
      BY <1>n DEF BuildAt, BuildTyped
    <3>2. parsed <= 1
      BY <1>n DEF BuildAt, BuildTyped
    <3> QED
      BY <1>n, <3>1, <3>2, BuildHere DEF Build!PrepareOrigin, Build!Devices, Build!In
  <2>2. BuildTyped'
    BY <2>1 DEF BuildTyped
  <2>3. BuildAt(n + 1)'
    <3>1. n + 1 \in 0 .. Len(Calls) /\ Tail(call) = SubSeq(Calls, n + 2, Len(Calls))
      BY <1>n, BuildGoesOn
    <3>2. /\ n >= 2 /\ n + 1 >= 1 /\ n + 1 >= 3 /\ (n + 1) + 1 = n + 2
          /\ op = "authenticate" /\ n + 1 >= 4 => n >= 4
      <4>1. n = 2 \/ (n \in {3, 5} /\ (op = "authenticate" => n = 5))
        <5>1. CASE n = 2
          BY <5>1
        <5>2. CASE n = Len(Calls) - 3 /\ Len(Calls) \in {6, 8}
                   /\ (op = "authenticate" => Len(Calls) = 8)
          <6> DEFINE m == Len(Calls)
          <6>1. n = m - 3 /\ m \in {6, 8} /\ (op = "authenticate" => m = 8)
            BY <5>2
          <6> HIDE DEF m
          <6> QED
            BY <6>1
        <5> QED
          BY <2>1, <5>1, <5>2
      <4> QED
        BY <4>1
    <3>3. call' = SubSeq(Calls', (n + 1) + 1, Len(Calls'))
      BY <1>2, <3>1, <3>2
    <3>4. /\ valid /\ text["challenge"] # Build!ABSENT /\ lengths["bd"] > 0
          /\ n >= 4 /\ op = "authenticate" => text["keyHandle"] = lengths["keyHandle"]
      BY <1>n, <3>2 DEF BuildAt
    <3>5. parsed' <= 1
      BY <2>1
    <3> HIDE DEF Calls
    <3> QED
      BY <1>2, <3>1, <3>2, <3>3, <3>4, <3>5 DEF BuildAt
  <2> QED
    BY <1>2, <2>2, <2>3 DEF Built
<1>4. CASE rc' = "TRANSPORT_ERROR" /\ UNCHANGED <<call, parsed>>
  <2>1. BuildTyped' /\ BuildAt(n)'
    BY <1>n, <1>1, <1>2, <1>4 DEF BuildTyped, BuildAt, Build!Errors
  <2> QED
    BY <1>2, <2>1 DEF Built
<1> QED
  BY <1>3, <1>4 DEF Build!PrepareOrigin, Build!Devices, Build!GoOn, Build!Fail

(* What is encoded of an answer fits, for no answer is longer than the     *)
(* longest.                                                                *)
LEMMA AnswersEncoded ==
  /\ \A k \in Nat : Build!Encoded(k) \in Nat /\ Build!Written(k) \in Nat
  /\ \A k \in {1, AnswerMax} : Build!Encoded(k) < OutSize
<1> USE BuildConstants
<1>1. \A k \in Nat : Build!Encoded(k) \in Nat /\ Build!Written(k) \in Nat
  <2> SUFFICES ASSUME NEW k \in Nat
               PROVE  Build!Encoded(k) \in Nat /\ Build!Written(k) \in Nat
    OBVIOUS
  <2>1. (k + 2) \div 3 \in Nat
    OBVIOUS
  <2>2. k \div 4 \in Nat /\ k \div 4 <= k
    OBVIOUS
  <2> QED
    BY <2>1, <2>2 DEF Build!Encoded, Build!Written
<1>2. Build!Encoded(1) = 4 /\ Build!Encoded(AnswerMax) >= 4
  <2>1. (1 + 2) \div 3 = 1 /\ (AnswerMax + 2) \div 3 >= 1
    OBVIOUS
  <2> QED
    BY <2>1 DEF Build!Encoded
<1>3. Build!Encoded(AnswerMax) \in Nat
  BY <1>1
<1> HIDE DEF Build!Encoded
<1> QED
  BY <1>1, <1>2, <1>3

(* The key handle is decoded, the answer encoded.                          *)
LEMMA BuildCodes ==
  ASSUME Built, Build!Decode \/ Build!Encode
  PROVE  Built'
<1>n. PICK n \in Nat : BuildAt(n)
  BY DEF Built
<1>1. /\ BuildTyped /\ Held /\ Build!Fits /\ Copied
      /\ pc = "call" /\ call # <<>> /\ rc = "none"
      /\ Head(call) \in {"decode", "encode"}
      /\ UNCHANGED <<op, valid, text, next, refs, members, parsed, response, result>>
  BY DEF Built, Build!Decode, Build!Encode, Build!In, Build!input
<1>2. n >= 4 /\ n < Len(Calls) /\ Len(Calls) \in {6, 8}
  <2> DEFINE m == Len(Calls)
  <2>1. m \in {6, 8} /\ (n = 4 \/ n = m - 2) /\ n < m
    BY <1>n, <1>1, BuildHere
  <2> HIDE DEF m
  <2>2. n >= 4
    BY <2>1
  <2> QED
    BY <2>1, <2>2 DEF m
<1>3. /\ \A b \in Build!Fields \cup {"bd"} : lengths'[b] = lengths[b]
      /\ lengths' \in [Build!Buffers -> Nat]
      /\ lengths'["answer"] = lengths["answer"] \/ lengths'["answer"] < OutSize
      /\ pc' = "overrun" =>
            \/ Build!Written(lengths["keyHandle"]) > HandleSize
            \/ Build!Encoded(lengths["bd"]) >= OutSize
      /\ \/ pc' = "overrun" /\ call' = call /\ rc' = rc
         \/ pc' = pc /\ call' = Tail(call) /\ rc' = rc
         \/ pc' = pc /\ call' = <<>> /\ rc' = "OK"
  <2>1. lengths["keyHandle"] \in Nat /\ lengths["bd"] \in Nat
    BY <1>1 DEF BuildTyped, Build!Buffers, Build!Fields
  <2>2. CASE Build!Decode
    <3>1. lengths' = [lengths EXCEPT !["handle"] = Build!Written(lengths["keyHandle"])]
      BY <2>2 DEF Build!Decode
    <3>2. Build!Written(lengths["keyHandle"]) \in Nat
      BY <2>1, AnswersEncoded
    <3>3. /\ \A b \in Build!Fields \cup {"bd"} : lengths'[b] = lengths[b]
          /\ lengths' \in [Build!Buffers -> Nat]
          /\ lengths'["answer"] = lengths["answer"]
      BY <1>1, <3>1, <3>2 DEF BuildTyped, Build!Buffers, Build!Fields
    <3>4. /\ pc' = "overrun" => Build!Written(lengths["keyHandle"]) > HandleSize
          /\ \/ pc' = "overrun" /\ call' = call /\ rc' = rc
             \/ pc' = pc /\ call' = Tail(call) /\ rc' = rc
      BY <1>1, <2>2 DEF Build!Decode, Build!GoOn
    <3> QED
      BY <3>3, <3>4
  <2>3. CASE Build!Encode
    <3>1. PICK answer \in {1, AnswerMax} :
             LET k == Build!Encoded(answer)
                 bd == Build!Encoded(lengths["bd"])
             IN  IF Build!TooLarge(answer) \/ Build!TooLarge(lengths["bd"])
                 THEN call' = <<>> /\ rc' = "OK" /\ UNCHANGED <<lengths, pc>>
                 ELSE /\ lengths' = [lengths EXCEPT !["answer"] = k, !["bdstr"] = bd]
                      /\ IF k >= OutSize \/ bd >= OutSize
                         THEN pc' = "overrun" /\ UNCHANGED <<call, rc>>
                         ELSE Build!GoOn /\ UNCHANGED pc
      BY <2>3 DEF Build!Encode
    <3> DEFINE k == Build!Encoded(answer)
               bd == Build!Encoded(lengths["bd"])
    <3>2. k \in Nat /\ bd \in Nat /\ k < OutSize /\ OutSize \in Nat
      BY <2>1, AnswersEncoded, BuildConstants
    <3>3. \/ /\ call' = <<>> /\ rc' = "OK" /\ lengths' = lengths /\ pc' = pc
          \/ /\ lengths' = [lengths EXCEPT !["answer"] = k, !["bdstr"] = bd]
             /\ \/ bd >= OutSize /\ pc' = "overrun" /\ call' = call /\ rc' = rc
                \/ call' = Tail(call) /\ rc' = rc /\ pc' = pc
      BY <3>1, <3>2 DEF Build!GoOn
    <3> HIDE DEF k
    <3>4. /\ \A b \in Build!Fields \cup {"bd"} : lengths'[b] = lengths[b]
          /\ lengths' \in [Build!Buffers -> Nat]
          /\ lengths'["answer"] = lengths["answer"] \/ lengths'["answer"] < OutSize
      <4> HIDE DEF bd
      <4> QED
        BY <1>1, <3>2, <3>3 DEF BuildTyped, Build!Buffers, Build!Fields
    <3> QED
      BY <1>1, <3>3, <3>4
  <2> QED
    BY <1>1, <2>2, <2>3
<1>4. Calls' = Calls
  BY <1>1 DEF Calls, Build!Calls
<1>5. Held' /\ Copied'
  BY <1>1, <1>3, BuildOutside
<1>6. Build!Fits'
  <2>1. lengths'["answer"] \in Nat /\ lengths["answer"] \in Nat /\ OutSize \in Nat
    BY <1>1, <1>3, BuildConstants DEF BuildTyped, Build!Buffers
  <2>2. lengths["answer"] + 1 <= OutSize /\ lengths["bd"] + 1 <= OutSize
    BY <1>1 DEF Build!Fits
  <2>3. lengths'["answer"] + 1 <= OutSize /\ lengths'["bd"] + 1 <= OutSize
    BY <1>3, <2>1, <2>2
  <2>4. \A b \in Build!Fields : lengths'[b] + 1 <= FieldSize
    BY <1>1, <1>3 DEF Build!Fits
  <2>5. lengths'["keyHandle"] = lengths["keyHandle"] /\ lengths'["bd"] = lengths["bd"]
    BY <1>3 DEF Build!Fields
  <2> QED
    BY <1>3, <2>3, <2>4, <2>5 DEF Build!Fits
<1>7. BuildTyped'
  <2>1. call' \in {call, Tail(call), <<>>} /\ pc' \in {"call", "overrun"} /\ rc' \in {rc, "OK"}
    BY <1>1, <1>3
  <2> QED
    BY <1>1, <1>3, <2>1 DEF BuildTyped
<1>8. /\ valid /\ text["challenge"] # Build!ABSENT /\ lengths'["bd"] > 0
      /\ op = "authenticate" => text["keyHandle"] = lengths'["keyHandle"]
      /\ rc' = "none" => parsed' <= 1
  <2>1. lengths'["bd"] = lengths["bd"] /\ lengths'["keyHandle"] = lengths["keyHandle"]
    BY <1>3 DEF Build!Fields
  <2>2. n >= 1 /\ n >= 2 /\ n >= 3
    BY <1>2
  <2> HIDE DEF Calls
  <2> QED
    BY <1>n, <1>1, <1>2, <2>1, <2>2 DEF BuildAt
<1>9. \E k \in Nat : BuildAt(k)'
  <2>1. /\ n + 1 \in 0 .. Len(Calls) /\ Tail(call) = SubSeq(Calls, n + 2, Len(Calls))
        /\ n \in 0 .. Len(Calls)
    BY <1>n, <1>1, <1>2, BuildGoesOn DEF BuildAt
  <2>2. <<>> = SubSeq(Calls, Len(Calls) + 1, Len(Calls))
    <3> DEFINE m == Len(Calls)
    <3>1. m \in {6, 8}
      BY <1>2
    <3>2. <<>> = SubSeq(Calls, m + 1, m)
      BY <3>1, SubSeqEmpty
    <3> QED
      BY <3>2
  <2>3. call = SubSeq(Calls, n + 1, Len(Calls))
    BY <1>n DEF BuildAt
  <2>4. n >= 1 /\ n >= 2 /\ n >= 3 /\ n + 1 >= 1 /\ n + 1 >= 2 /\ n + 1 >= 3 /\ n + 1 >= 4
        /\ (n + 1) + 1 = n + 2 /\ n + 1 \in Nat
    BY <1>2
  <2> HIDE DEF Calls
  <2>5. CASE pc' = "overrun" /\ call' = call /\ rc' = rc
    <3>1. BuildAt(n)'
      BY <1>1, <1>2, <1>4, <1>8, <2>1, <2>3, <2>4, <2>5 DEF BuildAt
    <3> QED
      BY <3>1
  <2>6. CASE pc' = pc /\ call' = Tail(call) /\ rc' = rc
    <3>1. BuildAt(n + 1)'
      BY <1>1, <1>4, <1>8, <2>1, <2>4, <2>6 DEF BuildAt
    <3> QED
      BY <2>4, <3>1
  <2>7. CASE pc' = pc /\ call' = <<>> /\ rc' = "OK"
    <3>1. PICK m \in Nat : m = Len(Calls)
      BY <1>2
    <3>2. m >= 4 /\ m >= 1 /\ m >= 2 /\ m >= 3 /\ m \in 0 .. m
      BY <1>2, <3>1
    <3>3. call' = SubSeq(Calls', m + 1, Len(Calls')) /\ m \in 0 .. Len(Calls')
      BY <1>4, <2>2, <2>7, <3>1, <3>2
    <3>4. BuildAt(m)'
      BY <1>1, <1>8, <2>7, <3>2, <3>3 DEF BuildAt
    <3> QED
      BY <3>1, <3>4
  <2> QED
    BY <1>3, <2>5, <2>6, <2>7
<1> QED
  BY <1>5, <1>6, <1>7, <1>9 DEF Built

(* Between the entry of a function that builds and its end the operation   *)
(* stays where it is.                                                      *)
LEMMA BuildStays ==
  ASSUME NEW n \in Nat, BuildAt(n),
         pc \notin {"call", "overrun"} \/ n \in {1, Len(Calls) - 1},
         UNCHANGED <<op, valid, text, call, rc, parsed>>, rc = "none",
         lengths'["bd"] = lengths["bd"] \/ lengths'["bd"] > 0,
         lengths'["keyHandle"] = lengths["keyHandle"]
  PROVE  BuildAt(n)' /\ Wanted' = Wanted /\ Calls' = Calls
<1>1. Calls' = Calls /\ Wanted' = Wanted
  BY DEF Calls, Build!Calls, Wanted, Build!StringsOf, Build!ToSet
<1> QED
  BY <1>1 DEF BuildAt

LEMMA BuildBegin ==
  ASSUME Built, Build!Begin
  PROVE  Built'
<1>n. PICK n \in Nat : BuildAt(n)
  BY DEF Built
<1>c. PICK c \in {"browserdata", "response"} : Build!In(c) /\ next' = Build!StringsOf(c)
  BY DEF Build!Begin
<1>1. /\ BuildTyped /\ Held /\ Build!Fits /\ Copied
      /\ pc = "call" /\ call # <<>> /\ Head(call) = c /\ rc = "none"
      /\ pc' = "strings" /\ result' = "JSON_ERROR"
      /\ UNCHANGED <<op, valid, text, call, refs, members, parsed, lengths, response, rc>>
  BY <1>c DEF Built, Build!Begin, Build!In, Build!input
<1> USE <1>1
<1>2. next' \in Seq(Build!Strings)
  BY <1>c, StringsFit DEF BuildTyped
<1>3. BuildTyped'
  BY <1>2 DEF BuildTyped, Build!Errors
<1>4. BuildAt(n)' /\ Wanted' = Wanted
  BY <1>n, BuildHere, BuildStays
<1>5. Held'
  <2>1. Made' = {}
    BY DEF Made, Held, Build!Objects
  <2>2. Build!ToSet(next)' = Wanted
    BY <1>c DEF Wanted, Build!ToSet
  <2>3. refs["jo"] = 0
    BY DEF Held, Build!Objects
  <2> QED
    BY <1>4, <2>1, <2>2, <2>3 DEF Held
<1>6. Copied'
  BY DEF Copied, WholeResponse, Build!StringsOf, Build!ToSet
<1>7. Build!Fits'
  BY DEF Build!Fits
<1> QED
  BY <1>3, <1>4, <1>5, <1>6, <1>7 DEF Built

LEMMA BuildNewString ==
  ASSUME Built, Build!NewString
  PROVE  Built'
<1>n. PICK n \in Nat : BuildAt(n)
  BY DEF Built
<1>1. /\ BuildTyped /\ Held /\ Build!Fits /\ Copied
      /\ pc = "strings" /\ next # <<>> /\ rc = "none"
      /\ UNCHANGED <<op, valid, text, call, members, parsed, lengths, response, result, rc>>
  BY <1>n DEF Built, BuildAt, Build!NewString, Build!input
<1> USE <1>1
<1>2. BuildAt(n)' /\ Wanted' = Wanted
  BY <1>n, BuildStays
<1>3. Build!Fits' /\ WholeResponse' = WholeResponse
  <2>1. pc' # "overrun"
    BY DEF Build!NewString
  <2>2. Build!Fits'
    BY <2>1 DEF Build!Fits
  <2> QED
    BY <2>2 DEF WholeResponse, Build!StringsOf, Build!ToSet
<1>4. refs["jo"] = 0 /\ members = {}
  <2>1. refs["jo"] \in 0 .. 1
    BY DEF BuildTyped, Build!Objects
  <2> QED
    BY <2>1 DEF Held
<1>5. CASE /\ refs' = [refs EXCEPT ![Head(next)] = 1]
           /\ next' = Tail(next)
           /\ pc' = IF next' = <<"key">> THEN "fetch" ELSE "strings"
  <2> USE <1>5
  <2>1. Head(next) \in Build!Strings /\ Tail(next) \in Seq(Build!Strings)
    BY HeadTailProperties DEF BuildTyped
  <2>2. Head(next) \in Build!Objects /\ Head(next) # "jo"
    BY <2>1 DEF Build!Strings, Build!Objects
  <2>3. BuildTyped'
    BY <2>1, <2>2 DEF BuildTyped
  <2>4. Made' = Made \cup {Head(next)}
    BY <2>1, <2>2 DEF Made, BuildTyped, Build!Objects
  <2>5. Build!ToSet(next) = {Head(next)} \cup Build!ToSet(Tail(next))
    BY TailStrings DEF BuildTyped
  <2>6. Build!ToSet(next)' = Build!ToSet(Tail(next))
    BY DEF Build!ToSet
  <2>7. refs'["jo"] = 0
    BY <1>4, <2>2 DEF BuildTyped, Build!Objects
  <2>8. pc' = "fetch" => "key" \in Build!ToSet(next)'
    <3>1. pc' = "fetch" => next' = <<"key">>
      OBVIOUS
    <3>2. Build!ToSet(next)' = Build!ToSet(next')
      BY DEF Build!ToSet
    <3> QED
      BY <3>1, <3>2, KeyOnly
  <2>9. Held'
    BY <1>2, <1>4, <2>4, <2>5, <2>6, <2>7, <2>8 DEF Held
  <2>10. Copied'
    BY <1>3 DEF Copied
  <2> QED
    BY <1>2, <1>3, <2>3, <2>9, <2>10 DEF Built
<1>6. CASE pc' = "done" /\ UNCHANGED <<refs, next>>
  <2>1. BuildTyped'
    BY <1>6 DEF BuildTyped
  <2>2. Held'
    BY <1>4, <1>6 DEF Held
  <2>3. Copied'
    BY <1>3, <1>6 DEF Copied
  <2> QED
    BY <1>2, <1>3, <2>1, <2>2, <2>3 DEF Built
<1> QED
  BY <1>5, <1>6 DEF Build!NewString, Build!Made

LEMMA KeyWanted ==
  ASSUME op \in {"register", "authenticate"},
         Head(call) \in {"browserdata", "response"}, "key" \in Wanted
  PROVE  op = "authenticate" /\ Head(call) = "response"
<1>1. CASE Head(call) = "browserdata"
  <2>1. Build!StringsOf(Head(call)) = <<"chal", "orig", "typ">>
    BY <1>1 DEF Build!StringsOf
  <2> QED
    BY <2>1 DEF Wanted, Build!ToSet
<1>2. CASE Head(call) = "response" /\ op = "register"
  <2>1. Build!StringsOf(Head(call)) = <<"bd", "resp">>
    BY <1>2 DEF Build!StringsOf
  <2> QED
    BY <2>1 DEF Wanted, Build!ToSet
<1> QED
  BY <1>1, <1>2

LEMMA BuildFetchKey ==
  ASSUME Built, Build!FetchKey
  PROVE  Built'
<1>n. PICK n \in Nat : BuildAt(n)
  BY DEF Built
<1>1. /\ BuildTyped /\ Held /\ Build!Fits /\ Copied
      /\ pc = "fetch" /\ rc = "none"
      /\ UNCHANGED <<op, valid, text, call, next, refs, members, response, result, rc>>
  BY <1>n DEF Built, BuildAt, Build!FetchKey, Build!input
<1> USE <1>1, BuildConstants
<1>2. op = "authenticate" /\ n >= 4
  <2>1. op = "authenticate" /\ Head(call) = "response"
    BY <1>n, BuildHere, KeyWanted DEF Held, BuildTyped
  <2>2. n = Len(Calls) - 1 /\ Len(Calls) = 8
    BY <1>n, <2>1, BuildHere
  <2> DEFINE m == Len(Calls)
  <2>3. n = m - 1 /\ m = 8
    BY <2>2
  <2> HIDE DEF m
  <2> QED
    BY <2>1, <2>3
<1>3. /\ text["keyHandle"] \in Nat /\ text["keyHandle"] # Build!ABSENT
      /\ ~Build!TooLong(text["keyHandle"])
  <2>1. text["keyHandle"] = lengths["keyHandle"] /\ lengths["keyHandle"] \in Nat
    BY <1>n, <1>2 DEF BuildAt, BuildTyped, Build!Buffers, Build!Fields
  <2> QED
    BY <2>1 DEF Build!TooLong, Build!ABSENT, Build!Fits, Build!Fields
<1>4. /\ pc' \in {"strings", "done"} /\ parsed' = parsed
      /\ lengths' \in {lengths, [lengths EXCEPT !["key"] = text["keyHandle"]]}
  BY <1>3 DEF Build!FetchKey, Build!Fixed
<1>5. BuildTyped' /\ lengths'["bd"] = lengths["bd"] /\ lengths'["keyHandle"] = lengths["keyHandle"]
  BY <1>3, <1>4 DEF BuildTyped, Build!Buffers, Build!Fields
<1>6. BuildAt(n)' /\ Wanted' = Wanted
  BY <1>n, <1>4, <1>5, BuildStays
<1>7. Made' = Made /\ WholeResponse' = WholeResponse /\ Build!ToSet(next)' = Build!ToSet(next)
  BY DEF Made, WholeResponse, Build!StringsOf, Build!ToSet
<1>8. Held'
  <2>1. refs["jo"] # 1
    BY DEF Held
  <2> QED
    BY <1>4, <1>6, <1>7, <2>1 DEF Held
<1>9. Copied'
  BY <1>4, <1>5, <1>7 DEF Copied
<1>10. Build!Fits'
  BY <1>3, <1>4 DEF Build!Fits, Build!TooLong, BuildTyped, Build!Buffers, Build!Fields
<1> QED
  BY <1>5, <1>6, <1>8, <1>9, <1>10 DEF Built

LEMMA BuildObject ==
  ASSUME Built, Build!NewObject \/ Build!AddMembers
  PROVE  Built'
<1>n. PICK n \in Nat : BuildAt(n)
  BY DEF Built
<1>1. /\ BuildTyped /\ Held /\ Build!Fits /\ Copied
      /\ pc \in {"strings", "add"} /\ rc = "none"
      /\ UNCHANGED <<op, valid, text, call, next, parsed, lengths, response, result, rc>>
  BY <1>n DEF Built, BuildAt, Build!NewObject, Build!AddMembers, Build!input
<1> USE <1>1
<1>2. BuildAt(n)' /\ Wanted' = Wanted
  BY <1>n, BuildStays
<1>3. WholeResponse' = WholeResponse /\ Build!Fits' /\ Wanted \subseteq Build!Strings
  <2>1. Build!StringsOf(Head(call)) \in Seq(Build!Strings)
    BY <1>n, BuildHere, StringsFit DEF BuildTyped
  <2>2. \A k \in DOMAIN Build!StringsOf(Head(call)) :
            Build!StringsOf(Head(call))[k] \in Build!Strings
    BY <2>1, LenProperties
  <2>3. pc' # "overrun"
    BY DEF Build!NewObject, Build!AddMembers
  <2>4. Build!Fits'
    BY <2>3 DEF Build!Fits
  <2> QED
    BY <2>2, <2>4 DEF WholeResponse, Build!StringsOf, Build!ToSet, Wanted
<1>4. Copied'
  <2>1. pc' \notin {"call", "done"} \/ pc' = "done"
    BY DEF Build!NewObject, Build!AddMembers
  <2> QED
    BY <1>3, <2>1 DEF Copied
<1>5. CASE Build!AddMembers
  <2>1. pc = "add" /\ pc' = "copy" /\ refs' = refs /\ members' = Wanted
    BY <1>5 DEF Build!AddMembers, Wanted
  <2>2. BuildTyped'
    BY <1>3, <2>1 DEF BuildTyped
  <2>3. Held'
    BY <1>2, <2>1 DEF Held, Made
  <2> QED
    BY <1>2, <1>3, <1>4, <2>2, <2>3 DEF Built
<1>6. CASE Build!NewObject
  <2>1. /\ pc = "strings" /\ next = <<>> /\ members' = members
        /\ \/ refs' = [refs EXCEPT !["jo"] = 1] /\ pc' = "add"
           \/ pc' = "done" /\ refs' = refs
    BY <1>6 DEF Build!NewObject, Build!Made
  <2>2. BuildTyped'
    BY <2>1 DEF BuildTyped
  <2>3. Made = Wanted /\ refs["jo"] = 0 /\ members = {}
    <3>1. Build!ToSet(next) = {} /\ refs["jo"] \in 0 .. 1
      BY <2>1, NoStrings DEF BuildTyped, Build!Objects
    <3>2. refs["jo"] # 1 /\ Made \cup Build!ToSet(next) = Wanted
      BY <2>1 DEF Held
    <3>3. refs["jo"] = 0
      BY <3>1, <3>2
    <3> QED
      BY <3>1, <3>2, <3>3 DEF Held
  <2>4. Made' = Made
    BY <2>1 DEF Made, Build!Strings, BuildTyped, Build!Objects
  <2>5. pc' = "add" => refs'["jo"] = 1
    BY <2>1 DEF BuildTyped, Build!Objects
  <2>6. pc' = "done" => refs'["jo"] = 0
    BY <2>1, <2>3
  <2>7. Held'
    BY <1>2, <2>1, <2>3, <2>4, <2>5, <2>6 DEF Held
  <2> QED
    BY <1>2, <1>3, <1>4, <2>2, <2>7 DEF Built
<1> QED
  BY <1>5, <1>6

LEMMA BuildCopyOut ==
  ASSUME Built, Build!CopyOut
  PROVE  Built'
<1>n. PICK n \in Nat : BuildAt(n)
  BY DEF Built
<1>1. /\ BuildTyped /\ Held /\ Build!Fits /\ Copied
      /\ pc = "copy" /\ pc' = "done" /\ rc = "none"
      /\ UNCHANGED <<op, valid, text, call, next, refs, members, parsed, rc>>
  BY <1>n DEF Built, BuildAt, Build!CopyOut, Build!input
<1> USE <1>1, BuildConstants
<1>h. Head(call) \in {"browserdata", "response"}
  BY <1>n, BuildHere
<1>2. \/ /\ Head(call) = "browserdata" /\ result' = "OK" /\ response' = response
         /\ \E length \in Nat \ {0} :
               length < OutSize /\ lengths' = [lengths EXCEPT !["bd"] = length]
      \/ /\ Head(call) = "response" /\ result' = "OK" /\ response' = members
         /\ lengths' = lengths
      \/ result' = "MEMORY_ERROR" /\ response' = response /\ lengths' = lengths
  BY DEF Build!CopyOut, Build!NoRoom
<1>3. BuildTyped'
  BY <1>2 DEF BuildTyped, Build!Errors
<1>4. /\ lengths'["bd"] = lengths["bd"] \/ lengths'["bd"] > 0
      /\ lengths'["keyHandle"] = lengths["keyHandle"]
      /\ lengths["bd"] > 0 => lengths'["bd"] > 0
  BY <1>2 DEF BuildTyped, Build!Buffers, Build!Fields
<1>5. BuildAt(n)' /\ Wanted' = Wanted
  BY <1>n, <1>4, BuildStays
<1>6. Held'
  BY DEF Held, Made
<1>7. WholeResponse' = WholeResponse
  BY DEF WholeResponse, Build!StringsOf, Build!ToSet
<1>8. Copied'
  <2>1. CASE Head(call) = "browserdata" /\ result' = "OK" /\ response' = response
    <3>1. lengths'["bd"] > 0
      BY <1>2, <2>1 DEF BuildTyped, Build!Buffers, Build!Fields
    <3> QED
      BY <1>7, <2>1, <3>1 DEF Copied
  <2>2. CASE Head(call) = "response" /\ response' = members /\ lengths' = lengths
    <3>1. n >= 2 /\ lengths["bd"] > 0
      <4>1. n = Len(Calls) - 1 /\ Len(Calls) \in {6, 8}
        BY <1>n, <2>2, BuildHere
      <4> DEFINE m == Len(Calls)
      <4>2. n = m - 1 /\ m \in {6, 8}
        BY <4>1
      <4> HIDE DEF m
      <4>3. n >= 2
        BY <4>2
      <4> QED
        BY <1>n, <4>3 DEF BuildAt
    <3>2. members = WholeResponse
      BY <2>2 DEF Held, Wanted, WholeResponse
    <3> QED
      BY <1>7, <2>2, <3>1, <3>2 DEF Copied
  <2>3. CASE result' = "MEMORY_ERROR" /\ response' = response
    BY <1>4, <1>7, <2>3 DEF Copied
  <2> QED
    BY <1>2, <2>1, <2>2, <2>3
<1>9. Build!Fits'
  BY <1>2 DEF Build!Fits, BuildTyped, Build!Buffers, Build!Fields
<1> QED
  BY <1>3, <1>5, <1>6, <1>8, <1>9 DEF Built

(* Whatever was made is put once.                                          *)
LEMMA AllPut ==
  ASSUME BuildTyped, Held, pc = "done", NEW o \in Build!Objects
  PROVE  refs[o] - Build!Puts(o) = 0
<1>1. refs[o] \in {0, 1} /\ refs["jo"] \in {0, 1}
  BY DEF BuildTyped, Build!Objects
<1>2. o \in Build!Strings \/ o = "jo"
  BY DEF Build!Objects
<1>3. "jo" \notin Build!Strings
  BY DEF Build!Strings
<1>4. CASE refs["jo"] = 0
  BY <1>1, <1>2, <1>3, <1>4 DEF Build!Puts, Build!OneByOne
<1>5. CASE refs["jo"] = 1
  <2>1. members = {s \in Build!Strings : refs[s] = 1}
    BY <1>5 DEF Held, Made
  <2>2. o \in members \cup {"jo"} <=> refs[o] = 1
    BY <1>2, <1>3, <1>5, <2>1
  <2> QED
    BY <1>1, <1>5, <2>2 DEF Build!Puts, Build!OneByOne
<1> QED
  BY <1>1, <1>4, <1>5

LEMMA BuildDone ==
  ASSUME Built, Build!Done
  PROVE  Built'
<1>n. PICK n \in Nat : BuildAt(n)
  BY DEF Built
<1>1. /\ BuildTyped /\ Held /\ Build!Fits /\ Copied
      /\ pc = "done" /\ rc = "none" /\ pc' = "call" /\ next' = <<>> /\ members' = {}
      /\ refs' = [o \in Build!Objects |-> refs[o] - Build!Puts(o)]
      /\ UNCHANGED <<op, valid, text, parsed, lengths, response, result>>
  BY <1>n DEF Built, BuildAt, Build!Done, Build!input
<1> USE <1>1
<1>2. refs' = [o \in Build!Objects |-> 0]
  BY AllPut
<1>3. Held' /\ Build!Fits'
  <2>1. "jo" \in Build!Objects
    BY DEF Build!Objects
  <2> QED
    BY <1>2, <2>1 DEF Held, Build!Fits
<1>4. Calls' = Calls /\ WholeResponse' = WholeResponse
  BY DEF Calls, Build!Calls, WholeResponse, Build!StringsOf, Build!ToSet
<1>5. Copied'
  BY <1>4 DEF Copied
<1>6. next' \in Seq(Build!Strings)
  BY EmptySeq
<1>7. /\ call # <<>> /\ Head(call) \in {"browserdata", "response"}
      /\ n + 1 \in 0 .. Len(Calls) /\ Tail(call) = SubSeq(Calls, n + 2, Len(Calls))
      /\ Head(call) = "browserdata" => n = 1
      /\ Head(call) = "response" => n = Len(Calls) - 1
      /\ Len(Calls) \in {6, 8} /\ n \in 0 .. Len(Calls)
  BY <1>n, BuildHere, BuildGoesOn DEF BuildAt
<1>8. CASE Head(call) = "response" /\ rc' = "OK" /\ call' = <<>>
  <2>1. BuildTyped'
    BY <1>2, <1>6, <1>8 DEF BuildTyped
  <2>2. BuildAt(Len(Calls))'
    <3> DEFINE m == Len(Calls)
    <3>1. m \in {6, 8} /\ n = m - 1 /\ m \in 0 .. m
      BY <1>7, <1>8
    <3>2. <<>> = SubSeq(Calls, m + 1, m)
      BY <3>1, SubSeqEmpty
    <3> HIDE DEF m
    <3>3. n >= 4
      BY <3>1
    <3> QED
      BY <1>n, <1>4, <1>8, <3>1, <3>2, <3>3 DEF BuildAt, m
  <2> QED
    BY <1>3, <1>5, <1>7, <2>1, <2>2 DEF Built
<1>9. CASE Head(call) = "browserdata" /\ result = "OK" /\ call' = Tail(call) /\ rc' = rc
  <2>1. BuildTyped'
    BY <1>2, <1>6, <1>9 DEF BuildTyped
  <2>2. lengths["bd"] > 0
    BY <1>9 DEF Copied
  <2>3. BuildAt(n + 1)'
    <3>1. n = 1
      BY <1>7, <1>9
    <3> HIDE DEF Calls
    <3> QED
      BY <1>n, <1>4, <1>7, <1>9, <2>2, <3>1 DEF BuildAt
  <2> QED
    BY <1>3, <1>5, <2>1, <2>3 DEF Built
<1>10. CASE rc' = result /\ call' = call
  <2>1. BuildTyped' /\ BuildAt(n)'
    BY <1>n, <1>2, <1>4, <1>6, <1>10 DEF BuildTyped, BuildAt
  <2> QED
    BY <1>3, <1>5, <2>1 DEF Built
<1> QED
  BY <1>8, <1>9, <1>10 DEF Build!Done, Build!GoOn, Build!Fail

LEMMA BuildStep ==
  ASSUME BuildInv, [Next]_vars
  PROVE  BuildInv'
<1> SUFFICES ASSUME part' = "build" PROVE BuildInv'
  BY DEF BuildInv
<1>1. part = "build"
  BY DEF Next, vars, TransportAlone, OperationsAlone, BuildAlone, WireAlone, LibusbAlone,
         MacAlone, WinAlone
<1>2. CASE Build!Next
  BY <1>1, <1>2, BuildGetFixed, BuildOther, BuildBegin, BuildNewString, BuildFetchKey,
     BuildObject, BuildCopyOut, BuildDone, BuildCodes
     DEF Build!Next, BuildInv
<1>3. CASE UNCHANGED vars
  BY <1>3, BuildStutter
     DEF vars, shared, buildOwn, Build!vars, Build!input
<1> QED
  BY <1>1, <1>2, <1>3
     DEF Next, TransportAlone, OperationsAlone, BuildAlone, WireAlone, LibusbAlone,
         MacAlone, WinAlone

LEMMA BuildFine ==
  ASSUME BuildInv
  PROVE  Balanced
<1> SUFFICES ASSUME part = "build"
             PROVE  Build!TypeOK /\ Build!Balanced /\ Build!Fits /\ Build!Whole
  BY DEF Balanced
<1>n. PICK n \in Nat : BuildAt(n)
  BY DEF BuildInv, Built
<1>1. BuildTyped /\ Held /\ Build!Fits /\ Copied
  BY DEF BuildInv, Built
<1>2. Build!TypeOK
  BY <1>n, <1>1 DEF Build!TypeOK, BuildTyped, BuildAt, Calls
<1>3. Build!Balanced
  BY <1>1 DEF Build!Balanced, Held
<1>4. Build!Whole
  <2>1. response # {} =>
          response = Build!ToSet(Build!StringsOf("response")) /\ lengths["bd"] > 0
    BY <1>1 DEF Copied, WholeResponse
  <2>2. ASSUME call # <<>>, Head(call) = "devices"
        PROVE  n >= 1 /\ (op = "authenticate" => n >= 4)
    <3>1. n = Len(Calls) - 3 /\ Len(Calls) \in {6, 8} /\ (op = "authenticate" => Len(Calls) = 8)
      BY <1>n, <1>1, <2>2, BuildHere
    <3> DEFINE m == Len(Calls)
    <3>2. n = m - 3 /\ m \in {6, 8} /\ (op = "authenticate" => m = 8)
      BY <3>1
    <3> HIDE DEF m
    <3> QED
      BY <3>2
  <2> QED
    BY <1>n, <2>1, <2>2 DEF Build!Whole, BuildAt
<1> QED
  BY <1>1, <1>2, <1>3, <1>4

(* Whichever allocation fails, each JSON object an operation makes is put  *)
(* once and a response is whole; and nothing is written beyond a buffer    *)
(* but long client data, encoded, and a long key handle, decoded: for      *)
(* texts of any length, and any sizes for which the longest answer of a    *)
(* device fits, encoded.                                                   *)
THEOREM BalancedAlways == Spec => []Balanced
<1>1. Spec => []BuildInv
  BY BuildInitially, BuildStep, PTL DEF Spec
<1> QED
  BY <1>1, BuildFine, PTL

-----------------------------------------------------------------------------
(* A program and its device.  Frames and messages: what always holds of    *)
(* one.                                                                    *)
Of(f) == f.id[1].no
Nth(f) == f.id[2]

Ids == [by: {"p"}, no: Nat \ {0}] \X (Nat \ {0})

Frames ==
    {f \in [cid: Nat, id: Ids, total: Nat,
            cmd: {"INIT", "PING", "MSG", "CONT", "ERROR"}, seq: Nat, new: Nat] :
        /\ Nth(f) <= Transport!FramesFor(f.total)
        /\ f.seq = IF Nth(f) = 1 THEN 0 ELSE Nth(f) - 2
        /\ f.cmd # "CONT" <=> Nth(f) = 1
        /\ f.cmd \in {"PING", "INIT"} => f.total <= InitData
        /\ f.cid = 0 => f.cmd \in {"INIT", "ERROR"}
        /\ f.cmd = "INIT" => f.cid = 0}

Messages ==
    {j \in [cid: Nat, cmd: {"INIT", "PING", "MSG"}, total: Nat, have: Nat, next: Nat,
            of: [by: {"p"}, no: Nat \ {0}]] :
        /\ j.cid = 0 <=> j.cmd = "INIT"
        /\ j.cmd = "PING" => j.total = 1}

(* They are in the order in which they were sent.                          *)
Elements(s) == {s[k] : k \in 1 .. Len(s)}
Earlier(f, g) == Of(f) < Of(g) \/ (Of(f) = Of(g) /\ Nth(f) < Nth(g))
Increasing(s) == \A k \in 1 .. Len(s) : \A l \in 1 .. Len(s) : k < l => Earlier(s[k], s[l])
Rising(s) == \A k \in 1 .. Len(s) : \A l \in 1 .. Len(s) : k < l => s[k].of.no < s[l].of.no

Queued == Elements(queue["p"])
Emitted == Elements(emitting)
Pending == Queued \cup Emitted
Owed == Elements(jobs)
Number == call["p"].no

OfProgram(f) == f = [x \in {"p"} |-> f["p"]]

Shaped ==
    /\ OfProgram(state) /\ OfProgram(pc) /\ OfProgram(cid) /\ OfProgram(call)
    /\ OfProgram(datasent) /\ OfProgram(sequence) /\ OfProgram(timeout)
    /\ OfProgram(got) /\ OfProgram(result) /\ OfProgram(queue)

Flows ==
    /\ queue["p"] \in Seq(Frames) /\ emitting \in Seq(Frames)
    /\ jobs \in Seq(Messages) /\ inbox \subseteq Messages
    /\ got["p"] \in [len: Nat, recvd: Nat, of: Seq(Ids)]

TransportTyped ==
    /\ state["p"] \in {"closed", "new", "ready", "suspect"}
    /\ pc["p"] \in {"idle", "send", "read"}
    /\ cid["p"] \in Nat /\ channels \in Nat
    /\ call["p"].cmd \in {"INIT", "PING", "MSG"}
    /\ call["p"].len \in Transport!Lens \cup {0} /\ call["p"].len \in Nat
    /\ Number \in 0 .. MaxCalls
    /\ datasent["p"] \in Nat /\ datasent["p"] <= call["p"].len
    /\ sequence["p"] \in Nat
    /\ timeout["p"] \in Nat /\ timeout["p"] <= 2 * MaxTimeout
    /\ result["p"].rc \in {"none", "OK", "TRANSPORT_ERROR"}

Ordered ==
    /\ Increasing(queue["p"]) /\ Increasing(emitting) /\ Rising(jobs)
    /\ \A f \in Queued : \A g \in Emitted : Earlier(f, g)
    /\ \A f \in Pending : \A j \in Owed : Of(f) < j.of.no
    /\ \A f \in Pending : \A g \in Pending : Of(f) = Of(g) => f.total = g.total

(* Nothing is newer than the call, and each call has at most one answer,   *)
(* so that there are not more channels than calls.                         *)
Counted ==
    /\ \A f \in Pending : Of(f) <= Number /\ (pc["p"] = "send" => Of(f) < Number)
    /\ \A j \in Owed : j.of.no <= Number /\ (pc["p"] = "send" => j.of.no < Number)
    /\ channels + Len(jobs) + (IF pc["p"] = "send" THEN 1 ELSE 0) <= Number
    /\ cid["p"] <= channels
    /\ \A f \in Pending : f.cid <= channels
    /\ \A j \in Owed \cup inbox : j.cid <= channels

(* A channel that is on its way to the program is not in use.              *)
Unused(c) ==
    /\ c # cid["p"]
    /\ \A f \in Pending : f.cid # c
    /\ \A j \in Owed \cup inbox : j.cid # c

Given ==
    \A g \in Pending : g.cmd = "INIT" =>
        /\ g.new \in 1 .. channels /\ Unused(g.new)
        /\ \A f \in Pending : f.cmd = "INIT" /\ f.new = g.new => f.id = g.id

(* What a program sends, in what it knows.                                 *)
Sends ==
    /\ state["p"] = "closed" => pc["p"] = "idle"
    /\ state["p"] = "new" => cid["p"] = 0
    /\ state["p"] \in {"ready", "suspect"} => cid["p"] # 0
    /\ pc["p"] # "idle" =>
          /\ state["p"] = "new" => call["p"].cmd = "INIT"
          /\ state["p"] = "ready" => call["p"].cmd \in {"PING", "MSG"}
          /\ state["p"] = "suspect" => call["p"].cmd = "PING"
          /\ call["p"].cmd = "INIT" => call["p"].len = 8
          /\ call["p"].cmd = "PING" => call["p"].len = 1
    /\ pc["p"] = "idle" => datasent["p"] = 0
    /\ pc["p"] = "send" =>
          datasent["p"] < call["p"].len /\ (datasent["p"] # 0 => call["p"].cmd = "MSG")

(* On the channel of a program that has had all its answers there is       *)
(* nothing but the call it is in ...                                       *)
Alone ==
    state["p"] = "ready" =>
        /\ \A f \in Pending : f.cid = cid["p"] =>
              /\ pc["p"] = "read" /\ Of(f) = Number
              /\ f.cmd \in {call["p"].cmd, "CONT", "ERROR"}
        /\ \A j \in Owed : j.cid = cid["p"] =>
              pc["p"] = "read" /\ j.of.no = Number /\ j.cmd = call["p"].cmd
        /\ \A m \in inbox : m.cid = cid["p"] =>
              /\ pc["p"] = "send" /\ m.of.no = Number /\ m.cmd = call["p"].cmd
              /\ m.have = datasent["p"] /\ m.total = call["p"].len

(* ... and if one is missing no ping but the one it waits for.             *)
NextIsPing ==
    state["p"] = "suspect" =>
        /\ \A f \in Pending : f.cid = cid["p"] /\ f.cmd = "PING" =>
              pc["p"] = "read" /\ Of(f) = Number
        /\ \A j \in Owed : j.cid = cid["p"] /\ j.cmd = "PING" =>
              pc["p"] = "read" /\ j.of.no = Number
        /\ pc["p"] = "read" => \A m \in inbox : m.cid # cid["p"]

(* Only what is longer than a frame is received, or read, bit by bit.      *)
Longer == \A m \in inbox : m.cmd = "MSG"

Collected ==
    /\ pc["p"] # "read" => got["p"].of = <<>>
    /\ got["p"].of # <<>> =>
          /\ state["p"] = "ready"
          /\ \A k \in 1 .. Len(got["p"].of) :
                got["p"].of[k] = <<[by |-> "p", no |-> Number], k>>
          /\ sequence["p"] = Len(got["p"].of) - 1
          /\ got["p"].recvd = InitData + (Len(got["p"].of) - 1) * ContData
          /\ got["p"].recvd < got["p"].len
          /\ \A f \in Pending : Of(f) = Number =>
                Nth(f) > Len(got["p"].of) /\ f.total = got["p"].len
          /\ \A j \in Owed : j.of.no # Number

Whole ==
    result["p"].rc = "OK" =>
        /\ \A k \in DOMAIN result["p"].of : result["p"].of[k] = <<result["p"].of[1][1], k>>
        /\ Len(result["p"].of) = Transport!FramesFor(result["p"].len)
        /\ result["p"].cmd # "INIT" => result["p"].of[1][1] = [by |-> "p", no |-> Number]

TransportState ==
    /\ Shaped /\ Flows /\ TransportTyped /\ Ordered /\ Counted /\ Given /\ Sends
    /\ Alone /\ NextIsPing /\ Longer /\ Collected /\ Whole

TransportInv == part = "transport" => TransportState

LEMMA TransportConstants ==
    /\ InitData \in Nat /\ InitData >= 17 /\ ContData \in Nat \ {0}
    /\ HidTimeout \in Nat \ {0} /\ MaxTimeout \in Nat /\ HidTimeout <= MaxTimeout
    /\ SendLens \subseteq Nat /\ AnswerLens \subseteq Nat
    /\ InputReports \in Nat \ {0} /\ MaxCalls \in Nat
BY CallsAssumption DEF Transport!SizesAssumption

(* How many frames an answer has.                                          *)
LEMMA OneFrame ==
  ASSUME NEW n \in Nat, n <= InitData
  PROVE  Transport!FramesFor(n) = 1
BY DEF Transport!FramesFor

LEMMA ManyFrames ==
  ASSUME NEW n \in Nat, NEW r \in Nat \ {0}, InitData < n,
         InitData + (r - 1) * ContData < n, n <= InitData + r * ContData
  PROVE  Transport!FramesFor(n) = r + 1
<1> USE TransportConstants
<1>1. (n - InitData + ContData - 1) \div ContData = r
  OBVIOUS
<1> QED
  BY <1>1 DEF Transport!FramesFor

LEMMA FramesForFits ==
  ASSUME NEW n \in Nat
  PROVE  Transport!FramesFor(n) \in Nat \ {0}
<1> USE TransportConstants
<1>1. CASE n <= InitData
  BY <1>1 DEF Transport!FramesFor
<1>2. CASE ~(n <= InitData)
  <2>1. n - InitData + ContData - 1 \in Nat
    BY <1>2
  <2>2. (n - InitData + ContData - 1) \div ContData \in Nat
    BY <2>1
  <2> QED
    BY <1>2, <2>2 DEF Transport!FramesFor
<1> QED
  BY <1>1, <1>2

(* The functions of the program.                                           *)
LEMMA Updated ==
  ASSUME NEW f, OfProgram(f), NEW v, NEW g, g = [f EXCEPT !["p"] = v]
  PROVE  g["p"] = v /\ OfProgram(g)
<1>1. DOMAIN f = {"p"}
  BY DEF OfProgram
<1> QED
  BY <1>1 DEF OfProgram

LEMMA ProgramsOwn ==
  ASSUME NEW f, NEW v, f = [x \in {"p"} |-> v]
  PROVE  f["p"] = v /\ OfProgram(f)
BY DEF OfProgram

(* What is in a sequence, and in order, when one is taken or one comes.    *)
LEMMA ElementsOf ==
  ASSUME NEW S, NEW s \in Seq(S)
  PROVE  Elements(s) \subseteq S /\ Len(s) \in Nat /\ (s = <<>> => Elements(s) = {})
<1>1. Len(s) \in Nat /\ \A k \in 1 .. Len(s) : s[k] \in S
  BY LenProperties, ElementOfSeq
<1>2. s = <<>> => Len(s) = 0
  BY EmptySeq
<1> QED
  BY <1>1, <1>2 DEF Elements

LEMMA ElementsTail ==
  ASSUME NEW S, NEW s \in Seq(S), s # <<>>
  PROVE  /\ Head(s) \in S /\ Head(s) \in Elements(s) /\ Tail(s) \in Seq(S)
         /\ Elements(Tail(s)) \subseteq Elements(s)
         /\ Len(Tail(s)) = Len(s) - 1
<1>1. /\ Head(s) = s[1] /\ Tail(s) \in Seq(S) /\ Len(Tail(s)) = Len(s) - 1
      /\ \A k \in 1 .. Len(s) - 1 : Tail(s)[k] = s[k + 1]
      /\ Len(s) \in Nat /\ Len(s) # 0
  BY HeadTailProperties, LenProperties, EmptySeq
<1>2. s[1] \in S
  BY <1>1, ElementOfSeq
<1> QED
  BY <1>1, <1>2 DEF Elements

LEMMA IncreasingTail ==
  ASSUME NEW S, NEW s \in Seq(S), s # <<>>, Increasing(s)
  PROVE  Increasing(Tail(s)) /\ \A g \in Elements(Tail(s)) : Earlier(Head(s), g)
<1>1. /\ Head(s) = s[1] /\ Len(Tail(s)) = Len(s) - 1
      /\ \A k \in 1 .. Len(s) - 1 : Tail(s)[k] = s[k + 1]
      /\ Len(s) \in Nat /\ Len(s) # 0
  BY HeadTailProperties, LenProperties, EmptySeq
<1> QED
  BY <1>1 DEF Increasing, Elements

LEMMA RisingTail ==
  ASSUME NEW S, NEW s \in Seq(S), s # <<>>, Rising(s)
  PROVE  Rising(Tail(s)) /\ \A j \in Elements(Tail(s)) : Head(s).of.no < j.of.no
<1>1. /\ Head(s) = s[1] /\ Len(Tail(s)) = Len(s) - 1
      /\ \A k \in 1 .. Len(s) - 1 : Tail(s)[k] = s[k + 1]
      /\ Len(s) \in Nat /\ Len(s) # 0
  BY HeadTailProperties, LenProperties, EmptySeq
<1> QED
  BY <1>1 DEF Rising, Elements

LEMMA ElementsAppend ==
  ASSUME NEW S, NEW s \in Seq(S), NEW e \in S
  PROVE  /\ Append(s, e) \in Seq(S) /\ Elements(Append(s, e)) = Elements(s) \cup {e}
         /\ Len(Append(s, e)) = Len(s) + 1
<1>1. /\ Append(s, e) \in Seq(S) /\ Len(Append(s, e)) = Len(s) + 1 /\ Len(s) \in Nat
      /\ \A k \in 1 .. Len(s) : Append(s, e)[k] = s[k]
      /\ Append(s, e)[Len(s) + 1] = e
  BY AppendProperties, LenProperties
<1> HIDE DEF Elements
<1>2. \A x \in Elements(Append(s, e)) : x \in Elements(s) \cup {e}
  BY <1>1 DEF Elements
<1>3. \A x \in Elements(s) : x \in Elements(Append(s, e))
  BY <1>1 DEF Elements
<1>4. e \in Elements(Append(s, e))
  <2>1. Len(s) + 1 \in 1 .. Len(Append(s, e))
    BY <1>1
  <2> QED
    BY <1>1, <2>1 DEF Elements
<1> QED
  BY <1>1, <1>2, <1>3, <1>4

LEMMA IncreasingAppend ==
  ASSUME NEW S, NEW s \in Seq(S), NEW e \in S, Increasing(s),
         \A g \in Elements(s) : Earlier(g, e)
  PROVE  Increasing(Append(s, e))
<1>1. /\ Len(Append(s, e)) = Len(s) + 1 /\ Len(s) \in Nat
      /\ \A k \in 1 .. Len(s) : Append(s, e)[k] = s[k]
      /\ Append(s, e)[Len(s) + 1] = e
  BY AppendProperties, LenProperties
<1> SUFFICES ASSUME NEW k \in 1 .. Len(Append(s, e)), NEW l \in 1 .. Len(Append(s, e)), k < l
             PROVE  Earlier(Append(s, e)[k], Append(s, e)[l])
  BY DEF Increasing
<1>2. k \in 1 .. Len(s) /\ Append(s, e)[k] = s[k] /\ s[k] \in Elements(s)
  BY <1>1 DEF Elements
<1>3. CASE l = Len(s) + 1
  BY <1>1, <1>2, <1>3
<1>4. CASE l \in 1 .. Len(s)
  BY <1>1, <1>2, <1>4 DEF Increasing
<1> QED
  BY <1>1, <1>3, <1>4

LEMMA RisingAppend ==
  ASSUME NEW S, NEW s \in Seq(S), NEW e \in S, Rising(s),
         \A j \in Elements(s) : j.of.no < e.of.no
  PROVE  Rising(Append(s, e))
<1>1. /\ Len(Append(s, e)) = Len(s) + 1 /\ Len(s) \in Nat
      /\ \A k \in 1 .. Len(s) : Append(s, e)[k] = s[k]
      /\ Append(s, e)[Len(s) + 1] = e
  BY AppendProperties, LenProperties
<1> SUFFICES ASSUME NEW k \in 1 .. Len(Append(s, e)), NEW l \in 1 .. Len(Append(s, e)), k < l
             PROVE  Append(s, e)[k].of.no < Append(s, e)[l].of.no
  BY DEF Rising
<1>2. k \in 1 .. Len(s) /\ Append(s, e)[k] = s[k] /\ s[k] \in Elements(s)
  BY <1>1 DEF Elements
<1>3. CASE l = Len(s) + 1
  BY <1>1, <1>2, <1>3
<1>4. CASE l \in 1 .. Len(s)
  BY <1>1, <1>2, <1>4 DEF Rising
<1> QED
  BY <1>1, <1>3, <1>4

LEMMA FlowsHold ==
  ASSUME Flows
  PROVE  /\ Queued \subseteq Frames /\ Emitted \subseteq Frames /\ Pending \subseteq Frames
         /\ Owed \subseteq Messages /\ Len(jobs) \in Nat
         /\ \A f \in Pending : f.cid \in Nat /\ Of(f) \in Nat /\ Nth(f) \in Nat \ {0}
         /\ \A j \in Owed \cup inbox : j.cid \in Nat /\ j.of.no \in Nat
<1>1. /\ Queued \subseteq Frames /\ Emitted \subseteq Frames /\ Owed \subseteq Messages
      /\ Len(jobs) \in Nat
  BY ElementsOf DEF Flows, Queued, Emitted, Owed
<1>2. \A f \in Frames : f.cid \in Nat /\ Of(f) \in Nat /\ Nth(f) \in Nat \ {0}
  BY DEF Frames, Ids, Of, Nth
<1>3. \A j \in Messages : j.cid \in Nat /\ j.of.no \in Nat
  BY DEF Messages
<1> QED
  BY <1>1, <1>2, <1>3 DEF Pending, Flows

LEMMA TransportInitially == Init => TransportInv
<1> SUFFICES ASSUME TransportInit PROVE TransportInv
  BY DEF Init, OperationsInit, BuildInit, WireInit, LibusbInit, MacInit, WinInit, TransportInv
<1> USE TransportConstants
<1>1. Transport!Init
  BY DEF TransportInit
<1>2. /\ state["p"] = "closed" /\ pc["p"] = "idle" /\ cid["p"] = 0
      /\ call["p"] = [cmd |-> "INIT", len |-> 0, no |-> 0]
      /\ datasent["p"] = 0 /\ sequence["p"] = 0 /\ timeout["p"] = HidTimeout
      /\ got["p"] = [len |-> 0, recvd |-> 0, of |-> <<>>] /\ result["p"].rc = "none"
      /\ queue["p"] = <<>> /\ inbox = {} /\ jobs = <<>> /\ emitting = <<>> /\ channels = 0
  BY <1>1 DEF Transport!Init, Transport!Broadcast, Transport!NoAnswer, Transport!NoResult
<1>3. Shaped
  BY <1>1, ProgramsOwn DEF Transport!Init, Shaped
<1>4. Flows
  <2>1. <<>> \in Seq(Frames) /\ <<>> \in Seq(Messages) /\ <<>> \in Seq(Ids)
    BY EmptySeq
  <2> QED
    BY <1>2, <2>1 DEF Flows
<1>5. Pending = {} /\ Owed = {} /\ Queued = {} /\ Emitted = {} /\ Len(jobs) = 0
  <2>1. Len(<<>>) = 0
    BY EmptySeq
  <2> QED
    BY <1>2, <2>1 DEF Pending, Owed, Queued, Emitted, Elements
<1>6. TransportTyped
  BY <1>2 DEF TransportTyped, Number
<1>7. Ordered
  BY <1>2, <1>5 DEF Ordered, Increasing, Rising
<1>8. Counted
  BY <1>2, <1>5 DEF Counted, Number
<1>9. Given /\ Sends /\ Alone /\ NextIsPing /\ Longer /\ Collected /\ Whole
  BY <1>2, <1>5 DEF Given, Sends, Alone, NextIsPing, Longer, Collected, Whole
<1> QED
  BY <1>3, <1>4, <1>6, <1>7, <1>8, <1>9 DEF TransportInv, TransportState

LEMMA TransportStutter ==
  ASSUME TransportInv, UNCHANGED <<part, Transport!vars>>
  PROVE  TransportInv'
<1> SUFFICES ASSUME TransportState PROVE TransportState'
  BY DEF TransportInv
<1>1. /\ UNCHANGED <<state, pc, cid, call, datasent, sequence, timeout, got, result, queue>>
      /\ UNCHANGED <<inbox, jobs, emitting, channels>>
  BY DEF Transport!vars, Transport!progVars, Transport!locals, Transport!devVars
<1>2. Shaped' /\ Flows' /\ TransportTyped'
  BY <1>1 DEF TransportState, Shaped, Flows, TransportTyped, Number, Transport!Lens
<1>3. UNCHANGED <<Pending, Queued, Emitted, Owed, Number>>
  BY <1>1 DEF Pending, Queued, Emitted, Owed, Number
<1>4. Ordered' /\ Counted' /\ Given'
  BY <1>1, <1>3 DEF TransportState, Ordered, Counted, Given, Unused
<1>5. Sends' /\ Alone' /\ NextIsPing' /\ Longer'
  BY <1>1, <1>3 DEF TransportState, Sends, Alone, NextIsPing, Longer
<1>6. Collected' /\ Whole'
  BY <1>1, <1>3 DEF TransportState, Collected, Whole, Transport!FramesFor
<1> QED
  BY <1>2, <1>4, <1>5, <1>6 DEF TransportState

(* What u2fh_sendrecv leaves when it returns.                              *)
LEMMA ReturnLeaves ==
  ASSUME Shaped, NEW r, NEW a, Transport!Return("p", r, a)
  PROVE  /\ pc'["p"] = "idle" /\ datasent'["p"] = 0 /\ sequence'["p"] = 0
         /\ timeout'["p"] = HidTimeout
         /\ got'["p"] = [len |-> 0, recvd |-> 0, of |-> <<>>]
         /\ result'["p"] = [rc |-> r, cmd |-> call["p"].cmd, len |-> a.len, of |-> a.of]
         /\ state'["p"] = IF r = "OK" THEN "ready"
                          ELSE IF call["p"].cmd = "MSG" THEN "suspect" ELSE "closed"
         /\ OfProgram(pc') /\ OfProgram(datasent') /\ OfProgram(sequence')
         /\ OfProgram(timeout') /\ OfProgram(got') /\ OfProgram(result') /\ OfProgram(state')
<1>1. pc'["p"] = "idle" /\ OfProgram(pc')
  BY Updated DEF Transport!Return, Shaped
<1>2. datasent'["p"] = 0 /\ OfProgram(datasent')
  BY Updated DEF Transport!Return, Shaped
<1>3. sequence'["p"] = 0 /\ OfProgram(sequence')
  BY Updated DEF Transport!Return, Shaped
<1>4. timeout'["p"] = HidTimeout /\ OfProgram(timeout')
  BY Updated DEF Transport!Return, Shaped
<1>5. got'["p"] = [len |-> 0, recvd |-> 0, of |-> <<>>] /\ OfProgram(got')
  <2>1. PICK v : v = [len |-> 0, recvd |-> 0, of |-> <<>>]
    OBVIOUS
  <2>2. got' = [got EXCEPT !["p"] = v]
    BY <2>1 DEF Transport!Return, Transport!NoAnswer
  <2>3. OfProgram(got)
    BY DEF Shaped
  <2>4. got'["p"] = v /\ OfProgram(got')
    BY <2>2, <2>3, Updated
  <2> QED
    BY <2>1, <2>4
<1>6. /\ result'["p"] = [rc |-> r, cmd |-> call["p"].cmd, len |-> a.len, of |-> a.of]
      /\ OfProgram(result')
  <2>1. PICK v : v = [rc |-> r, cmd |-> call["p"].cmd, len |-> a.len, of |-> a.of]
    OBVIOUS
  <2>2. result' = [result EXCEPT !["p"] = v] /\ OfProgram(result)
    BY <2>1 DEF Transport!Return, Shaped
  <2>3. result'["p"] = v /\ OfProgram(result')
    BY <2>2, Updated
  <2> QED
    BY <2>1, <2>3
<1>7. /\ state'["p"] = IF r = "OK" THEN "ready"
                       ELSE IF call["p"].cmd = "MSG" THEN "suspect" ELSE "closed"
      /\ OfProgram(state')
  <2>1. state' = [state EXCEPT !["p"] = Transport!StateAfter(call["p"].cmd, r)]
    BY DEF Transport!Return
  <2>2. state'["p"] = Transport!StateAfter(call["p"].cmd, r) /\ OfProgram(state')
    BY <2>1, Updated DEF Shaped
  <2> QED
    BY <2>2 DEF Transport!StateAfter
<1> QED
  BY <1>1, <1>2, <1>3, <1>4, <1>5, <1>6, <1>7

(* When it fails, no more is under way than before.                        *)
LEMMA FailKeeps ==
  ASSUME TransportState, pc["p"] # "idle", Transport!Fail("p"),
         UNCHANGED <<cid, call, emitting, jobs, inbox, channels>>,
         OfProgram(queue'), queue'["p"] \in Seq(Frames), Increasing(queue'["p"]),
         Elements(queue'["p"]) \subseteq Queued
  PROVE  TransportState'
<1>1. /\ pc'["p"] = "idle" /\ datasent'["p"] = 0 /\ sequence'["p"] = 0
      /\ timeout'["p"] = HidTimeout
      /\ got'["p"] = [len |-> 0, recvd |-> 0, of |-> <<>>]
      /\ result'["p"].rc = "TRANSPORT_ERROR"
      /\ state'["p"] = IF call["p"].cmd = "MSG" THEN "suspect" ELSE "closed"
      /\ OfProgram(pc') /\ OfProgram(datasent') /\ OfProgram(sequence')
      /\ OfProgram(timeout') /\ OfProgram(got') /\ OfProgram(result') /\ OfProgram(state')
  <2>1. PICK r, a : r = "TRANSPORT_ERROR" /\ a = Transport!NoAnswer
    OBVIOUS
  <2>2. Transport!Return("p", r, a) /\ Shaped
    BY <2>1 DEF Transport!Fail, TransportState
  <2>3. /\ pc'["p"] = "idle" /\ datasent'["p"] = 0 /\ sequence'["p"] = 0
        /\ timeout'["p"] = HidTimeout
        /\ got'["p"] = [len |-> 0, recvd |-> 0, of |-> <<>>]
        /\ OfProgram(pc') /\ OfProgram(datasent') /\ OfProgram(sequence')
        /\ OfProgram(timeout') /\ OfProgram(got')
    BY <2>2, ReturnLeaves
  <2>4. /\ result'["p"] = [rc |-> r, cmd |-> call["p"].cmd, len |-> a.len, of |-> a.of]
        /\ OfProgram(result')
    BY <2>2, ReturnLeaves
  <2>5. /\ state'["p"] = IF r = "OK" THEN "ready"
                         ELSE IF call["p"].cmd = "MSG" THEN "suspect" ELSE "closed"
        /\ OfProgram(state')
    BY <2>2, ReturnLeaves
  <2> QED
    BY <2>1, <2>3, <2>4, <2>5
<1>2. Shaped' /\ Flows'
  <2>1. <<>> \in Seq(Ids)
    BY EmptySeq
  <2> QED
    BY <1>1, <2>1 DEF TransportState, Shaped, Flows
<1>3. TransportTyped'
  BY <1>1, TransportConstants DEF TransportState, TransportTyped, Number, Transport!Lens
<1>4. /\ UNCHANGED <<Emitted, Owed, Number>>
      /\ Queued' \subseteq Queued /\ Pending' \subseteq Pending
  BY DEF Pending, Queued, Emitted, Owed, Number
<1>5. Ordered'
  BY <1>4 DEF TransportState, Ordered
<1>6. Counted'
  <2>1. Counted /\ channels \in Nat /\ Len(jobs) \in Nat /\ Number \in Nat
    BY TransportConstants, LenProperties
       DEF TransportState, Flows, TransportTyped, Number
  <2>2. /\ pc["p"] # "idle" /\ pc'["p"] = "idle"
        /\ cid' = cid /\ channels' = channels /\ jobs' = jobs /\ inbox' = inbox
    BY <1>1
  <2> QED
    BY <1>4, <2>1, <2>2 DEF Counted
<1>7. Given'
  BY <1>4 DEF TransportState, Given, Unused
<1>8. state'["p"] = "suspect" => state["p"] = "ready" /\ call["p"].cmd = "MSG"
  BY <1>1 DEF TransportState, Sends, TransportTyped
<1>9. Sends'
  BY <1>1, <1>8 DEF TransportState, Sends
<1>10. Alone' /\ NextIsPing'
  BY <1>1, <1>4, <1>8 DEF TransportState, Alone, NextIsPing
<1>11. Longer' /\ Collected' /\ Whole'
  BY <1>1 DEF TransportState, Longer, Collected, Whole
<1> QED
  BY <1>2, <1>3, <1>5, <1>6, <1>7, <1>9, <1>10, <1>11 DEF TransportState

LEMMA OpenKeeps ==
  ASSUME TransportState, Transport!Open("p")
  PROVE  TransportState'
<1>1. /\ UNCHANGED <<pc, call, datasent, sequence, timeout, got, result>>
      /\ UNCHANGED <<inbox, jobs, emitting, channels>>
      /\ state["p"] = "closed"
  BY DEF Transport!Open, Transport!locals, Transport!devVars
<1>2. state'["p"] = "new" /\ OfProgram(state')
  BY Updated DEF Transport!Open, TransportState, Shaped
<1>3. cid'["p"] = 0 /\ OfProgram(cid')
  BY Updated DEF Transport!Open, Transport!Broadcast, TransportState, Shaped
<1>4. queue'["p"] = <<>> /\ OfProgram(queue')
  BY Updated DEF Transport!Open, Transport!FirstQueue, TransportState, Shaped
<1>5. Queued' = {} /\ UNCHANGED <<Emitted, Owed, Number>> /\ Pending' \subseteq Pending
  <2>1. Queued' = {}
    BY <1>4, EmptySeq DEF Queued, Elements
  <2> QED
    BY <1>1, <2>1 DEF Pending, Emitted, Owed, Number
<1>6. Shaped' /\ Flows' /\ TransportTyped'
  BY <1>1, <1>2, <1>3, <1>4, EmptySeq
  DEF TransportState, Shaped, Flows, TransportTyped, Number, Transport!Lens
<1>7. Ordered'
  BY <1>1, <1>4, <1>5, EmptySeq DEF TransportState, Ordered, Increasing
<1>8. pc["p"] = "idle"
  BY <1>1 DEF TransportState, Sends
<1>9. Counted'
  BY <1>1, <1>3, <1>5, <1>8 DEF TransportState, Counted, TransportTyped
<1>10. Given'
  BY <1>1, <1>3, <1>5 DEF TransportState, Given, Unused
<1>11. Sends' /\ Alone' /\ NextIsPing'
  BY <1>1, <1>2, <1>3, <1>8 DEF TransportState, Sends, Alone, NextIsPing
<1>12. Longer' /\ Collected' /\ Whole'
  BY <1>1, <1>5, <1>8
  DEF TransportState, Longer, Collected, Whole, Transport!FramesFor
<1> QED
  BY <1>6, <1>7, <1>9, <1>10, <1>11, <1>12 DEF TransportState

(* A program that may call has made fewer calls than are modelled.         *)
LEMMA FewCalls ==
  ASSUME TransportTyped, Transport!CanCall
  PROVE  Number < MaxCalls
<1> USE TransportConstants
<1> SUFFICES ASSUME Number = MaxCalls PROVE FALSE
  BY DEF TransportTyped
<1> DEFINE counted == {c \in Transport!Calls : c.no <= call[c.by].no}
           at == [k \in 1 .. MaxCalls |-> [by |-> "p", no |-> k]]
<1>1. counted = Transport!Calls
  <2>1. \A c \in Transport!Calls : c.by = "p" /\ c.no \in 1 .. MaxCalls
    BY DEF Transport!Calls
  <2>2. \A c \in Transport!Calls : c.no <= call[c.by].no
    BY <2>1 DEF Number
  <2> QED
    BY <2>2
<1>2. at \in Surjection(1 .. MaxCalls, Transport!Calls)
  BY DEF Surjection, Transport!Calls
<1>3. IsFiniteSet(Transport!Calls)
  BY <1>2, FS_Interval, FS_Surjection
<1>4. Cardinality(Transport!Calls) = MaxCalls
  <2>1. at \in Injection(1 .. MaxCalls, Transport!Calls)
    <3>1. at \in [1 .. MaxCalls -> Transport!Calls]
      BY DEF Transport!Calls
    <3>2. \A k \in 1 .. MaxCalls : at[k].no = k
      OBVIOUS
    <3>3. \A k \in 1 .. MaxCalls : \A l \in 1 .. MaxCalls : at[k] = at[l] => k = l
      <4> HIDE DEF at
      <4> QED
        BY <3>2
    <3> QED
      BY <3>1, <3>3 DEF Injection, IsInjective
  <2>2. at \in Bijection(1 .. MaxCalls, Transport!Calls)
    BY <1>2, <2>1 DEF Bijection
  <2>3. ExistsBijection(1 .. MaxCalls, Transport!Calls)
    BY <2>2 DEF ExistsBijection
  <2> QED
    BY <2>3, FS_CountingElements
<1>5. Transport!Cardinality(counted) = Cardinality(counted)
  BY DEF Transport!Cardinality, Transport!IsFiniteSet, Cardinality, IsFiniteSet
<1> QED
  BY <1>1, <1>4, <1>5 DEF Transport!CanCall

LEMMA CallKeeps ==
  ASSUME TransportState, Transport!Call("p")
  PROVE  TransportState'
<1> USE TransportConstants
<1>1. /\ UNCHANGED <<state, cid, datasent, sequence, timeout, got, queue>>
      /\ UNCHANGED <<inbox, jobs, emitting, channels>>
      /\ pc["p"] = "idle"
  BY DEF Transport!Call, Transport!locals, Transport!devVars
<1>2. PICK c \in Transport!Allowed(state["p"]) : \E n \in Transport!CommandLens(c) :
         call' = [call EXCEPT !["p"] = [cmd |-> c, len |-> n, no |-> call["p"].no + 1]]
  BY DEF Transport!Call
<1>2a. PICK n \in Transport!CommandLens(c) :
         call' = [call EXCEPT !["p"] = [cmd |-> c, len |-> n, no |-> call["p"].no + 1]]
  BY <1>2
<1>3. call'["p"] = [cmd |-> c, len |-> n, no |-> Number + 1] /\ OfProgram(call')
  <2>1. PICK v : v = [cmd |-> c, len |-> n, no |-> call["p"].no + 1]
    OBVIOUS
  <2>2. call' = [call EXCEPT !["p"] = v] /\ OfProgram(call)
    BY <1>2a, <2>1 DEF TransportState, Shaped
  <2>3. call'["p"] = v /\ OfProgram(call')
    BY <2>2, Updated
  <2> QED
    BY <2>1, <2>3 DEF Number
<1>4. pc'["p"] = (IF n > 0 THEN "send" ELSE "read") /\ OfProgram(pc')
  <2>1. PICK v : v = IF n > 0 THEN "send" ELSE "read"
    OBVIOUS
  <2>2. pc' = [pc EXCEPT !["p"] = v] /\ OfProgram(pc)
    <3>1. pc' = [pc EXCEPT !["p"] = IF call'["p"].len > 0 THEN "send" ELSE "read"]
      BY DEF Transport!Call
    <3>2. call'["p"].len = n
      BY <1>3
    <3> QED
      BY <2>1, <3>1, <3>2 DEF TransportState, Shaped
  <2>3. pc'["p"] = v /\ OfProgram(pc')
    BY <2>2, Updated
  <2> QED
    BY <2>1, <2>3
<1>5. result'["p"].rc = "none" /\ OfProgram(result')
  <2>1. result' = [result EXCEPT !["p"] = Transport!NoResult] /\ OfProgram(result)
    BY DEF Transport!Call, TransportState, Shaped
  <2>2. result'["p"] = Transport!NoResult /\ OfProgram(result')
    BY <2>1, Updated
  <2> QED
    BY <2>2 DEF Transport!NoResult
<1>6. /\ c \in {"INIT", "PING", "MSG"} /\ n \in Nat /\ n \in Transport!Lens
      /\ state["p"] # "closed"
      /\ state["p"] = "new" => c = "INIT"
      /\ state["p"] = "ready" => c \in {"PING", "MSG"}
      /\ state["p"] = "suspect" => c = "PING"
      /\ c = "INIT" => n = 8
      /\ c = "PING" => n = 1
  BY DEF Transport!Allowed, Transport!CommandLens, Transport!Lens
<1>7. UNCHANGED <<Queued, Emitted, Pending, Owed>> /\ Number' = Number + 1 /\ Number \in Nat
  BY <1>1, <1>3 DEF Pending, Queued, Emitted, Owed, Number, TransportState, TransportTyped
<1>8. Shaped' /\ Flows'
  BY <1>1, <1>3, <1>4, <1>5 DEF TransportState, Shaped, Flows
<1>9. Number' <= MaxCalls
  BY <1>7, FewCalls DEF Transport!Call, TransportState, TransportTyped
<1>10. TransportTyped'
  <2>1. datasent["p"] = 0
    BY <1>1 DEF TransportState, Sends
  <2> QED
    BY <1>1, <1>3, <1>4, <1>5, <1>6, <1>7, <1>9, <2>1
    DEF TransportState, TransportTyped, Transport!Lens
<1>11. Ordered'
  BY <1>1, <1>7 DEF TransportState, Ordered
<1>12. Counted'
  <2>1. /\ \A f \in Pending : Of(f) < Number' /\ Of(f) <= Number'
        /\ \A j \in Owed : j.of.no < Number' /\ j.of.no <= Number'
    BY <1>7, FlowsHold DEF TransportState, Counted, Of
  <2>2. channels' + Len(jobs') + (IF pc'["p"] = "send" THEN 1 ELSE 0) <= Number'
    BY <1>1, <1>4, <1>7 DEF TransportState, Counted, Flows, TransportTyped
  <2> QED
    BY <1>1, <1>7, <2>1, <2>2 DEF TransportState, Counted
<1>13. Given' /\ Longer'
  BY <1>1, <1>7 DEF TransportState, Given, Unused, Longer
<1>14. Sends'
  BY <1>1, <1>3, <1>4, <1>6 DEF TransportState, Sends
<1>15. Alone' /\ NextIsPing'
  BY <1>1, <1>3, <1>4, <1>6, <1>7 DEF TransportState, Alone, NextIsPing
<1>16. Collected' /\ Whole'
  BY <1>1, <1>4, <1>5 DEF TransportState, Collected, Whole
<1> QED
  BY <1>8, <1>10, <1>11, <1>12, <1>13, <1>14, <1>15, <1>16 DEF TransportState

(* A window passes, and it is not the last.                                *)
LEMMA TimeoutKeeps ==
  ASSUME TransportState, Transport!ReadTimeout("p")
  PROVE  TransportState'
<1>1. /\ UNCHANGED <<cid, call, queue, inbox, jobs, emitting, channels>>
      /\ pc["p"] = "read"
  BY DEF Transport!ReadTimeout, Transport!devVars
<1>2. CASE Transport!Fail("p")
  <2>1. /\ OfProgram(queue') /\ queue'["p"] \in Seq(Frames) /\ Increasing(queue'["p"])
        /\ Elements(queue'["p"]) \subseteq Queued
    BY <1>1 DEF TransportState, Shaped, Flows, Ordered, Queued
  <2> QED
    BY <1>1, <1>2, <2>1, FailKeeps
<1>3. CASE ~Transport!Fail("p")
  <2> USE TransportConstants
  <2>1. /\ ~Transport!LastWindow("p")
        /\ timeout' = [timeout EXCEPT !["p"] = Transport!Doubled(@)]
        /\ UNCHANGED <<pc, state, datasent, sequence, got, result>>
    BY <1>3 DEF Transport!ReadTimeout
  <2>2. timeout'["p"] = 2 * timeout["p"] /\ OfProgram(timeout')
    BY <2>1, Updated DEF TransportState, Shaped, Transport!Doubled
  <2>3. timeout'["p"] \in Nat /\ timeout'["p"] <= 2 * MaxTimeout
    BY <2>1, <2>2 DEF TransportState, TransportTyped, Transport!LastWindow, Transport!Doubled
  <2>4. Shaped' /\ Flows' /\ TransportTyped'
    BY <1>1, <2>1, <2>2, <2>3
    DEF TransportState, Shaped, Flows, TransportTyped, Number, Transport!Lens
  <2>5. UNCHANGED <<Pending, Queued, Emitted, Owed, Number>>
    BY <1>1 DEF Pending, Queued, Emitted, Owed, Number
  <2>6. Ordered' /\ Counted' /\ Given'
    BY <1>1, <2>1, <2>5 DEF TransportState, Ordered, Counted, Given, Unused
  <2>7. Sends' /\ Alone' /\ NextIsPing' /\ Longer'
    BY <1>1, <2>1, <2>5 DEF TransportState, Sends, Alone, NextIsPing, Longer
  <2>8. Collected' /\ Whole'
    BY <1>1, <2>1, <2>5 DEF TransportState, Collected, Whole, Transport!FramesFor
  <2> QED
    BY <2>4, <2>6, <2>7, <2>8 DEF TransportState
<1> QED
  BY <1>2, <1>3

LEMMA ReadFailsKeeps ==
  ASSUME TransportState, Transport!ReadFails("p")
  PROVE  TransportState'
<1>1. /\ UNCHANGED <<cid, call, queue, inbox, jobs, emitting, channels>>
      /\ pc["p"] = "read" /\ Transport!Fail("p")
  BY DEF Transport!ReadFails, Transport!devVars
<1>2. /\ OfProgram(queue') /\ queue'["p"] \in Seq(Frames) /\ Increasing(queue'["p"])
      /\ Elements(queue'["p"]) \subseteq Queued
  BY <1>1 DEF TransportState, Shaped, Flows, Ordered, Queued
<1> QED
  BY <1>1, <1>2, FailKeeps

(* What the device does with a frame: it begins a message, or goes on with *)
(* one, or drops what it has.                                              *)
Others(c) == {m \in inbox : m.cid # c}
Arrives(e) ==
    IF e.have = e.total
    THEN inbox' = Others(e.cid) /\ jobs' = Append(jobs, e)
    ELSE inbox' = Others(e.cid) \cup {e} /\ UNCHANGED jobs

LEMMA FirstArrives ==
  ASSUME NEW f, NEW who, f.cmd # "CONT", Transport!Received(f, who)
  PROVE  Arrives([cid |-> f.cid, cmd |-> f.cmd, total |-> f.total, have |-> f.size,
                  next |-> 0, of |-> who])
<1>1. inbox \ {m \in inbox : m.cid = f.cid} = Others(f.cid)
  BY DEF Others
<1>2. PICK e : e = [cid |-> f.cid, cmd |-> f.cmd, total |-> f.total, have |-> f.size,
                    next |-> 0, of |-> who]
  OBVIOUS
<1>3. IF e.have = e.total
      THEN inbox' = Others(f.cid) /\ jobs' = Append(jobs, e)
      ELSE inbox' = Others(f.cid) \cup {e} /\ UNCHANGED jobs
  BY <1>1, <1>2 DEF Transport!Received
<1>4. e.cid = f.cid
  BY <1>2
<1>5. Arrives(e)
  BY <1>3, <1>4 DEF Arrives
<1> QED
  BY <1>2, <1>5

LEMMA NextArrives ==
  ASSUME inbox \subseteq Messages, NEW f, NEW who, f.cmd = "CONT", Transport!Received(f, who)
  PROVE  \/ inbox' = Others(f.cid) /\ UNCHANGED jobs
         \/ \E m \in inbox : m.cid = f.cid /\ Arrives([m EXCEPT !.have = @ + f.size, !.next = @ + 1])
<1> DEFINE open == {m \in inbox : m.cid = f.cid}
           old == CHOOSE m \in open : TRUE
<1>1. inbox \ open = Others(f.cid)
  BY DEF Others
<1>2. CASE open = {} \/ old.next # f.seq
  BY <1>1, <1>2 DEF Transport!Received
<1>3. CASE ~(open = {} \/ old.next # f.seq)
  <2>1. old \in open
    BY <1>3
  <2>2. PICK m : m = old
    OBVIOUS
  <2>3. PICK e : e = [m EXCEPT !.have = @ + f.size, !.next = @ + 1]
    OBVIOUS
  <2>4. IF e.have = e.total
        THEN inbox' = Others(f.cid) /\ jobs' = Append(jobs, e)
        ELSE inbox' = Others(f.cid) \cup {e} /\ UNCHANGED jobs
    BY <1>1, <1>3, <2>2, <2>3 DEF Transport!Received
  <2>5. m \in inbox /\ m.cid = f.cid
    BY <2>1, <2>2
  <2>6. e.cid = m.cid
    BY <2>3, <2>5 DEF Messages
  <2>7. Arrives(e)
    BY <2>4, <2>5, <2>6 DEF Arrives
  <2> QED
    BY <2>3, <2>5, <2>7
<1> QED
  BY <1>2, <1>3

(* A frame was written: what the device has of the message, and how far    *)
(* the program is.                                                         *)
LEMMA SendLeaves ==
  ASSUME TransportState, Transport!Send("p"), ~(Transport!Fail("p") /\ UNCHANGED <<inbox, jobs>>)
  PROVE  /\ pc["p"] = "send"
         /\ UNCHANGED <<state, cid, call, timeout, got, result, queue, emitting, channels>>
         /\ OfProgram(pc') /\ OfProgram(datasent') /\ OfProgram(sequence')
         /\ sequence'["p"] \in Nat
         /\ datasent'["p"] \in Nat \ {0} /\ datasent'["p"] <= call["p"].len
         /\ pc'["p"] = IF call["p"].len > datasent'["p"] THEN "send" ELSE "read"
         /\ call["p"].cmd # "MSG" => datasent'["p"] = call["p"].len
         /\ \/ inbox' = Others(cid["p"]) /\ UNCHANGED jobs
            \/ \E e \in Messages :
                  /\ e.cid = cid["p"] /\ e.cmd = call["p"].cmd /\ e.total = call["p"].len
                  /\ e.have = datasent'["p"] /\ e.of.no = Number
                  /\ Arrives(e)
<1> USE TransportConstants
<1>1. PICK f : f = Transport!FrameTo("p")
  OBVIOUS
<1>2. /\ pc["p"] = "send"
      /\ UNCHANGED <<state, cid, call, timeout, got, result, queue, emitting, channels>>
      /\ Transport!Received(f, [by |-> "p", no |-> call["p"].no])
  BY <1>1 DEF Transport!Send
<1>3. PICK d : d = datasent["p"] + f.size
  OBVIOUS
<1>4. datasent'["p"] = d /\ OfProgram(datasent')
  <2>1. datasent' = [datasent EXCEPT !["p"] = d] /\ OfProgram(datasent)
    BY <1>1, <1>3 DEF Transport!Send, TransportState, Shaped
  <2> QED
    BY <2>1, Updated
<1>5. sequence'["p"] \in Nat /\ OfProgram(sequence')
  <2>1. PICK v : v = IF datasent["p"] = 0 THEN 0 ELSE sequence["p"] + 1
    OBVIOUS
  <2>2. sequence' = [sequence EXCEPT !["p"] = v] /\ OfProgram(sequence)
    BY <1>1, <2>1 DEF Transport!Send, TransportState, Shaped
  <2>3. sequence'["p"] = v /\ OfProgram(sequence')
    BY <2>2, Updated
  <2> QED
    BY <2>1, <2>3 DEF TransportState, TransportTyped
<1>6. pc'["p"] = (IF call["p"].len > d THEN "send" ELSE "read") /\ OfProgram(pc')
  <2>1. CASE call["p"].len > d
    <3>1. UNCHANGED pc
      BY <1>4, <2>1 DEF Transport!Send
    <3> QED
      BY <1>2, <2>1, <3>1 DEF TransportState, Shaped
  <2>2. CASE ~(call["p"].len > d)
    <3>1. pc' = [pc EXCEPT !["p"] = "read"] /\ OfProgram(pc)
      BY <1>4, <2>2 DEF Transport!Send, TransportState, Shaped
    <3>2. pc'["p"] = "read" /\ OfProgram(pc')
      BY <3>1, Updated
    <3> QED
      BY <2>2, <3>2
  <2> QED
    BY <2>1, <2>2
<1>7. /\ datasent["p"] \in Nat /\ datasent["p"] < call["p"].len
      /\ datasent["p"] # 0 => call["p"].cmd = "MSG"
      /\ call["p"].cmd \in {"INIT", "PING", "MSG"}
      /\ call["p"].cmd = "INIT" => call["p"].len = 8
      /\ call["p"].cmd = "PING" => call["p"].len = 1
      /\ cid["p"] = 0 <=> call["p"].cmd = "INIT"
      /\ cid["p"] \in Nat /\ call["p"].len \in Nat /\ Number \in Nat \ {0}
  <2>1. /\ datasent["p"] < call["p"].len
        /\ datasent["p"] # 0 => call["p"].cmd = "MSG"
        /\ call["p"].cmd = "INIT" => call["p"].len = 8
        /\ call["p"].cmd = "PING" => call["p"].len = 1
        /\ cid["p"] = 0 <=> call["p"].cmd = "INIT"
    BY <1>2 DEF TransportState, Sends, TransportTyped
  <2>2. Number # 0
    BY <1>2, FlowsHold DEF TransportState, Counted, TransportTyped
  <2> QED
    BY <2>1, <2>2 DEF TransportState, TransportTyped
<1>8. CASE datasent["p"] = 0
  <2>1. f = [cid |-> cid["p"], cmd |-> call["p"].cmd, seq |-> 0,
             total |-> call["p"].len, size |-> Transport!Smaller(call["p"].len, InitData)]
    BY <1>1, <1>8 DEF Transport!FrameTo
  <2>2. /\ f.size = d /\ d \in Nat \ {0} /\ d <= call["p"].len
        /\ call["p"].cmd # "MSG" => d = call["p"].len
    <3>1. f.size = IF call["p"].len < InitData THEN call["p"].len ELSE InitData
      BY <2>1 DEF Transport!Smaller
    <3> QED
      BY <1>3, <1>7, <1>8, <3>1
  <2>3. PICK e : e = [cid |-> cid["p"], cmd |-> call["p"].cmd, total |-> call["p"].len,
                      have |-> d, next |-> 0, of |-> [by |-> "p", no |-> Number]]
    OBVIOUS
  <2>4. Arrives(e)
    <3>1. f.cmd # "CONT" /\ f.cid = cid["p"] /\ f.cmd = call["p"].cmd /\ f.total = call["p"].len
      BY <1>7, <2>1
    <3> QED
      BY <1>2, <2>2, <2>3, <3>1, FirstArrives DEF Number
  <2>5. e \in Messages
    BY <1>7, <2>2, <2>3 DEF Messages
  <2>6. /\ e.cid = cid["p"] /\ e.cmd = call["p"].cmd /\ e.total = call["p"].len
        /\ e.have = d /\ e.of.no = Number
    BY <2>3
  <2> QED
    BY <1>2, <1>4, <1>5, <1>6, <2>2, <2>4, <2>5, <2>6
<1>9. CASE datasent["p"] # 0
  <2>1. f = [cid |-> cid["p"], cmd |-> "CONT", seq |-> sequence["p"], total |-> 0,
             size |-> Transport!Smaller(call["p"].len - datasent["p"], ContData)]
    BY <1>1, <1>9 DEF Transport!FrameTo
  <2>2. d \in Nat \ {0} /\ d <= call["p"].len /\ f.size \in Nat
    <3>1. f.size = IF call["p"].len - datasent["p"] < ContData
                   THEN call["p"].len - datasent["p"] ELSE ContData
      BY <2>1 DEF Transport!Smaller
    <3> QED
      BY <1>3, <1>7, <1>9, <3>1
  <2>3. call["p"].cmd = "MSG" /\ state["p"] = "ready"
    BY <1>2, <1>7, <1>9 DEF TransportState, Sends, TransportTyped
  <2>4. f.cmd = "CONT" /\ f.cid = cid["p"] /\ inbox \subseteq Messages
    BY <2>1 DEF TransportState, Flows
  <2>5. CASE inbox' = Others(f.cid) /\ UNCHANGED jobs
    BY <1>2, <1>4, <1>5, <1>6, <2>2, <2>3, <2>4, <2>5
  <2>6. ASSUME NEW m \in inbox, m.cid = f.cid,
               Arrives([m EXCEPT !.have = @ + f.size, !.next = @ + 1])
        PROVE  \E e \in Messages :
                  /\ e.cid = cid["p"] /\ e.cmd = call["p"].cmd /\ e.total = call["p"].len
                  /\ e.have = d /\ e.of.no = Number
                  /\ Arrives(e)
    <3>1. PICK e : e = [m EXCEPT !.have = @ + f.size, !.next = @ + 1]
      OBVIOUS
    <3>2. /\ m.of.no = Number /\ m.cmd = call["p"].cmd
          /\ m.have = datasent["p"] /\ m.total = call["p"].len
      BY <2>3, <2>4, <2>6 DEF TransportState, Alone
    <3>3. /\ e \in Messages /\ e.cid = m.cid /\ e.cmd = m.cmd /\ e.total = m.total
          /\ e.have = m.have + f.size /\ e.of = m.of
      <4>1. /\ m \in [cid: Nat, cmd: {"INIT", "PING", "MSG"}, total: Nat, have: Nat,
                       next: Nat, of: [by: {"p"}, no: Nat \ {0}]]
            /\ m.cid = 0 <=> m.cmd = "INIT"
            /\ m.cmd = "PING" => m.total = 1
        BY <2>4 DEF Messages
      <4>2. /\ e \in [cid: Nat, cmd: {"INIT", "PING", "MSG"}, total: Nat, have: Nat,
                       next: Nat, of: [by: {"p"}, no: Nat \ {0}]]
            /\ e.cid = m.cid /\ e.cmd = m.cmd /\ e.total = m.total
            /\ e.have = m.have + f.size /\ e.of = m.of
        <5>1. e = [cid |-> m.cid, cmd |-> m.cmd, total |-> m.total, have |-> m.have + f.size,
                   next |-> m.next + 1, of |-> m.of]
          BY <3>1, <4>1
        <5> QED
          BY <2>2, <4>1, <5>1
      <4> QED
        BY <4>1, <4>2 DEF Messages
    <3> QED
      BY <1>3, <2>4, <2>6, <3>1, <3>2, <3>3
  <2>7. \/ inbox' = Others(f.cid) /\ UNCHANGED jobs
        \/ \E m \in inbox : m.cid = f.cid /\ Arrives([m EXCEPT !.have = @ + f.size, !.next = @ + 1])
    BY <1>2, <2>4, NextArrives
  <2>8. CASE \E m \in inbox : m.cid = f.cid /\ Arrives([m EXCEPT !.have = @ + f.size, !.next = @ + 1])
    <3>1. \E e \in Messages :
             /\ e.cid = cid["p"] /\ e.cmd = call["p"].cmd /\ e.total = call["p"].len
             /\ e.have = d /\ e.of.no = Number
             /\ Arrives(e)
      BY <2>6, <2>8
    <3> QED
      BY <1>2, <1>4, <1>5, <1>6, <2>2, <2>3, <3>1
  <2> QED
    BY <2>5, <2>7, <2>8
<1> QED
  BY <1>8, <1>9

LEMMA SendKeeps ==
  ASSUME TransportState, Transport!Send("p")
  PROVE  TransportState'
<1>1. CASE Transport!Fail("p") /\ UNCHANGED <<inbox, jobs>>
  <2>1. UNCHANGED <<cid, call, emitting, channels, queue>> /\ pc["p"] # "idle"
    BY DEF Transport!Send
  <2>2. /\ OfProgram(queue') /\ queue'["p"] \in Seq(Frames) /\ Increasing(queue'["p"])
        /\ Elements(queue'["p"]) \subseteq Queued
    BY <2>1 DEF TransportState, Shaped, Flows, Ordered, Queued
  <2> QED
    BY <1>1, <2>1, <2>2, FailKeeps
<1>2. CASE ~(Transport!Fail("p") /\ UNCHANGED <<inbox, jobs>>)
  <2>1. /\ pc["p"] = "send"
        /\ UNCHANGED <<state, cid, call, timeout, got, result, queue, emitting, channels>>
        /\ OfProgram(pc') /\ OfProgram(datasent') /\ OfProgram(sequence')
        /\ sequence'["p"] \in Nat
        /\ datasent'["p"] \in Nat \ {0} /\ datasent'["p"] <= call["p"].len
        /\ pc'["p"] = IF call["p"].len > datasent'["p"] THEN "send" ELSE "read"
        /\ call["p"].cmd # "MSG" => datasent'["p"] = call["p"].len
    BY <1>2, SendLeaves
  <2>2. /\ inbox' \subseteq Messages
        /\ \A m \in inbox' : \/ m \in inbox /\ m.cid # cid["p"]
                             \/ /\ m.cid = cid["p"] /\ m.cmd = call["p"].cmd
                                /\ m.total = call["p"].len /\ m.have = datasent'["p"]
                                /\ m.of.no = Number /\ datasent'["p"] # call["p"].len
        /\ \/ UNCHANGED jobs
           \/ \E e \in Messages :
                 /\ e.cid = cid["p"] /\ e.cmd = call["p"].cmd /\ e.of.no = Number
                 /\ jobs' = Append(jobs, e) /\ datasent'["p"] = call["p"].len
    <3>1. inbox \subseteq Messages
      BY DEF TransportState, Flows
    <3>2. CASE inbox' = Others(cid["p"]) /\ UNCHANGED jobs
      BY <3>1, <3>2 DEF Others
    <3>3. CASE \E e \in Messages :
                  /\ e.cid = cid["p"] /\ e.cmd = call["p"].cmd /\ e.total = call["p"].len
                  /\ e.have = datasent'["p"] /\ e.of.no = Number
                  /\ Arrives(e)
      BY <3>1, <3>3 DEF Arrives, Others
    <3> QED
      BY <1>2, <3>2, <3>3, SendLeaves
  <2>3. UNCHANGED <<Queued, Emitted, Pending, Number>>
    BY <2>1 DEF Queued, Emitted, Pending, Number
  <2>4. /\ call["p"].len \in Nat /\ Number \in Nat /\ channels \in Nat
        /\ Pending \subseteq Frames /\ Owed \subseteq Messages /\ Len(jobs) \in Nat
        /\ \A f \in Pending : Of(f) \in Nat
        /\ \A j \in Owed : j.of.no \in Nat
        /\ \A f \in Pending : Of(f) < Number
        /\ \A j \in Owed : j.of.no < Number
        /\ channels + Len(jobs) + 1 <= Number
    BY <2>1, FlowsHold DEF TransportState, TransportTyped, Counted
  <2>5. /\ jobs' \in Seq(Messages) /\ Rising(jobs')
        /\ \A j \in Owed' : \/ j \in Owed
                            \/ /\ j.cid = cid["p"] /\ j.cmd = call["p"].cmd
                               /\ j.of.no = Number /\ pc'["p"] = "read"
        /\ Len(jobs') = Len(jobs) \/ (Len(jobs') = Len(jobs) + 1 /\ pc'["p"] = "read")
    <3>1. jobs \in Seq(Messages) /\ Rising(jobs)
      BY DEF TransportState, Flows, Ordered
    <3>2. CASE UNCHANGED jobs
      BY <3>1, <3>2 DEF Owed
    <3>3. ASSUME NEW e \in Messages, jobs' = Append(jobs, e), datasent'["p"] = call["p"].len,
                 e.cid = cid["p"], e.cmd = call["p"].cmd, e.of.no = Number
          PROVE  <2>5!1 /\ <2>5!2 /\ <2>5!3
      <4>1. /\ jobs' \in Seq(Messages) /\ Owed' = Owed \cup {e} /\ Len(jobs') = Len(jobs) + 1
        BY <3>1, <3>3, ElementsAppend DEF Owed
      <4>2. Rising(jobs')
        BY <2>4, <3>1, <3>3, RisingAppend DEF Owed
      <4>3. pc'["p"] = "read"
        BY <2>1, <2>4, <3>3
      <4> QED
        BY <3>3, <4>1, <4>2, <4>3
    <3> QED
      BY <2>2, <3>2, <3>3
  <2>6. Shaped' /\ Flows'
    BY <2>1, <2>2, <2>5 DEF TransportState, Shaped, Flows
  <2>7. TransportTyped'
    BY <2>1 DEF TransportState, TransportTyped, Number, Transport!Lens
  <2>8. Ordered'
    <3>1. \A f \in Pending : \A j \in Owed' : Of(f) < j.of.no
      BY <2>4, <2>5 DEF TransportState, Ordered
    <3> QED
      BY <2>1, <2>3, <2>5, <3>1 DEF TransportState, Ordered
  <2>9. Counted'
    <3>1. /\ \A f \in Pending : Of(f) <= Number
          /\ \A j \in Owed' : j.of.no <= Number /\ (pc'["p"] = "send" => j.of.no < Number)
      BY <2>4, <2>5
    <3>2. channels + Len(jobs') + (IF pc'["p"] = "send" THEN 1 ELSE 0) <= Number
      BY <2>4, <2>5
    <3>3. \A j \in Owed' \cup inbox' : j.cid <= channels
      BY <2>2, <2>5 DEF TransportState, Counted
    <3> QED
      BY <2>1, <2>3, <2>4, <3>1, <3>2, <3>3 DEF TransportState, Counted
  <2>10. Given'
    BY <2>1, <2>2, <2>3, <2>5 DEF TransportState, Given, Unused
  <2>11. Sends'
    BY <2>1, <2>4 DEF TransportState, Sends
  <2>12. Alone'
    <3>1. state["p"] = "ready" =>
            /\ \A f \in Pending : f.cid # cid["p"]
            /\ \A j \in Owed : j.cid # cid["p"]
      BY <2>1 DEF TransportState, Alone
    <3>2. \A m \in inbox' : m.cid = cid["p"] => pc'["p"] = "send"
      BY <2>1, <2>2, <2>4
    <3> QED
      BY <2>1, <2>2, <2>3, <2>5, <3>1, <3>2 DEF Alone
  <2>13. NextIsPing'
    <3>1. state["p"] = "suspect" =>
            /\ call["p"].cmd = "PING"
            /\ \A f \in Pending : ~(f.cid = cid["p"] /\ f.cmd = "PING")
            /\ \A j \in Owed : ~(j.cid = cid["p"] /\ j.cmd = "PING")
      BY <2>1 DEF TransportState, NextIsPing, Sends
    <3> QED
      BY <2>1, <2>2, <2>3, <2>5, <3>1 DEF NextIsPing
  <2>14. Longer'
    BY <2>1, <2>2 DEF TransportState, Longer, TransportTyped
  <2>15. Collected' /\ Whole'
    BY <2>1, <2>3 DEF TransportState, Collected, Whole, Transport!FramesFor
  <2> QED
    BY <2>6, <2>7, <2>8, <2>9, <2>10, <2>11, <2>12, <2>13, <2>14, <2>15 DEF TransportState
<1> QED
  BY <1>1, <1>2

(* What a read takes from the queue comes before all that is under way.    *)
LEMMA ReadTakes ==
  ASSUME TransportState, Transport!Read("p")
  PROVE  /\ pc["p"] = "read" /\ UNCHANGED <<call, inbox, jobs, emitting, channels>>
         /\ OfProgram(queue') /\ queue'["p"] \in Seq(Frames) /\ Increasing(queue'["p"])
         /\ Elements(queue'["p"]) \subseteq Queued
         /\ UNCHANGED <<Emitted, Owed, Number>>
         /\ Queued' \subseteq Queued /\ Pending' \subseteq Pending
         /\ Head(queue["p"]) \in Frames /\ Head(queue["p"]) \in Pending
         /\ \A g \in Pending' : Earlier(Head(queue["p"]), g)
         /\ \A j \in Owed : Of(Head(queue["p"])) < j.of.no
<1>1. /\ pc["p"] = "read" /\ queue["p"] # <<>> /\ queue["p"] \in Seq(Frames)
      /\ Increasing(queue["p"])
      /\ UNCHANGED <<call, inbox, jobs, emitting, channels>>
  BY DEF Transport!Read, Transport!devVars, TransportState, Flows, Ordered
<1>2. queue'["p"] = Tail(queue["p"]) /\ OfProgram(queue')
  BY Updated DEF Transport!Read, TransportState, Shaped
<1>3. PICK f : f = Head(queue["p"])
  OBVIOUS
<1>4. /\ f \in Frames /\ f \in Queued /\ queue'["p"] \in Seq(Frames)
      /\ Elements(queue'["p"]) \subseteq Queued
  BY <1>1, <1>2, <1>3, ElementsTail DEF Queued
<1>5. Increasing(queue'["p"]) /\ \A g \in Elements(queue'["p"]) : Earlier(f, g)
  BY <1>1, <1>2, <1>3, IncreasingTail
<1>6. /\ UNCHANGED <<Emitted, Owed, Number>> /\ f \in Pending
      /\ Queued' \subseteq Queued /\ Pending' \subseteq Pending
  BY <1>1, <1>4 DEF Queued, Emitted, Pending, Owed, Number
<1>7. \A g \in Pending' : Earlier(f, g)
  BY <1>4, <1>5, <1>6 DEF Pending, Queued, TransportState, Ordered
<1>8. \A j \in Owed : Of(f) < j.of.no
  BY <1>6 DEF TransportState, Ordered
<1> QED
  BY <1>1, <1>2, <1>3, <1>4, <1>5, <1>6, <1>7, <1>8

(* A frame that is taken: it is the next one of one answer, and if the     *)
(* program knows the device, of the answer to its call.                    *)
Good(f) == IF got["p"].of = <<>> THEN Transport!Fits("p", f) ELSE Transport!Continues("p", f)

LEMMA GoodFits ==
  ASSUME TransportState, pc["p"] = "read",
         NEW f \in Frames, f \in Pending, Good(f), NEW now, now = Transport!Taken("p", f)
  PROVE  /\ now.of \in Seq(Ids) /\ Len(now.of) = Nth(f) /\ now.of # <<>>
         /\ \A k \in 1 .. Len(now.of) : now.of[k] = <<[by |-> "p", no |-> Of(f)], k>>
         /\ now.len = f.total /\ now.recvd = InitData + (Nth(f) - 1) * ContData
         /\ got["p"].of = <<>> => /\ Nth(f) = 1 /\ f.cmd = call["p"].cmd
                                  /\ now.recvd = InitData
         /\ got["p"].of # <<>> => /\ state["p"] = "ready" /\ sequence["p"] + 1 = Nth(f) - 1
                                  /\ InitData + (Nth(f) - 2) * ContData < f.total
         /\ state["p"] = "ready" => Of(f) = Number
<1> USE TransportConstants
<1>1. /\ f.id \in Ids /\ f.id = <<[by |-> "p", no |-> Of(f)], Nth(f)>>
      /\ Nth(f) \in Nat \ {0} /\ Of(f) \in Nat /\ f.total \in Nat
      /\ f.cmd # "CONT" <=> Nth(f) = 1
      /\ f.seq = IF Nth(f) = 1 THEN 0 ELSE Nth(f) - 2
  <2>1. f.id \in Ids /\ f.total \in Nat
    BY DEF Frames
  <2>2. f.id[1] \in [by: {"p"}, no: Nat \ {0}] /\ f.id[2] \in Nat \ {0} /\ f.id = <<f.id[1], f.id[2]>>
    BY <2>1 DEF Ids
  <2>3. f.id[1] = [by |-> "p", no |-> f.id[1].no]
    BY <2>2
  <2>4. /\ f.cmd # "CONT" <=> Nth(f) = 1
        /\ f.seq = IF Nth(f) = 1 THEN 0 ELSE Nth(f) - 2
    BY DEF Frames
  <2> QED
    BY <2>1, <2>2, <2>3, <2>4 DEF Of, Nth
<1>2. f.cid = cid["p"] /\ (state["p"] = "ready" => Of(f) = Number)
  BY DEF Good, Transport!Fits, Transport!Continues, TransportState, Alone
<1>3. CASE got["p"].of = <<>>
  <2>1. f.cmd = call["p"].cmd /\ Nth(f) = 1
    BY <1>1, <1>3 DEF Good, Transport!Fits, TransportState, TransportTyped
  <2>2. now = [len |-> f.total, recvd |-> InitData, of |-> <<f.id>>]
    BY <1>3 DEF Transport!Taken
  <2>3. /\ <<f.id>> \in Seq(Ids) /\ Len(<<f.id>>) = 1 /\ <<f.id>>[1] = f.id /\ <<f.id>> # <<>>
    BY <1>1
  <2>4. now.of = <<f.id>> /\ now.len = f.total /\ now.recvd = InitData
    BY <2>2
  <2>5. \A k \in 1 .. 1 : now.of[k] = <<[by |-> "p", no |-> Of(f)], k>>
    BY <1>1, <2>1, <2>3, <2>4
  <2>6. InitData = InitData + (Nth(f) - 1) * ContData
    BY <2>1
  <2> QED
    BY <1>2, <1>3, <2>1, <2>3, <2>4, <2>5, <2>6
<1>4. CASE got["p"].of # <<>>
  <2>1. PICK s \in Seq(Ids) : s = got["p"].of
    BY DEF TransportState, Flows
  <2>2. /\ state["p"] = "ready" /\ Len(s) \in Nat \ {0}
        /\ \A k \in 1 .. Len(s) : s[k] = <<[by |-> "p", no |-> Number], k>>
        /\ sequence["p"] = Len(s) - 1
        /\ got["p"].recvd = InitData + (Len(s) - 1) * ContData
        /\ got["p"].recvd < got["p"].len
        /\ \A g \in Pending : Of(g) = Number => Nth(g) > Len(s) /\ g.total = got["p"].len
    BY <1>4, <2>1, LenProperties, EmptySeq DEF TransportState, Collected
  <2>3. f.cmd = "CONT" /\ f.seq = sequence["p"]
    BY <1>4 DEF Good, Transport!Continues
  <2>4. Nth(f) = Len(s) + 1 /\ Of(f) = Number /\ f.total = got["p"].len
    BY <1>1, <1>2, <2>2, <2>3
  <2>5. now = [got["p"] EXCEPT !.recvd = @ + ContData, !.of = Append(@, f.id)]
    BY <1>4 DEF Transport!Taken
  <2>6. now.of = Append(s, f.id) /\ now.len = got["p"].len /\ now.recvd = got["p"].recvd + ContData
    <3>1. got["p"] = [len |-> got["p"].len, recvd |-> got["p"].recvd, of |-> got["p"].of]
      BY DEF TransportState, Flows
    <3> QED
      BY <2>1, <2>5, <3>1
  <2>7. /\ Append(s, f.id) \in Seq(Ids) /\ Len(Append(s, f.id)) = Len(s) + 1
        /\ \A k \in 1 .. Len(s) : Append(s, f.id)[k] = s[k]
        /\ Append(s, f.id)[Len(s) + 1] = f.id
    BY <1>1, AppendProperties
  <2>7a. Append(s, f.id) # <<>>
    BY <2>2, <2>7, EmptySeq, SMTT(20)
  <2>8. \A k \in 1 .. Len(s) + 1 : Append(s, f.id)[k] = <<[by |-> "p", no |-> Of(f)], k>>
    BY <1>1, <2>2, <2>4, <2>7
  <2>9. InitData + (Nth(f) - 2) * ContData < f.total /\ Nth(f) - 2 = Len(s) - 1
    BY <2>2, <2>4
  <2>10. now.recvd = InitData + (Nth(f) - 1) * ContData
    BY <2>2, <2>4, <2>6
  <2>12. sequence["p"] + 1 = Nth(f) - 1
    BY <2>2, <2>4
  <2>13. /\ now.of \in Seq(Ids) /\ Len(now.of) = Nth(f) /\ now.of # <<>>
         /\ now.len = f.total
    BY <2>4, <2>6, <2>7, <2>7a
  <2>14. \A k \in 1 .. Len(now.of) : now.of[k] = <<[by |-> "p", no |-> Of(f)], k>>
    BY <2>6, <2>7, <2>8
  <2> QED
    BY <1>2, <1>4, <2>2, <2>9, <2>10, <2>12, <2>13, <2>14
<1> QED
  BY <1>3, <1>4

(* More frames of the answer are to come.                                  *)
LEMMA ReadMoreKeeps ==
  ASSUME TransportState, Transport!Read("p"),
         NEW f, f = Head(queue["p"]), Good(f),
         NEW now, now = Transport!Taken("p", f), now.len > now.recvd,
         timeout' = [timeout EXCEPT !["p"] = HidTimeout],
         sequence' = [sequence EXCEPT !["p"] = IF got["p"].of = <<>> THEN 0 ELSE @ + 1],
         got' = [got EXCEPT !["p"] = now],
         UNCHANGED <<pc, state, cid, datasent, result>>
  PROVE  TransportState'
<1> USE TransportConstants
<1>1. /\ pc["p"] = "read" /\ UNCHANGED <<call, inbox, jobs, emitting, channels>>
      /\ OfProgram(queue') /\ queue'["p"] \in Seq(Frames) /\ Increasing(queue'["p"])
      /\ UNCHANGED <<Emitted, Owed, Number>>
      /\ Queued' \subseteq Queued /\ Pending' \subseteq Pending
      /\ f \in Frames /\ f \in Pending
      /\ \A g \in Pending' : Earlier(f, g)
      /\ \A j \in Owed : Of(f) < j.of.no
  BY ReadTakes
<1>2. /\ now.of \in Seq(Ids) /\ Len(now.of) = Nth(f) /\ now.of # <<>>
      /\ \A k \in 1 .. Len(now.of) : now.of[k] = <<[by |-> "p", no |-> Of(f)], k>>
  <2>1. now.of \in Seq(Ids) /\ Len(now.of) = Nth(f)
    BY <1>1, GoodFits, Zenon
  <2>2. now.of # <<>>
    BY <1>1, GoodFits, Zenon
  <2>3. \A k \in 1 .. Len(now.of) : now.of[k] = <<[by |-> "p", no |-> Of(f)], k>>
    BY <1>1, GoodFits, SMTT(20)
  <2> QED
    BY <2>1, <2>2, <2>3
<1>2a. now.len = f.total /\ now.recvd = InitData + (Nth(f) - 1) * ContData
  BY <1>1, GoodFits, Zenon
<1>2b. got["p"].of = <<>> => Nth(f) = 1 /\ f.cmd = call["p"].cmd /\ now.recvd = InitData
  BY <1>1, GoodFits, Zenon
<1>2c. got["p"].of # <<>> => /\ state["p"] = "ready" /\ sequence["p"] + 1 = Nth(f) - 1
                             /\ InitData + (Nth(f) - 2) * ContData < f.total
  BY <1>1, GoodFits, Zenon
<1>2d. state["p"] = "ready" => Of(f) = Number
  BY <1>1, GoodFits
<1>3. /\ f.total \in Nat /\ Nth(f) \in Nat \ {0} /\ Of(f) \in Nat
      /\ f.cmd \in {"PING", "INIT"} => f.total <= InitData
  BY <1>1, FlowsHold DEF Frames, TransportState
<1>4. now \in [len: Nat, recvd: Nat, of: Seq(Ids)]
  <2>1. CASE got["p"].of = <<>>
    <3>1. now = [len |-> f.total, recvd |-> InitData, of |-> <<f.id>>]
      BY <2>1 DEF Transport!Taken
    <3>2. InitData \in Nat /\ now.of \in Seq(Ids)
      BY <1>2
    <3> QED
      BY <1>3, <3>1, <3>2
  <2>2. CASE got["p"].of # <<>>
    <3>1. now = [got["p"] EXCEPT !.recvd = @ + ContData, !.of = Append(@, f.id)]
      BY <2>2 DEF Transport!Taken
    <3>2. got["p"] \in [len: Nat, recvd: Nat, of: Seq(Ids)]
      BY DEF TransportState, Flows
    <3>3. now = [len |-> got["p"].len, recvd |-> got["p"].recvd + ContData, of |-> now.of]
      BY <3>1, <3>2
    <3>4. now.of \in Seq(Ids)
      BY <1>2
    <3> QED
      BY <3>2, <3>3, <3>4
  <2> QED
    BY <2>1, <2>2
<1>5. timeout'["p"] = HidTimeout /\ OfProgram(timeout')
  BY Updated DEF TransportState, Shaped
<1>6. got'["p"] = now /\ OfProgram(got')
  BY Updated DEF TransportState, Shaped
<1>7. sequence'["p"] = Nth(f) - 1 /\ OfProgram(sequence')
  <2>1. PICK v : v = IF got["p"].of = <<>> THEN 0 ELSE sequence["p"] + 1
    OBVIOUS
  <2>2. sequence' = [sequence EXCEPT !["p"] = v] /\ OfProgram(sequence)
    BY <2>1 DEF TransportState, Shaped
  <2>3. sequence'["p"] = v /\ OfProgram(sequence')
    BY <2>2, Updated
  <2>4. v = Nth(f) - 1
    BY <1>3, <1>2b, <1>2c, <2>1
  <2> QED
    BY <2>3, <2>4
<1>8. state["p"] = "ready"
  <2>1. CASE got["p"].of # <<>>
    BY <1>2c, <2>1
  <2>2. CASE got["p"].of = <<>>
    <3>1. f.total > InitData
      BY <1>2a, <1>2b, <2>2
    <3>2. call["p"].cmd \notin {"PING", "INIT"}
      BY <1>3, <1>2b, <2>2, <3>1
    <3> QED
      BY <1>1, <3>2 DEF TransportState, Sends, TransportTyped
  <2> QED
    BY <2>1, <2>2
<1>9. Shaped' /\ Flows'
  BY <1>1, <1>4, <1>5, <1>6, <1>7 DEF TransportState, Shaped, Flows
<1>10. TransportTyped'
  BY <1>1, <1>3, <1>5, <1>7 DEF TransportState, TransportTyped, Transport!Lens
<1>11. Ordered' /\ Counted' /\ Given'
  BY <1>1 DEF TransportState, Ordered, Counted, Given, Unused
<1>12. Sends' /\ Alone' /\ NextIsPing' /\ Longer'
  BY <1>1 DEF TransportState, Sends, Alone, NextIsPing, Longer
<1>13. Collected'
  <2>1. \A g \in Pending' : Of(g) = Number => Nth(g) > Len(now.of) /\ g.total = now.len
    <3>1. Of(f) = Number /\ Len(now.of) = Nth(f) /\ now.len = f.total
      BY <1>2, <1>8, <1>2a, <1>2d
    <3>2. \A g \in Pending' : Of(g) = Of(f) => Nth(g) > Nth(f) /\ g.total = f.total
      <4>1. \A g \in Pending' : Earlier(f, g) /\ g \in Pending /\ Of(g) \in Nat /\ Nth(g) \in Nat
        BY <1>1, FlowsHold DEF TransportState
      <4>2. \A g \in Pending : Of(g) = Of(f) => g.total = f.total
        BY <1>1 DEF TransportState, Ordered
      <4> QED
        BY <1>3, <4>1, <4>2 DEF Earlier
    <3> QED
      BY <3>1, <3>2
  <2>2. \A j \in Owed : j.of.no # Number
    <3>1. \A j \in Owed : j.of.no \in Nat
      BY FlowsHold DEF TransportState
    <3> QED
      BY <1>1, <1>3, <1>8, <1>2d, <3>1
  <2>3. \A k \in 1 .. Len(now.of) : now.of[k] = <<[by |-> "p", no |-> Number], k>>
    BY <1>2, <1>8, <1>2d
  <2>4. sequence'["p"] = Len(now.of) - 1 /\ now.recvd = InitData + (Len(now.of) - 1) * ContData
    BY <1>2, <1>7, <1>2a
  <2>5. now.recvd < now.len
    BY <1>4
  <2> QED
    BY <1>1, <1>6, <1>8, <2>1, <2>2, <2>3, <2>4, <2>5 DEF Collected
<1>14. Whole'
  BY <1>1 DEF TransportState, Whole, Transport!FramesFor
<1> QED
  BY <1>9, <1>10, <1>11, <1>12, <1>13, <1>14 DEF TransportState

(* The answer is there, and there is nothing else of its kind.             *)
LEMMA ReadDoneKeeps ==
  ASSUME TransportState, Transport!Read("p"),
         NEW f, f = Head(queue["p"]), Good(f),
         NEW now, now = Transport!Taken("p", f), ~(now.len > now.recvd),
         Transport!Return("p", "OK", now),
         cid' = IF call["p"].cmd = "INIT" THEN [cid EXCEPT !["p"] = f.new] ELSE cid
  PROVE  TransportState'
<1> USE TransportConstants
<1>1. /\ pc["p"] = "read" /\ UNCHANGED <<call, inbox, jobs, emitting, channels>>
      /\ OfProgram(queue') /\ queue'["p"] \in Seq(Frames) /\ Increasing(queue'["p"])
      /\ UNCHANGED <<Emitted, Owed, Number>>
      /\ Queued' \subseteq Queued /\ Pending' \subseteq Pending
      /\ f \in Frames /\ f \in Pending
      /\ \A g \in Pending' : Earlier(f, g)
      /\ \A j \in Owed : Of(f) < j.of.no
  BY ReadTakes
<1>2. /\ now.of \in Seq(Ids) /\ Len(now.of) = Nth(f) /\ now.of # <<>>
      /\ \A k \in 1 .. Len(now.of) : now.of[k] = <<[by |-> "p", no |-> Of(f)], k>>
  <2>1. now.of \in Seq(Ids) /\ Len(now.of) = Nth(f)
    BY <1>1, GoodFits, Zenon
  <2>2. now.of # <<>>
    BY <1>1, GoodFits, Zenon
  <2>3. \A k \in 1 .. Len(now.of) : now.of[k] = <<[by |-> "p", no |-> Of(f)], k>>
    BY <1>1, GoodFits, SMTT(20)
  <2> QED
    BY <2>1, <2>2, <2>3
<1>2a. now.len = f.total /\ now.recvd = InitData + (Nth(f) - 1) * ContData
  BY <1>1, GoodFits, Zenon
<1>2b. got["p"].of = <<>> => Nth(f) = 1 /\ f.cmd = call["p"].cmd /\ now.recvd = InitData
  BY <1>1, GoodFits, Zenon
<1>2c. got["p"].of # <<>> => /\ state["p"] = "ready" /\ sequence["p"] + 1 = Nth(f) - 1
                             /\ InitData + (Nth(f) - 2) * ContData < f.total
  BY <1>1, GoodFits, Zenon
<1>2d. state["p"] = "ready" => Of(f) = Number
  BY <1>1, GoodFits
<1>3. /\ f.total \in Nat /\ Nth(f) \in Nat \ {0} /\ Of(f) \in Nat
      /\ f.cmd \in {"PING", "INIT"} => f.total <= InitData
  BY <1>1, FlowsHold DEF Frames, TransportState
<1>4. /\ pc'["p"] = "idle" /\ datasent'["p"] = 0 /\ sequence'["p"] = 0
      /\ timeout'["p"] = HidTimeout /\ got'["p"] = [len |-> 0, recvd |-> 0, of |-> <<>>]
      /\ result'["p"] = [rc |-> "OK", cmd |-> call["p"].cmd, len |-> now.len, of |-> now.of]
      /\ state'["p"] = "ready"
      /\ OfProgram(pc') /\ OfProgram(datasent') /\ OfProgram(sequence')
      /\ OfProgram(timeout') /\ OfProgram(got') /\ OfProgram(result') /\ OfProgram(state')
  BY ReturnLeaves DEF TransportState
<1>5. Transport!FramesFor(f.total) = Nth(f)
  <2>1. CASE got["p"].of = <<>>
    <3>1. Nth(f) = 1 /\ now.recvd = InitData
      BY <1>2b, <2>1
    <3>2. f.total <= InitData
      <4>1. now.len = f.total
        BY <1>2a
      <4> QED
        BY <1>3, <3>1, <4>1
    <3>3. Transport!FramesFor(f.total) = 1
      BY <1>3, <3>2, OneFrame
    <3> QED
      BY <3>1, <3>3
  <2>2. CASE got["p"].of # <<>>
    <3>1. PICK r : r = Nth(f) - 1
      OBVIOUS
    <3>2. /\ r \in Nat \ {0} /\ InitData + (r - 1) * ContData < f.total
          /\ f.total <= InitData + r * ContData /\ InitData < f.total
      <4>1. sequence["p"] \in Nat /\ Len(got["p"].of) \in Nat \ {0}
        BY <2>2, LenProperties, EmptySeq DEF TransportState, TransportTyped, Flows
      <4>2. sequence["p"] = Len(got["p"].of) - 1 /\ sequence["p"] + 1 = Nth(f) - 1
        BY <1>2c, <2>2 DEF TransportState, Collected
      <4>3. r \in Nat \ {0} /\ r - 1 = Nth(f) - 2
        BY <1>3, <3>1, <4>1, <4>2
      <4>4. InitData + (r - 1) * ContData < f.total
        BY <1>2c, <2>2, <4>3
      <4>5. f.total <= InitData + r * ContData
        <5>1. now.recvd = InitData + r * ContData /\ now.recvd \in Nat
          BY <1>2a, <3>1, <4>3
        <5> QED
          BY <1>3, <1>2a, <5>1
      <4>6. (r - 1) * ContData >= 0
        BY <4>3
      <4>7. InitData < f.total
        <5>1. PICK x : x = (r - 1) * ContData
          OBVIOUS
        <5>2. x \in Nat
          BY <4>3, <5>1
        <5> QED
          BY <1>3, <4>4, <5>1, <5>2
      <4> QED
        BY <4>3, <4>4, <4>5, <4>7
    <3> QED
      BY <1>3, <3>1, <3>2, ManyFrames
  <2> QED
    BY <2>1, <2>2
<1>6. /\ f.cmd = call["p"].cmd \/ state["p"] = "ready"
      /\ f.cid = cid["p"]
      /\ state["p"] \in {"new", "ready", "suspect"}
  BY <1>1, <1>2b, <1>2c
  DEF Good, Transport!Fits, Transport!Continues, TransportState, Sends, TransportTyped
<1>7. Whole'
  <2>1. \A k \in DOMAIN now.of : now.of[k] = <<now.of[1][1], k>>
    <3>1. DOMAIN now.of = 1 .. Len(now.of) /\ 1 \in 1 .. Len(now.of)
      BY <1>2, <1>3, LenProperties
    <3>2. \A k \in 1 .. Len(now.of) : now.of[k] = <<[by |-> "p", no |-> Of(f)], k>>
      BY <1>2
    <3>3. now.of[1][1] = [by |-> "p", no |-> Of(f)]
      BY <3>1, <3>2
    <3> QED
      BY <3>1, <3>2, <3>3
  <2>2. Len(now.of) = Transport!FramesFor(now.len)
    BY <1>2, <1>5, <1>2a
  <2>3. call["p"].cmd # "INIT" => now.of[1][1] = [by |-> "p", no |-> Number]
    <3>1. ASSUME call["p"].cmd # "INIT" PROVE Of(f) = Number
      BY <1>1, <1>6, <1>2d, <3>1 DEF TransportState, Sends, NextIsPing
    <3>2. now.of[1][1] = [by |-> "p", no |-> Of(f)]
      <4>1. 1 \in 1 .. Len(now.of)
        BY <1>2, <1>3
      <4>2. now.of[1] = <<[by |-> "p", no |-> Of(f)], 1>>
        BY <1>2, <4>1, Zenon
      <4> QED
        BY <4>2
    <3> QED
      BY <3>1, <3>2
  <2> QED
    <3>1. /\ result'["p"].of = now.of /\ result'["p"].len = now.len
          /\ result'["p"].cmd = call["p"].cmd /\ Number' = Number
      BY <1>1, <1>4
    <3>2. /\ \A k \in DOMAIN result'["p"].of : result'["p"].of[k] = <<result'["p"].of[1][1], k>>
          /\ Len(result'["p"].of) = Transport!FramesFor(result'["p"].len)
      BY <2>1, <2>2, <3>1, Zenon
    <3>3. result'["p"].cmd # "INIT" => result'["p"].of[1][1] = [by |-> "p", no |-> Number']
      BY <2>3, <3>1, Zenon
    <3>4. Transport!FramesFor(result'["p"].len) = Transport!FramesFor(result["p"].len)'
      BY DEF Transport!FramesFor
    <3> QED
      BY <3>2, <3>3, <3>4, Zenon DEF Whole
<1>8. Shaped' /\ Flows'
  <2>1. <<>> \in Seq(Ids)
    BY EmptySeq
  <2>2. OfProgram(cid')
    BY Updated DEF TransportState, Shaped
  <2> QED
    BY <1>1, <1>4, <2>1, <2>2 DEF TransportState, Shaped, Flows
<1>9. CASE call["p"].cmd = "INIT"
  <2>1. cid'["p"] = f.new
    BY <1>9, Updated DEF TransportState, Shaped
  <2>2. f.cmd = "INIT" /\ state["p"] = "new"
    BY <1>1, <1>6, <1>9 DEF TransportState, Sends
  <2>3. /\ f.new \in 1 .. channels /\ Unused(f.new)
        /\ \A g \in Pending' : g.cmd = "INIT" => g.new # f.new
    <3>1. \A g \in Pending : g.cmd = "INIT" /\ g.new = f.new => g.id = f.id
      BY <1>1, <2>2 DEF TransportState, Given
    <3>2. \A g \in Pending' : g.id # f.id
      <4>1. \A g \in Pending' : Earlier(f, g) /\ Of(g) \in Nat /\ Nth(g) \in Nat
        BY <1>1, FlowsHold DEF TransportState
      <4> QED
        BY <1>3, <4>1 DEF Earlier, Of, Nth
    <3> QED
      BY <1>1, <2>2, <3>1, <3>2 DEF TransportState, Given
  <2>4. channels \in Nat
    BY DEF TransportState, TransportTyped
  <2>5. TransportTyped'
    BY <1>1, <1>4, <2>1, <2>3, <2>4 DEF TransportState, TransportTyped, Transport!Lens
  <2>6. Ordered'
    BY <1>1 DEF TransportState, Ordered
  <2>7. Counted'
    <3>1. Counted
      BY DEF TransportState
    <3>2. /\ pc["p"] # "send" /\ pc'["p"] # "send" /\ cid'["p"] <= channels
          /\ UNCHANGED <<Owed, Number, channels, jobs, inbox>> /\ Pending' \subseteq Pending
      BY <1>1, <1>4, <2>1, <2>3, <2>4
    <3>3. \A g \in Pending' : Of(g) <= Number' /\ g.cid <= channels'
      BY <3>1, <3>2 DEF Counted
    <3>4. \A j \in Owed' : j.of.no <= Number'
      BY <3>1, <3>2 DEF Counted
    <3>5. \A j \in Owed' \cup inbox' : j.cid <= channels'
      BY <3>1, <3>2 DEF Counted
    <3>6. channels' + Len(jobs') + 0 <= Number'
      BY <3>1, <3>2 DEF Counted
    <3> HIDE DEF Pending, Owed, Number, Of
    <3> QED
      BY <3>2, <3>3, <3>4, <3>5, <3>6 DEF Counted
  <2>8. Given'
    BY <1>1, <2>1, <2>3 DEF TransportState, Given, Unused
  <2>9. Sends'
    BY <1>4, <2>1, <2>3, <2>4 DEF Sends
  <2>10. Alone' /\ NextIsPing'
    BY <1>1, <1>4, <2>1, <2>3 DEF Alone, NextIsPing, Unused
  <2>11. Longer' /\ Collected'
    BY <1>1, <1>4 DEF TransportState, Longer, Collected
  <2> QED
    BY <1>7, <1>8, <2>5, <2>6, <2>7, <2>8, <2>9, <2>10, <2>11 DEF TransportState
<1>10. CASE call["p"].cmd # "INIT"
  <2>1. UNCHANGED cid /\ state["p"] \in {"ready", "suspect"} /\ cid["p"] # 0
    BY <1>1, <1>6, <1>10 DEF TransportState, Sends
  <2>2. Of(f) = Number
    BY <1>1, <1>6, <1>2d, <1>10, <2>1 DEF TransportState, Sends, NextIsPing
  <2>3. Pending' = {}
    <3> SUFFICES ASSUME NEW g \in Pending' PROVE FALSE
      OBVIOUS
    <3>1. g \in Pending /\ Earlier(f, g) /\ Of(g) \in Nat /\ Nth(g) \in Nat /\ Of(g) <= Number
      BY <1>1, FlowsHold DEF TransportState, Counted
    <3>2. Of(g) = Of(f) /\ Nth(g) > Nth(f)
      BY <1>3, <2>2, <3>1 DEF Earlier
    <3>3. g.total = f.total
      BY <1>1, <3>1, <3>2 DEF TransportState, Ordered
    <3>4. Nth(g) <= Transport!FramesFor(g.total)
      BY <3>1, FlowsHold DEF TransportState, Frames
    <3> QED
      BY <1>3, <1>5, <3>1, <3>2, <3>3, <3>4
  <2>4. Owed' = {}
    <3> SUFFICES ASSUME NEW j \in Owed PROVE FALSE
      BY <1>1
    <3>1. Of(f) < j.of.no /\ j.of.no \in Nat /\ j.of.no <= Number
      BY <1>1, FlowsHold DEF TransportState, Counted
    <3> QED
      BY <1>3, <2>2, <3>1
  <2>5. \A m \in inbox' : m.cid # cid'["p"]
    BY <1>1, <2>1 DEF TransportState, Alone, NextIsPing
  <2>6. TransportTyped'
    BY <1>1, <1>4, <2>1 DEF TransportState, TransportTyped, Transport!Lens
  <2>7. Ordered'
    BY <1>1, <2>3, <2>4 DEF TransportState, Ordered, Pending
  <2>8. Counted'
    BY <1>1, <1>4, <2>1, <2>3, <2>4 DEF TransportState, Counted
  <2>9. Given' /\ Alone' /\ NextIsPing'
    BY <1>4, <2>3, <2>4, <2>5 DEF Given, Alone, NextIsPing
  <2>10. Sends'
    BY <1>4, <2>1 DEF Sends
  <2>11. Longer' /\ Collected'
    BY <1>1, <1>4 DEF TransportState, Longer, Collected
  <2> QED
    BY <1>7, <1>8, <2>6, <2>7, <2>8, <2>9, <2>10, <2>11 DEF TransportState
<1> QED
  BY <1>9, <1>10

LEMMA ReadKeeps ==
  ASSUME TransportState, Transport!Read("p")
  PROVE  TransportState'
<1>1. PICK f : f = Head(queue["p"])
  OBVIOUS
<1>2. PICK now : now = Transport!Taken("p", f)
  OBVIOUS
<1>3. \/ Transport!Fail("p") /\ UNCHANGED cid
      \/ /\ Good(f) /\ now.len > now.recvd
         /\ timeout' = [timeout EXCEPT !["p"] = HidTimeout]
         /\ sequence' = [sequence EXCEPT !["p"] = IF got["p"].of = <<>> THEN 0 ELSE @ + 1]
         /\ got' = [got EXCEPT !["p"] = now]
         /\ UNCHANGED <<pc, state, cid, datasent, result>>
      \/ /\ Good(f) /\ ~(now.len > now.recvd)
         /\ Transport!Return("p", "OK", now)
         /\ cid' = IF call["p"].cmd = "INIT" THEN [cid EXCEPT !["p"] = f.new] ELSE cid
  BY <1>1, <1>2 DEF Transport!Read, Good
<1>4. CASE Transport!Fail("p") /\ UNCHANGED cid
  BY <1>4, ReadTakes, FailKeeps
<1>5. CASE /\ Good(f) /\ now.len > now.recvd
           /\ timeout' = [timeout EXCEPT !["p"] = HidTimeout]
           /\ sequence' = [sequence EXCEPT !["p"] = IF got["p"].of = <<>> THEN 0 ELSE @ + 1]
           /\ got' = [got EXCEPT !["p"] = now]
           /\ UNCHANGED <<pc, state, cid, datasent, result>>
  BY <1>1, <1>2, <1>5, ReadMoreKeeps
<1>6. CASE /\ Good(f) /\ ~(now.len > now.recvd)
           /\ Transport!Return("p", "OK", now)
           /\ cid' = IF call["p"].cmd = "INIT" THEN [cid EXCEPT !["p"] = f.new] ELSE cid
  BY <1>1, <1>2, <1>6, ReadDoneKeeps
<1> QED
  BY <1>3, <1>4, <1>5, <1>6

(* The frames of an answer.                                                *)
Numbered(j, n, s) ==
    /\ Increasing(s) /\ s \in Seq(Frames)
    /\ \A g \in Elements(s) :
          /\ g.cid = j.cid /\ Of(g) = j.of.no /\ g.total = n
          /\ g.cmd \in {j.cmd, "CONT", "ERROR"}
          /\ g.cmd = "INIT" => g.new = channels' /\ Nth(g) = 1 /\ channels' = channels + 1

LEMMA FramesOfAnswer ==
  ASSUME NEW j \in Messages, NEW n \in Nat, channels \in Nat, NEW c, c = channels', c \in Nat,
         j.cmd = "INIT" => n = 17 /\ c = channels + 1,
         j.cmd = "PING" => n = j.total,
         NEW s, s = [k \in 1 .. Transport!FramesFor(n) |->
                       [cid |-> j.cid, id |-> <<j.of, k>>, total |-> n,
                        cmd |-> IF k = 1 THEN j.cmd ELSE "CONT",
                        seq |-> IF k = 1 THEN 0 ELSE k - 2, new |-> c]]
  PROVE  Numbered(j, n, s)
<1> USE TransportConstants
<1>1. PICK l \in Nat \ {0} : l = Transport!FramesFor(n)
  BY FramesForFits
<1>2. /\ j.cid \in Nat /\ j.of \in [by: {"p"}, no: Nat \ {0}] /\ j.of.no \in Nat \ {0}
      /\ j.cmd \in {"INIT", "PING", "MSG"}
      /\ j.cid = 0 <=> j.cmd = "INIT"
      /\ j.cmd \in {"INIT", "PING"} => n <= InitData
  BY DEF Messages
<1>3. j.cmd \in {"INIT", "PING"} => l = 1
  BY <1>1, <1>2, OneFrame
<1>4. ASSUME NEW k \in 1 .. l
      PROVE  /\ s[k] \in Frames /\ Nth(s[k]) = k /\ Of(s[k]) = j.of.no
             /\ s[k].cid = j.cid /\ s[k].total = n
             /\ s[k].cmd = IF k = 1 THEN j.cmd ELSE "CONT"
             /\ s[k].new = c
  <2>1. PICK g : g = [cid |-> j.cid, id |-> <<j.of, k>>, total |-> n,
                      cmd |-> IF k = 1 THEN j.cmd ELSE "CONT",
                      seq |-> IF k = 1 THEN 0 ELSE k - 2, new |-> c]
    OBVIOUS
  <2>2. s[k] = g
    BY <1>1, <1>4, <2>1
  <2>3. /\ g.cid = j.cid /\ g.id = <<j.of, k>> /\ g.total = n
        /\ g.cmd = IF k = 1 THEN j.cmd ELSE "CONT"
        /\ g.seq = IF k = 1 THEN 0 ELSE k - 2
        /\ g.new = c
    BY <2>1
  <2>4. <<j.of, k>> \in Ids /\ <<j.of, k>>[1] = j.of /\ <<j.of, k>>[2] = k
    BY <1>1, <1>2, <1>4 DEF Ids
  <2>5. Nth(g) = k /\ Of(g) = j.of.no
    BY <2>3, <2>4 DEF Nth, Of
  <2>6. g \in [cid: Nat, id: Ids, total: Nat,
               cmd: {"INIT", "PING", "MSG", "CONT", "ERROR"}, seq: Nat, new: Nat]
    <3>1. (IF k = 1 THEN j.cmd ELSE "CONT") \in {"INIT", "PING", "MSG", "CONT", "ERROR"}
      BY <1>2
    <3>2. (IF k = 1 THEN 0 ELSE k - 2) \in Nat
      BY <1>1, <1>4
    <3> QED
      BY <1>2, <2>1, <2>4, <3>1, <3>2
  <2>7. /\ Nth(g) <= Transport!FramesFor(g.total)
        /\ g.seq = IF Nth(g) = 1 THEN 0 ELSE Nth(g) - 2
        /\ g.cmd # "CONT" <=> Nth(g) = 1
        /\ g.cmd \in {"PING", "INIT"} => g.total <= InitData
    BY <1>1, <1>2, <1>4, <2>3, <2>5
  <2>8. /\ g.cid = 0 => g.cmd \in {"INIT", "ERROR"}
        /\ g.cmd = "INIT" => g.cid = 0
    BY <1>2, <1>3, <1>4, <2>3
  <2>9. g \in Frames
    BY <2>6, <2>7, <2>8 DEF Frames
  <2> QED
    BY <2>2, <2>3, <2>5, <2>9
<1>5. s \in Seq(Frames) /\ Len(s) = l
  <2>1. s = [k \in 1 .. l |-> s[k]]
    BY <1>1
  <2>2. s \in [1 .. l -> Frames]
    BY <1>4, <2>1
  <2>3. l \in Nat
    BY <1>1
  <2>4. [1 .. l -> Frames] \in {[1 .. m -> Frames] : m \in Nat}
    BY <2>3, Zenon
  <2>5. s \in Seq(Frames)
    BY <2>2, <2>4, SeqDef, Zenon
  <2>6. DOMAIN s = 1 .. l /\ DOMAIN s = 1 .. Len(s) /\ Len(s) \in Nat
    BY <2>2, <2>5, LenProperties
  <2>7. Len(s) = l
    <3>1. ASSUME NEW p \in Nat, NEW q \in Nat, 1 .. p = 1 .. q
          PROVE  p = q
      <4>1. q \in 1 .. q \/ q = 0
        BY <3>1
      <4>2. p \in 1 .. p \/ p = 0
        BY <3>1
      <4>3. p <= q /\ q <= p
        BY <3>1, <4>1, <4>2
      <4> QED
        BY <4>3
    <3> QED
      BY <2>3, <2>6, <3>1
  <2> QED
    BY <2>5, <2>7
<1>6. Increasing(s)
  <2>1. \A k \in 1 .. l : \A m \in 1 .. l : k < m => Earlier(s[k], s[m])
    <3> SUFFICES ASSUME NEW k \in 1 .. l, NEW m \in 1 .. l, k < m
                 PROVE  Earlier(s[k], s[m])
      OBVIOUS
    <3>1. Nth(s[k]) = k /\ Of(s[k]) = j.of.no
      BY <1>4
    <3>2. Nth(s[m]) = m /\ Of(s[m]) = j.of.no
      BY <1>4
    <3> QED
      BY <3>1, <3>2 DEF Earlier
  <2> QED
    BY <1>5, <2>1 DEF Increasing
<1>7. \A g \in Elements(s) : \E k \in 1 .. l : g = s[k]
  BY <1>5 DEF Elements
<1>8. ASSUME NEW g \in Elements(s)
      PROVE  /\ g.cid = j.cid /\ Of(g) = j.of.no /\ g.total = n
             /\ g.cmd \in {j.cmd, "CONT", "ERROR"}
             /\ g.cmd = "INIT" => g.new = channels' /\ Nth(g) = 1 /\ channels' = channels + 1
  <2>1. PICK k \in 1 .. l : g = s[k]
    BY <1>7, <1>8
  <2>2. /\ Nth(g) = k /\ Of(g) = j.of.no /\ g.cid = j.cid /\ g.total = n
        /\ g.cmd = IF k = 1 THEN j.cmd ELSE "CONT"
        /\ g.new = c
    BY <1>4, <2>1
  <2> QED
    BY <1>2, <2>2
<1> QED
  BY <1>5, <1>6, <1>8 DEF Numbered

LEMMA ErrorOfAnswer ==
  ASSUME NEW j \in Messages,
         NEW s, s = <<[cid |-> j.cid, id |-> <<j.of, 1>>, total |-> 1,
                       cmd |-> "ERROR", seq |-> 0, new |-> Transport!Broadcast]>>
  PROVE  Numbered(j, 1, s)
<1> USE TransportConstants
<1>1. PICK g : g = [cid |-> j.cid, id |-> <<j.of, 1>>, total |-> 1,
                    cmd |-> "ERROR", seq |-> 0, new |-> 0]
  OBVIOUS
<1>2. s = <<g>>
  BY <1>1 DEF Transport!Broadcast
<1>3. /\ g.cid = j.cid /\ g.id = <<j.of, 1>> /\ g.total = 1 /\ g.cmd = "ERROR"
      /\ g.seq = 0 /\ g.new = 0
  BY <1>1
<1>4. /\ j.cid \in Nat /\ j.of \in [by: {"p"}, no: Nat \ {0}]
  BY DEF Messages
<1>5. <<j.of, 1>> \in Ids /\ <<j.of, 1>>[1] = j.of /\ <<j.of, 1>>[2] = 1
  BY <1>4 DEF Ids
<1>6. Nth(g) = 1 /\ Of(g) = j.of.no
  BY <1>3, <1>5 DEF Nth, Of
<1>7. g \in Frames
  <2>1. Transport!FramesFor(1) = 1
    BY OneFrame
  <2>2. g \in [cid: Nat, id: Ids, total: Nat,
               cmd: {"INIT", "PING", "MSG", "CONT", "ERROR"}, seq: Nat, new: Nat]
    BY <1>1, <1>4, <1>5
  <2> QED
    BY <1>3, <1>6, <2>1, <2>2 DEF Frames
<1>8. s \in Seq(Frames) /\ Len(s) = 1 /\ s[1] = g
  BY <1>2, <1>7
<1>9. Increasing(s) /\ Elements(s) = {g}
  BY <1>8 DEF Increasing, Elements
<1> QED
  BY <1>3, <1>6, <1>8, <1>9 DEF Numbered

LEMMA AnswerKeeps ==
  ASSUME TransportState, Transport!Answer
  PROVE  TransportState'
<1> USE TransportConstants
<1>1. /\ UNCHANGED <<state, pc, cid, call, datasent, sequence, timeout, got, result>>
      /\ UNCHANGED <<queue, inbox>>
      /\ jobs # <<>> /\ emitting = <<>> /\ jobs' = Tail(jobs)
  BY DEF Transport!Answer, Transport!progVars, Transport!locals
<1>2. PICK j : j = Head(jobs)
  OBVIOUS
<1>3. /\ j \in Messages /\ j \in Owed /\ jobs' \in Seq(Messages) /\ Owed' \subseteq Owed
      /\ Len(jobs') = Len(jobs) - 1 /\ Len(jobs) \in Nat
  BY <1>1, <1>2, ElementsTail, FlowsHold DEF Owed, TransportState, Flows
<1>4. Rising(jobs') /\ \A i \in Owed' : j.of.no < i.of.no
  BY <1>1, <1>2, RisingTail DEF Owed, TransportState, Flows, Ordered
<1>5. PICK s : s = emitting'
  OBVIOUS
<1>6. channels \in Nat /\ channels' \in {channels, channels + 1}
  BY DEF TransportState, TransportTyped, Transport!Answer
<1>7. (j.cmd # "INIT" => channels' = channels) /\ \E n \in Nat : Numbered(j, n, s)
  <2> DEFINE lens == CASE j.cmd = "INIT" -> {17} [] j.cmd = "PING" -> {j.total}
                       [] OTHER -> AnswerLens
             answer(n) == [k \in 1 .. Transport!FramesFor(n) |->
                             [cid |-> j.cid, id |-> <<j.of, k>>, total |-> n,
                              cmd |-> IF k = 1 THEN j.cmd ELSE "CONT",
                              seq |-> IF k = 1 THEN 0 ELSE k - 2, new |-> channels']]
             error == <<[cid |-> j.cid, id |-> <<j.of, 1>>, total |-> 1,
                         cmd |-> "ERROR", seq |-> 0, new |-> Transport!Broadcast]>>
  <2>1. \/ \E n \in lens : /\ channels' = IF j.cmd = "INIT" THEN channels + 1 ELSE channels
                           /\ emitting' = answer(n)
        \/ emitting' = error /\ UNCHANGED channels
    BY <1>2 DEF Transport!Answer
  <2>2. CASE emitting' = error /\ UNCHANGED channels
    <3>1. Numbered(j, 1, s)
      BY <1>3, <1>5, <2>2, ErrorOfAnswer
    <3> QED
      BY <2>2, <3>1
  <2>3. ASSUME NEW n \in lens,
               channels' = IF j.cmd = "INIT" THEN channels + 1 ELSE channels,
               emitting' = answer(n)
        PROVE  n \in Nat /\ Numbered(j, n, s) /\ (j.cmd # "INIT" => channels' = channels)
    <3>1. /\ n \in Nat
          /\ j.cmd = "INIT" => n = 17
          /\ j.cmd = "PING" => n = j.total
      BY <1>3 DEF Messages
    <3>2. PICK c : c = channels'
      OBVIOUS
    <3>3. s = [k \in 1 .. Transport!FramesFor(n) |->
                 [cid |-> j.cid, id |-> <<j.of, k>>, total |-> n,
                  cmd |-> IF k = 1 THEN j.cmd ELSE "CONT",
                  seq |-> IF k = 1 THEN 0 ELSE k - 2, new |-> c]]
      BY <1>5, <2>3, <3>2
    <3> HIDE DEF lens, answer
    <3>4. c \in Nat /\ (j.cmd = "INIT" => c = channels + 1)
      BY <1>6, <2>3, <3>2
    <3>5. Numbered(j, n, s)
      BY <1>3, <1>6, <3>1, <3>2, <3>3, <3>4, FramesOfAnswer
    <3> QED
      BY <2>3, <3>1, <3>5
  <2> HIDE DEF lens, answer, error
  <2> QED
    BY <2>1, <2>2, <2>3
<1>8. PICK n \in Nat : Numbered(j, n, s)
  BY <1>7
<1>9. /\ Increasing(s) /\ s \in Seq(Frames) /\ Elements(s) \subseteq Frames
      /\ Emitted' = Elements(s) /\ Queued' = Queued /\ Pending' = Queued \cup Elements(s)
      /\ Pending = Queued /\ UNCHANGED Number
  <2>1. Elements(<<>>) = {}
    BY EmptySeq DEF Elements
  <2>2. Increasing(s) /\ s \in Seq(Frames) /\ Elements(s) \subseteq Frames
    BY <1>8, ElementsOf DEF Numbered
  <2> QED
    BY <1>1, <1>5, <2>1, <2>2 DEF Emitted, Queued, Pending, Number
<1>10. \A g \in Elements(s) :
          /\ g.cid = j.cid /\ Of(g) = j.of.no /\ g.total = n
          /\ g.cmd \in {j.cmd, "CONT", "ERROR"}
          /\ g.cmd = "INIT" => g.new = channels' /\ Nth(g) = 1 /\ channels' = channels + 1
  BY <1>8 DEF Numbered
<1>11. /\ \A f \in Queued : Of(f) < j.of.no /\ Of(f) \in Nat /\ f.cid \in Nat
       /\ j.of.no \in Nat /\ j.cid \in Nat
       /\ \A i \in Owed : i.of.no \in Nat /\ i.cid \in Nat
       /\ \A i \in inbox : i.cid \in Nat
  BY <1>3, <1>9, FlowsHold DEF TransportState, Ordered
<1>12. Shaped' /\ Flows'
  BY <1>1, <1>3, <1>5, <1>9 DEF TransportState, Shaped, Flows
<1>13. TransportTyped'
  BY <1>1, <1>6, <1>9 DEF TransportState, TransportTyped, Transport!Lens
<1>14. Ordered'
  <2>1. \A f \in Queued : \A g \in Elements(s) : Earlier(f, g)
    BY <1>10, <1>11 DEF Earlier
  <2>2. \A f \in Pending' : \A i \in Owed' : Of(f) < i.of.no
    BY <1>3, <1>4, <1>9, <1>10, <1>11
  <2>3. \A f \in Pending' : \A g \in Pending' : Of(f) = Of(g) => f.total = g.total
    <3>1. \A f \in Queued : \A g \in Queued : Of(f) = Of(g) => f.total = g.total
      BY <1>9 DEF TransportState, Ordered
    <3> QED
      BY <1>9, <1>10, <1>11, <3>1
  <2> QED
    BY <1>1, <1>4, <1>5, <1>9, <2>1, <2>2, <2>3 DEF TransportState, Ordered
<1>15. Counted'
  <2>1. /\ \A f \in Pending : Of(f) <= Number /\ (pc["p"] = "send" => Of(f) < Number)
        /\ \A i \in Owed : i.of.no <= Number /\ (pc["p"] = "send" => i.of.no < Number)
        /\ channels + Len(jobs) + (IF pc["p"] = "send" THEN 1 ELSE 0) <= Number
        /\ cid["p"] <= channels /\ cid["p"] \in Nat /\ Number \in Nat
        /\ \A f \in Pending : f.cid <= channels
        /\ \A i \in Owed \cup inbox : i.cid <= channels
    BY DEF TransportState, Counted, TransportTyped
  <2>2. \A f \in Pending' : Of(f) <= Number /\ (pc["p"] = "send" => Of(f) < Number)
    BY <1>3, <1>9, <1>10, <2>1
  <2>3. channels' + Len(jobs') + (IF pc["p"] = "send" THEN 1 ELSE 0) <= Number
    BY <1>3, <1>6, <2>1
  <2>4. cid["p"] <= channels' /\ \A f \in Pending' : f.cid <= channels'
    BY <1>3, <1>6, <1>9, <1>10, <1>11, <2>1
  <2>5. \A i \in Owed' \cup inbox : i.cid <= channels'
    BY <1>3, <1>6, <1>11, <2>1
  <2> QED
    BY <1>1, <1>3, <1>9, <2>1, <2>2, <2>3, <2>4, <2>5 DEF Counted
<1>16. Given'
  <2>1. /\ cid["p"] <= channels /\ cid["p"] \in Nat
        /\ \A f \in Queued : f.cid <= channels
        /\ \A i \in Owed \cup inbox : i.cid <= channels
    BY <1>9 DEF TransportState, Counted, TransportTyped
  <2>2. \A g \in Queued : g.cmd = "INIT" =>
          /\ g.new \in 1 .. channels /\ Unused(g.new)
          /\ \A f \in Queued : f.cmd = "INIT" /\ f.new = g.new => f.id = g.id
    BY <1>9 DEF TransportState, Given
  <2>3. ASSUME NEW g \in Queued, g.cmd = "INIT"
        PROVE  /\ g.new \in 1 .. channels' /\ Unused(g.new)'
               /\ \A f \in Pending' : f.cmd = "INIT" /\ f.new = g.new => f.id = g.id
    <3>1. /\ g.new \in 1 .. channels /\ Unused(g.new)
          /\ \A f \in Queued : f.cmd = "INIT" /\ f.new = g.new => f.id = g.id
      BY <2>2, <2>3
    <3>2. \A f \in Pending' : f.cid # g.new
      BY <1>3, <1>9, <1>10, <3>1 DEF Unused
    <3>3. Unused(g.new)'
      BY <1>1, <1>3, <3>1, <3>2 DEF Unused
    <3>4. \A f \in Elements(s) : f.cmd = "INIT" => f.new # g.new
      BY <1>6, <1>10, <3>1
    <3> QED
      BY <1>6, <1>9, <3>1, <3>3, <3>4
  <2>4. ASSUME NEW g \in Elements(s), g.cmd = "INIT"
        PROVE  /\ g.new \in 1 .. channels' /\ Unused(g.new)'
               /\ \A f \in Pending' : f.cmd = "INIT" /\ f.new = g.new => f.id = g.id
    <3>1. g.new = channels + 1 /\ channels' = channels + 1 /\ Nth(g) = 1 /\ Of(g) = j.of.no
      BY <1>10, <2>4
    <3>2. Unused(g.new)'
      BY <1>1, <1>3, <1>6, <1>9, <1>10, <1>11, <2>1, <3>1 DEF Unused
    <3>3. \A f \in Queued : f.cmd = "INIT" => f.new # g.new
      BY <1>6, <2>2, <3>1
    <3>4. \A f \in Elements(s) : f.cmd = "INIT" => f.id = g.id
      <4>1. \A f \in Elements(s) : f.cmd = "INIT" => Nth(f) = Nth(g) /\ Of(f) = Of(g)
        BY <1>10, <3>1
      <4>2. \A f \in Frames : f.id = <<[by |-> "p", no |-> Of(f)], Nth(f)>>
        BY DEF Frames, Ids, Of, Nth
      <4> QED
        BY <1>9, <4>1, <4>2
    <3> QED
      BY <1>6, <1>9, <3>1, <3>2, <3>3, <3>4
  <2> QED
    BY <1>9, <2>3, <2>4 DEF Given
<1>17. Sends' /\ Longer'
  BY <1>1 DEF TransportState, Sends, Longer
<1>18. Alone'
  <2>1. ASSUME state["p"] = "ready", NEW f \in Elements(s), f.cid = cid["p"]
        PROVE  /\ pc["p"] = "read" /\ Of(f) = Number
               /\ f.cmd \in {call["p"].cmd, "CONT", "ERROR"}
    BY <1>3, <1>10, <2>1 DEF TransportState, Alone
  <2> QED
    BY <1>1, <1>3, <1>9, <2>1 DEF TransportState, Alone
<1>19. NextIsPing'
  <2>1. ASSUME state["p"] = "suspect", NEW f \in Elements(s), f.cid = cid["p"], f.cmd = "PING"
        PROVE  pc["p"] = "read" /\ Of(f) = Number
    BY <1>3, <1>10, <2>1 DEF TransportState, NextIsPing
  <2> QED
    BY <1>1, <1>3, <1>9, <2>1 DEF TransportState, NextIsPing
<1>20. Collected' /\ Whole'
  <2>1. got["p"].of # <<>> => \A f \in Elements(s) : Of(f) # Number
    BY <1>3, <1>10 DEF TransportState, Collected
  <2> QED
    BY <1>1, <1>3, <1>9, <2>1 DEF TransportState, Collected, Whole, Transport!FramesFor
<1> QED
  BY <1>12, <1>13, <1>14, <1>15, <1>16, <1>17, <1>18, <1>19, <1>20 DEF TransportState

(* A frame goes to the queue, or is lost, or the oldest one is.            *)
LEMMA EmitKeeps ==
  ASSUME TransportState, Transport!Emit
  PROVE  TransportState'
<1> USE TransportConstants
<1>1. /\ UNCHANGED <<state, pc, cid, call, datasent, sequence, timeout, got, result>>
      /\ UNCHANGED <<inbox, jobs, channels>>
      /\ emitting # <<>> /\ emitting' = Tail(emitting)
  BY DEF Transport!Emit, Transport!progVars, Transport!locals
<1>2. PICK f : f = Head(emitting)
  OBVIOUS
<1>3. /\ emitting \in Seq(Frames) /\ queue["p"] \in Seq(Frames)
      /\ Increasing(emitting) /\ Increasing(queue["p"])
      /\ \A x \in Queued : \A g \in Emitted : Earlier(x, g)
  BY DEF TransportState, Flows, Ordered
<1>4. /\ f \in Frames /\ f \in Emitted /\ emitting' \in Seq(Frames) /\ Emitted' \subseteq Emitted
      /\ Increasing(emitting') /\ \A g \in Emitted' : Earlier(f, g)
  BY <1>1, <1>2, <1>3, ElementsTail, IncreasingTail DEF Emitted
<1>5. PICK q : q = queue'["p"]
  OBVIOUS
<1>6. /\ OfProgram(queue')
      /\ \/ q = queue["p"]
         \/ q = Append(queue["p"], f)
         \/ queue["p"] # <<>> /\ q = Append(Tail(queue["p"]), f)
  <2>1. PICK oldest \in BOOLEAN :
          queue' = [p \in {"p"} |-> IF state[p] = "closed" THEN queue[p]
                                    ELSE Transport!With(queue[p], f, oldest)]
    BY <1>2 DEF Transport!Emit
  <2>2. PICK v : v = IF state["p"] = "closed" THEN queue["p"]
                     ELSE Transport!With(queue["p"], f, oldest)
    OBVIOUS
  <2>3. queue' = [p \in {"p"} |-> v]
    BY <2>1, <2>2
  <2>4. queue'["p"] = v /\ OfProgram(queue')
    BY <2>3, ProgramsOwn
  <2>5. queue["p"] = <<>> => Len(queue["p"]) = 0
    BY EmptySeq
  <2> QED
    BY <1>5, <2>2, <2>4, <2>5 DEF Transport!With
<1>7. /\ q \in Seq(Frames) /\ Increasing(q) /\ Elements(q) \subseteq Queued \cup {f}
  <2>1. CASE q = queue["p"]
    BY <1>3, <2>1 DEF Queued
  <2>2. CASE q = Append(queue["p"], f)
    BY <1>3, <1>4, <2>2, ElementsAppend, IncreasingAppend DEF Queued
  <2>3. CASE queue["p"] # <<>> /\ q = Append(Tail(queue["p"]), f)
    <3>1. PICK t : t = Tail(queue["p"])
      OBVIOUS
    <3>2. t \in Seq(Frames) /\ Increasing(t) /\ Elements(t) \subseteq Queued
      BY <1>3, <2>3, <3>1, ElementsTail, IncreasingTail DEF Queued
    <3>3. \A g \in Elements(t) : Earlier(g, f)
      BY <1>3, <1>4, <3>2
    <3> QED
      <4>1. q = Append(t, f)
        BY <2>3, <3>1
      <4>2. q \in Seq(Frames) /\ Elements(q) = Elements(t) \cup {f}
        BY <1>4, <3>2, <4>1, ElementsAppend
      <4>3. Increasing(q)
        BY <1>4, <3>2, <3>3, <4>1, IncreasingAppend
      <4> QED
        BY <3>2, <4>2, <4>3
  <2> QED
    BY <1>6, <2>1, <2>2, <2>3
<1>8. /\ Queued' = Elements(q) /\ Pending' \subseteq Pending
      /\ UNCHANGED <<Owed, Number>>
      /\ \A x \in Queued' : \A g \in Emitted' : Earlier(x, g)
  <2>1. Queued' = Elements(q) /\ UNCHANGED <<Owed, Number>>
    BY <1>1, <1>5 DEF Queued, Owed, Number
  <2>2. Pending' \subseteq Pending
    BY <1>4, <1>7, <2>1 DEF Pending
  <2> QED
    BY <1>3, <1>4, <1>7, <2>1, <2>2
<1>9. Shaped' /\ Flows'
  BY <1>1, <1>4, <1>5, <1>6, <1>7 DEF TransportState, Shaped, Flows
<1>10. TransportTyped'
  BY <1>1, <1>8 DEF TransportState, TransportTyped, Transport!Lens
<1>11. Ordered'
  BY <1>1, <1>4, <1>5, <1>7, <1>8 DEF TransportState, Ordered
<1>12. Counted' /\ Given'
  BY <1>1, <1>8 DEF TransportState, Counted, Given, Unused
<1>13. Sends' /\ Alone' /\ NextIsPing' /\ Longer'
  BY <1>1, <1>8 DEF TransportState, Sends, Alone, NextIsPing, Longer
<1>14. Collected' /\ Whole'
  BY <1>1, <1>8 DEF TransportState, Collected, Whole, Transport!FramesFor
<1> QED
  BY <1>9, <1>10, <1>11, <1>12, <1>13, <1>14 DEF TransportState

LEMMA TransportStep ==
  ASSUME TransportInv, [Next]_vars
  PROVE  TransportInv'
<1> SUFFICES ASSUME part' = "transport" PROVE TransportState'
  BY DEF TransportInv
<1>1. part = "transport"
  BY DEF Next, vars, TransportAlone, OperationsAlone, BuildAlone, WireAlone, LibusbAlone,
         MacAlone, WinAlone
<1>2. TransportState
  BY <1>1 DEF TransportInv
<1>3. Transport!Next \/ UNCHANGED vars
  BY <1>1 DEF Next, OperationsAlone, BuildAlone, WireAlone, LibusbAlone, MacAlone, WinAlone
<1>4. CASE Transport!Next
  <2>1. \/ Transport!Open("p") \/ Transport!Call("p") \/ Transport!Send("p")
        \/ Transport!ReadTimeout("p") \/ Transport!ReadFails("p") \/ Transport!Read("p")
        \/ Transport!Answer \/ Transport!Emit
    BY <1>4 DEF Transport!Next
  <2> QED
    BY <1>2, <2>1, OpenKeeps, CallKeeps, SendKeeps, TimeoutKeeps, ReadFailsKeeps, ReadKeeps,
       AnswerKeeps, EmitKeeps
<1>5. CASE UNCHANGED vars
  <2>1. UNCHANGED <<part, Transport!vars>>
    BY <1>5 DEF vars, shared, transportOwn, Transport!vars, Transport!progVars,
                Transport!locals, Transport!devVars
  <2> QED
    BY <1>1, <2>1, TransportStutter DEF TransportInv
<1> QED
  BY <1>3, <1>4, <1>5

LEMMA TransportFine == TransportInv => AnswersMatch
<1> SUFFICES ASSUME TransportState
             PROVE  Transport!TypeOK /\ Transport!OneAnswer /\ Transport!OwnAnswer
  BY DEF TransportInv, AnswersMatch
<1> USE TransportConstants
<1>1. channels \in 0 .. MaxCalls /\ cid["p"] \in 0 .. MaxCalls
  BY FlowsHold DEF TransportState, TransportTyped, Counted
<1>2. \A k \in DOMAIN got["p"].of : got["p"].of[k] \in Transport!Calls \X Nat
  <2>1. PICK s \in Seq(Ids) : s = got["p"].of
    BY DEF TransportState, Flows
  <2>2. DOMAIN s = 1 .. Len(s) /\ Len(s) \in Nat
    BY LenProperties
  <2>3. CASE s = <<>>
    BY <2>1, <2>2, <2>3, EmptySeq
  <2>4. CASE s # <<>>
    <3>1. \A k \in 1 .. Len(s) : s[k] = <<[by |-> "p", no |-> Number], k>>
      BY <2>1, <2>4 DEF TransportState, Collected
    <3>2. \A k \in 1 .. Len(s) : s[k] \in Ids
      BY <2>2, ElementOfSeq
    <3>3. [by |-> "p", no |-> Number] \in Transport!Calls
      <4>1. 1 \in 1 .. Len(s)
        BY <2>2, <2>4, EmptySeq
      <4>2. <<[by |-> "p", no |-> Number], 1>> \in Ids
        BY <3>1, <3>2, <4>1
      <4>3. Number \in Nat \ {0}
        BY <4>2 DEF Ids
      <4> QED
        BY <4>3 DEF Transport!Calls, TransportState, TransportTyped
    <3>4. \A k \in 1 .. Len(s) : s[k] \in Transport!Calls \X Nat
      <4> SUFFICES ASSUME NEW k \in 1 .. Len(s) PROVE s[k] \in Transport!Calls \X Nat
        OBVIOUS
      <4>1. k \in Nat /\ s[k] = <<[by |-> "p", no |-> Number], k>>
        BY <2>2, <3>1
      <4> QED
        BY <3>3, <4>1
    <3> QED
      BY <2>1, <2>2, <3>4
  <2> QED
    BY <2>3, <2>4
<1>3. /\ OfProgram(state) /\ OfProgram(pc) /\ OfProgram(cid)
  BY DEF TransportState, Shaped
<1>4. Transport!TypeOK
  <2>1. state \in [{"p"} -> {"closed", "new", "ready", "suspect"}]
    BY <1>3 DEF OfProgram, TransportState, TransportTyped
  <2>2. pc \in [{"p"} -> {"idle", "send", "read"}]
    BY <1>3 DEF OfProgram, TransportState, TransportTyped
  <2>3. cid \in [{"p"} -> 0 .. MaxCalls]
    BY <1>1, <1>3 DEF OfProgram
  <2> QED
    BY <1>1, <1>2, <2>1, <2>2, <2>3
    DEF Transport!TypeOK, Transport!Channels, Transport!Commands, TransportState,
        TransportTyped, Number
<1>5. Transport!OneAnswer
  BY DEF Transport!OneAnswer, TransportState, Whole
<1>6. Transport!OwnAnswer
  BY DEF Transport!OwnAnswer, TransportState, Whole, Number
<1> QED
  BY <1>4, <1>5, <1>6

(* An answer that u2fh_sendrecv returns with U2FH_OK is put together from  *)
(* all the frames of one answer, in order, and it is the answer to the     *)
(* command that was just sent.                                             *)
THEOREM AnswersMatchAlways == Spec => []AnswersMatch
<1>1. Spec => []TransportInv
  BY TransportInitially, TransportStep, PTL DEF Spec
<1> QED
  BY <1>1, TransportFine, PTL

-----------------------------------------------------------------------------
(* An action on its way to the helper.  Sequences, of any elements.        *)

(* What is true of the first number, and of the next of a number it is     *)
(* true of, is true of all.                                                *)
LEMMA Induct ==
    ASSUME NEW S, 0 \in S, \A n \in Nat : n \in S => n + 1 \in S
    PROVE  Nat \subseteq S
<1> SUFFICES ASSUME Nat \ S # {} PROVE FALSE
  OBVIOUS
<1>1. \E m \in Nat \ S : \A n \in Nat \ S : ~(<<n, m>> \in OpToRel(<, Nat))
  BY WFMin, NatLessThanWellFounded, Zenon
<1>2. PICK m \in Nat \ S : \A n \in Nat \ S : ~(n < m)
  BY <1>1 DEF OpToRel
<1>3. m # 0 /\ m - 1 \in Nat /\ m - 1 < m
  BY <1>2
<1>4. m - 1 \in S
  BY <1>2, <1>3
<1>5. (m - 1) + 1 \in S
  BY <1>3, <1>4
<1> QED
  BY <1>2, <1>5

(* One sequence after another.                                             *)
LEMMA Concat ==
    ASSUME NEW S, NEW s \in Seq(S), NEW t \in Seq(S), NEW u, u = s \o t
    PROVE  /\ Len(s) \in Nat /\ Len(t) \in Nat
           /\ u \in Seq(S) /\ Len(u) = Len(s) + Len(t)
           /\ \A i \in 1 .. Len(s) : u[i] = s[i]
           /\ \A i \in 1 .. Len(t) : u[Len(s) + i] = t[i]
<1>1. Len(s) \in Nat /\ Len(t) \in Nat
  BY LenProperties
<1>2. /\ u \in Seq(S) /\ Len(u) = Len(s) + Len(t)
      /\ \A i \in 1 .. Len(s) + Len(t) :
            u[i] = IF i <= Len(s) THEN s[i] ELSE t[i - Len(s)]
  BY ConcatProperties
<1>3. ASSUME NEW i \in 1 .. Len(s) PROVE u[i] = s[i]
  BY <1>1, <1>2
<1>4. ASSUME NEW i \in 1 .. Len(t) PROVE u[Len(s) + i] = t[i]
  <2>1. /\ Len(s) + i \in 1 .. Len(s) + Len(t) /\ ~(Len(s) + i <= Len(s))
        /\ (Len(s) + i) - Len(s) = i
    BY <1>1
  <2> QED
    BY <1>2, <2>1
<1> QED
  BY <1>1, <1>2, <1>3, <1>4

(* A sequence is cut after its element n.                                  *)
LEMMA Cut ==
    ASSUME NEW S, NEW s \in Seq(S), NEW n \in 0 .. Len(s)
    PROVE  /\ SubSeq(s, 1, n) \in Seq(S) /\ Len(SubSeq(s, 1, n)) = n
           /\ \A k \in 1 .. n : SubSeq(s, 1, n)[k] = s[k]
           /\ SubSeq(s, n + 1, Len(s)) \in Seq(S)
           /\ Len(SubSeq(s, n + 1, Len(s))) = Len(s) - n
           /\ \A k \in 1 .. Len(s) - n : SubSeq(s, n + 1, Len(s))[k] = s[n + k]
<1>1. Len(s) \in Nat /\ \A k \in 1 .. Len(s) : s[k] \in S
  BY LenProperties, ElementOfSeq
<1>2. 1 \in Int /\ n \in Int /\ \A k \in 1 .. n : s[k] \in S
  BY <1>1
<1>3. /\ SubSeq(s, 1, n) \in Seq(S) /\ Len(SubSeq(s, 1, n)) = IF 1 <= n THEN n - 1 + 1 ELSE 0
      /\ \A k \in 1 .. n - 1 + 1 : SubSeq(s, 1, n)[k] = s[1 + k - 1]
  BY <1>2, SubSeqProperties
<1>4. n + 1 \in Int /\ Len(s) \in Int /\ \A k \in n + 1 .. Len(s) : s[k] \in S
  BY <1>1
<1>5. /\ SubSeq(s, n + 1, Len(s)) \in Seq(S)
      /\ Len(SubSeq(s, n + 1, Len(s))) =
             IF n + 1 <= Len(s) THEN Len(s) - (n + 1) + 1 ELSE 0
      /\ \A k \in 1 .. Len(s) - (n + 1) + 1 :
            SubSeq(s, n + 1, Len(s))[k] = s[(n + 1) + k - 1]
  BY <1>4, SubSeqProperties
<1>6. /\ \A k \in 1 .. n : k \in 1 .. n - 1 + 1 /\ 1 + k - 1 = k
      /\ (IF 1 <= n THEN n - 1 + 1 ELSE 0) = n
  BY <1>1
<1>7. /\ \A k \in 1 .. Len(s) - n :
            k \in 1 .. Len(s) - (n + 1) + 1 /\ (n + 1) + k - 1 = n + k
      /\ (IF n + 1 <= Len(s) THEN Len(s) - (n + 1) + 1 ELSE 0) = Len(s) - n
  BY <1>1
<1> QED
  BY <1>3, <1>5, <1>6, <1>7

-----------------------------------------------------------------------------
(* The sequences one after another: what FlattenSeq gives of the first n.  *)
Joined(seqs, n, f) == f = [i \in 1 .. n |-> IF i = 1 THEN seqs[i] ELSE f[i - 1] \o seqs[i]]

LEMMA JoinedExists ==
    ASSUME NEW seqs, NEW n \in Nat
    PROVE  \E f : Joined(seqs, n, f)
<1> DEFINE S == {k \in Nat : \E f : Joined(seqs, k, f)}
<1>1. 0 \in S
  <2>1. Joined(seqs, 0, [i \in 1 .. 0 |-> 0])
    BY DEF Joined
  <2> QED
    BY <2>1
<1>2. ASSUME NEW k \in Nat, k \in S PROVE k + 1 \in S
  <2>1. PICK f : Joined(seqs, k, f)
    BY <1>2
  <2> DEFINE last == IF k = 0 THEN seqs[k + 1] ELSE f[k] \o seqs[k + 1]
             g == [i \in 1 .. k + 1 |-> IF i = k + 1 THEN last ELSE f[i]]
  <2>2. ASSUME NEW i \in 1 .. k + 1
        PROVE  g[i] = IF i = 1 THEN seqs[i] ELSE g[i - 1] \o seqs[i]
    <3>1. CASE i = k + 1
      <4>1. CASE k = 0
        BY <3>1, <4>1
      <4>2. CASE k # 0
        <5>1. i # 1 /\ i - 1 = k /\ i - 1 \in 1 .. k + 1 /\ i - 1 # k + 1
          BY <3>1, <4>2
        <5>2. g[i - 1] = f[k] /\ g[i] = f[k] \o seqs[i]
          BY <3>1, <4>2, <5>1
        <5> QED
          BY <5>1, <5>2
      <4> QED
        BY <4>1, <4>2
    <3>2. CASE i # k + 1
      <4>1. i \in 1 .. k /\ g[i] = f[i]
        BY <3>2
      <4>2. f[i] = IF i = 1 THEN seqs[i] ELSE f[i - 1] \o seqs[i]
        BY <2>1, <4>1 DEF Joined
      <4>3. i # 1 => i - 1 \in 1 .. k + 1 /\ i - 1 # k + 1
        BY <4>1
      <4>4. i # 1 => g[i - 1] = f[i - 1]
        BY <4>3
      <4> QED
        BY <4>1, <4>2, <4>4
    <3> QED
      BY <3>1, <3>2
  <2>3. g = [i \in 1 .. k + 1 |-> g[i]]
    OBVIOUS
  <2> HIDE DEF g
  <2>4. Joined(seqs, k + 1, g)
    BY <2>2, <2>3, Zenon DEF Joined
  <2> QED
    BY <2>4
<1> HIDE DEF S
<1>3. n \in S
  BY <1>1, <1>2, Induct
<1> QED
  BY <1>3 DEF S

(* A recursive function.                                                   *)
LEMMA Flattened ==
    ASSUME NEW X, NEW seqs \in Seq(Seq(X))
    PROVE  \/ Len(seqs) = 0 /\ Wire!FlattenSeq(seqs) = <<>>
           \/ /\ Len(seqs) \in Nat \ {0}
              /\ \E f : Joined(seqs, Len(seqs), f) /\ Wire!FlattenSeq(seqs) = f[Len(seqs)]
<1> DEFINE flatten == CHOOSE f : Joined(seqs, Len(seqs), f)
<1>1. Len(seqs) \in Nat /\ (Len(seqs) = 0 => seqs = <<>>)
  BY EmptySeq, LenProperties
<1>2. Joined(seqs, Len(seqs), flatten)
  BY <1>1, JoinedExists
<1>3. Wire!FlattenSeq(seqs) = IF Len(seqs) = 0 THEN seqs ELSE flatten[Len(seqs)]
  BY DEF Wire!FlattenSeq, Joined
<1> QED
  BY <1>1, <1>2, <1>3

(* It is a sequence, each part follows the ones before.                    *)
Sums(P, n, lens) == P[0] = 0 /\ \A i \in 1 .. n : P[i] = P[i - 1] + lens[i]

LEMMA FlattenedTyped ==
    ASSUME NEW X, NEW seqs \in Seq(Seq(X))
    PROVE  Wire!FlattenSeq(seqs) \in Seq(X)
<1> SUFFICES ASSUME Len(seqs) # 0 PROVE Wire!FlattenSeq(seqs) \in Seq(X)
  BY Flattened, EmptySeq
<1> DEFINE L == Len(seqs)
<1>1. L \in Nat \ {0} /\ \A i \in 1 .. L : seqs[i] \in Seq(X)
  BY LenProperties, ElementOfSeq
<1>2. PICK f : Joined(seqs, L, f) /\ Wire!FlattenSeq(seqs) = f[L]
  BY Flattened
<1> HIDE DEF L
<1>3. \A i \in 1 .. L : f[i] = IF i = 1 THEN seqs[i] ELSE f[i - 1] \o seqs[i]
  BY <1>2 DEF Joined
<1> DEFINE S == {k \in Nat : k + 1 <= L => f[k + 1] \in Seq(X)}
<1>4. 0 \in S
  BY <1>1, <1>3
<1>5. ASSUME NEW k \in Nat, k \in S PROVE k + 1 \in S
  <2> SUFFICES ASSUME (k + 1) + 1 <= L PROVE f[(k + 1) + 1] \in Seq(X)
    OBVIOUS
  <2>1. /\ k + 1 <= L /\ (k + 1) + 1 \in 1 .. L /\ (k + 1) + 1 # 1
        /\ ((k + 1) + 1) - 1 = k + 1
    BY <1>1
  <2>2. f[k + 1] \in Seq(X) /\ f[(k + 1) + 1] = f[k + 1] \o seqs[(k + 1) + 1]
    BY <1>3, <1>5, <2>1
  <2> QED
    BY <1>1, <2>1, <2>2, ConcatProperties
<1> HIDE DEF S
<1>6. L - 1 \in Nat /\ (L - 1) + 1 = L /\ (L - 1) + 1 <= L
  BY <1>1
<1>7. L - 1 \in S
  BY <1>4, <1>5, <1>6, Induct
<1> QED
  BY <1>2, <1>6, <1>7 DEF S

LEMMA SumsGrow ==
    ASSUME NEW n \in Nat, NEW P, NEW lens, Sums(P, n, lens), \A i \in 1 .. n : lens[i] \in Nat
    PROVE  /\ \A k \in 0 .. n : P[k] \in Nat
           /\ \A k \in 0 .. n : \A i \in 0 .. k : P[i] <= P[k]
<1>1. P[0] = 0 /\ \A i \in 1 .. n : P[i] = P[i - 1] + lens[i]
  BY DEF Sums
<1> DEFINE S == {k \in Nat : k <= n => \A i \in 0 .. k : P[i] \in Nat /\ P[i] <= P[k]}
<1>2. 0 \in S
  BY <1>1
<1>3. ASSUME NEW k \in Nat, k \in S PROVE k + 1 \in S
  <2> SUFFICES ASSUME k + 1 <= n
               PROVE  \A i \in 0 .. k + 1 : P[i] \in Nat /\ P[i] <= P[k + 1]
    OBVIOUS
  <2>1. k <= n /\ k + 1 \in 1 .. n /\ (k + 1) - 1 = k
    OBVIOUS
  <2>2. k \in 0 .. k /\ \A i \in 0 .. k : P[i] \in Nat /\ P[i] <= P[k]
    BY <1>3, <2>1
  <2>3. P[k + 1] = P[k] + lens[k + 1] /\ lens[k + 1] \in Nat
    BY <1>1, <2>1
  <2>4. ASSUME NEW i \in 0 .. k + 1 PROVE P[i] \in Nat /\ P[i] <= P[k + 1]
    <3>1. CASE i = k + 1
      BY <2>2, <2>3, <3>1
    <3>2. CASE i # k + 1
      <4>1. i \in 0 .. k
        BY <3>2
      <4>2. P[i] \in Nat /\ P[i] <= P[k] /\ P[k] \in Nat
        BY <2>2, <4>1
      <4> QED
        BY <2>3, <4>2
    <3> QED
      BY <3>1, <3>2
  <2> QED
    BY <2>4
<1> HIDE DEF S
<1>4. ASSUME NEW k \in 0 .. n PROVE k \in S /\ k <= n /\ k \in 0 .. k
  BY <1>2, <1>3, Induct
<1> QED
  BY <1>4 DEF S

LEMMA FlattenedParts ==
    ASSUME NEW X, NEW seqs \in Seq(Seq(X)), NEW P,
           Sums(P, Len(seqs), [i \in 1 .. Len(seqs) |-> Len(seqs[i])])
    PROVE  /\ Len(Wire!FlattenSeq(seqs)) = P[Len(seqs)]
           /\ \A i \in 1 .. Len(seqs) : \A j \in 1 .. Len(seqs[i]) :
                 Wire!FlattenSeq(seqs)[P[i - 1] + j] = seqs[i][j]
<1> DEFINE L == Len(seqs)
           lens == [i \in 1 .. L |-> Len(seqs[i])]
<1>1. L \in Nat /\ \A i \in 1 .. L : seqs[i] \in Seq(X)
  BY LenProperties, ElementOfSeq
<1>2. CASE L = 0
  <2>1. Wire!FlattenSeq(seqs) = <<>>
    BY <1>2, Flattened
  <2>2. P[Len(seqs)] = 0 /\ 1 .. Len(seqs) = {}
    BY <1>2 DEF Sums
  <2> QED
    BY <2>1, <2>2, EmptySeq
<1>3. CASE L # 0
  <2>1. PICK f : Joined(seqs, L, f) /\ Wire!FlattenSeq(seqs) = f[L]
    BY <1>3, Flattened
  <2>2. Sums(P, L, lens)
    OBVIOUS
  <2>3. \A i \in 1 .. L : Len(seqs[i]) \in Nat /\ lens[i] = Len(seqs[i])
    BY <1>1, LenProperties
  <2> HIDE DEF L, lens
  <2>4. \A i \in 1 .. L : f[i] = IF i = 1 THEN seqs[i] ELSE f[i - 1] \o seqs[i]
    BY <2>1 DEF Joined
  <2>5. /\ \A k \in 0 .. L : P[k] \in Nat
        /\ \A k \in 0 .. L : \A i \in 0 .. k : P[i] <= P[k]
    BY <1>1, <2>2, <2>3, SumsGrow
  <2>6. P[0] = 0 /\ \A i \in 1 .. L : P[i] = P[i - 1] + Len(seqs[i])
    BY <2>2, <2>3 DEF Sums
  <2> DEFINE Right(k) == /\ f[k] \in Seq(X) /\ Len(f[k]) = P[k]
                         /\ \A i \in 1 .. k : \A j \in 1 .. Len(seqs[i]) :
                               f[k][P[i - 1] + j] = seqs[i][j]
             S == {k \in Nat : k + 1 <= L => Right(k + 1)}
  <2>7. 0 \in S
    <3>1. 1 \in 1 .. L /\ f[1] = seqs[1] /\ P[1] = Len(seqs[1]) /\ seqs[1] \in Seq(X)
      BY <1>1, <1>3, <2>3, <2>4, <2>6
    <3>2. \A i \in 1 .. 1 : i = 1 /\ i - 1 = 0
      OBVIOUS
    <3>3. \A j \in 1 .. Len(seqs[1]) : P[0] + j = j
      BY <2>6
    <3> QED
      BY <3>1, <3>2, <3>3
  <2>8. ASSUME NEW k \in Nat, k \in S PROVE k + 1 \in S
    <3> SUFFICES ASSUME (k + 1) + 1 <= L PROVE Right((k + 1) + 1)
      OBVIOUS
    <3> DEFINE n == (k + 1) + 1
    <3>1. /\ k + 1 <= L /\ n \in 1 .. L /\ n # 1 /\ n - 1 = k + 1 /\ n \in Nat
          /\ k + 1 \in 1 .. L /\ \A i \in 1 .. n : i \in 1 .. L /\ (i # n => i \in 1 .. k + 1)
      BY <1>1
    <3>2. Right(k + 1) /\ f[n] = f[k + 1] \o seqs[n]
      BY <2>4, <2>8, <3>1
    <3> HIDE DEF n
    <3>6. f[k + 1] \in Seq(X) /\ seqs[n] \in Seq(X) /\ Len(f[k + 1]) = P[k + 1]
      BY <1>1, <3>1, <3>2
    <3> HIDE DEF Right
    <3>7. f[n] = f[k + 1] \o seqs[n]
      BY <3>2
    <3>3. /\ f[n] \in Seq(X) /\ Len(f[n]) = P[k + 1] + Len(seqs[n])
          /\ \A m \in 1 .. P[k + 1] + Len(seqs[n]) :
                f[n][m] = IF m <= P[k + 1] THEN f[k + 1][m] ELSE seqs[n][m - P[k + 1]]
      <4> DEFINE first == f[k + 1]
                 last == seqs[n]
      <4>1. first \in Seq(X) /\ last \in Seq(X) /\ f[n] = first \o last /\ Len(first) = P[k + 1]
        BY <3>6, <3>7
      <4> HIDE DEF first, last
      <4>2. first \in Seq(X) /\ last \in Seq(X)
        BY <4>1
      <4>3. /\ first \o last \in Seq(X) /\ Len(first \o last) = Len(first) + Len(last)
            /\ \A m \in 1 .. Len(first) + Len(last) :
                  (first \o last)[m] = IF m <= Len(first) THEN first[m] ELSE last[m - Len(first)]
        BY <4>2, ConcatProperties
      <4>4. /\ f[n] \in Seq(X) /\ Len(f[n]) = P[k + 1] + Len(last)
            /\ \A m \in 1 .. P[k + 1] + Len(last) :
                  f[n][m] = IF m <= P[k + 1] THEN first[m] ELSE last[m - P[k + 1]]
        BY <4>1, <4>3, Zenon
      <4> QED
        BY <4>4 DEF first, last
    <3>4. P[n] = P[k + 1] + Len(seqs[n])
      BY <2>6, <3>1
    <3>5. ASSUME NEW i \in 1 .. n, NEW j \in 1 .. Len(seqs[i])
          PROVE  f[n][P[i - 1] + j] = seqs[i][j]
      <4>1. i \in 1 .. L /\ Len(seqs[i]) \in Nat /\ j \in Nat /\ j >= 1 /\ j <= Len(seqs[i])
        BY <2>3, <3>1
      <4>2. i - 1 \in 0 .. L /\ P[i - 1] \in Nat /\ P[k + 1] \in Nat
        BY <1>1, <2>5, <3>1, <4>1
      <4>5. Len(seqs[n]) \in Nat
        BY <2>3, <3>1
      <4>3. CASE i = n
        <5>1. P[i - 1] = P[k + 1]
          BY <3>1, <4>3
        <5>2. /\ P[k + 1] + j \in 1 .. P[k + 1] + Len(seqs[n]) /\ ~(P[k + 1] + j <= P[k + 1])
              /\ (P[k + 1] + j) - P[k + 1] = j
          <6>1. ASSUME NEW p \in Nat, NEW l \in Nat, j <= l
                PROVE  p + j \in 1 .. p + l /\ ~(p + j <= p) /\ (p + j) - p = j
            BY <4>1, <6>1
          <6> QED
            BY <4>1, <4>2, <4>3, <4>5, <6>1
        <5> QED
          BY <3>3, <4>3, <5>1, <5>2
      <4>4. CASE i # n
        <5>1. i \in 1 .. k + 1 /\ i \in 0 .. k + 1 /\ k + 1 \in 0 .. L
          BY <3>1, <4>4
        <5>2. P[i] <= P[k + 1] /\ P[i] = P[i - 1] + Len(seqs[i])
          BY <2>5, <2>6, <4>1, <5>1
        <5>3. P[i - 1] + j \in 1 .. P[k + 1] + Len(seqs[n]) /\ P[i - 1] + j <= P[k + 1]
          <6>1. ASSUME NEW a \in Nat, NEW c \in Nat, NEW l \in Nat, NEW q \in Nat,
                       a + l <= c, j <= l
                PROVE  a + j \in 1 .. c + q /\ a + j <= c
            BY <4>1, <6>1
          <6> QED
            BY <4>1, <4>2, <4>5, <5>2, <6>1
        <5>4. f[k + 1][P[i - 1] + j] = seqs[i][j]
          BY <3>2, <5>1 DEF Right
        <5> QED
          BY <3>3, <5>3, <5>4
      <4> QED
        BY <4>3, <4>4
    <3> QED
      BY <3>3, <3>4, <3>5 DEF Right, n
  <2> HIDE DEF S
  <2>9. L - 1 \in S
    BY <1>1, <1>3, <2>7, <2>8, Induct
  <2>10. (L - 1) + 1 = L /\ (L - 1) + 1 <= L
    BY <1>1
  <2>11. Right(L)
    BY <2>9, <2>10 DEF S
  <2> QED
    BY <2>1, <2>11 DEF L
<1> QED
  BY <1>2, <1>3

-----------------------------------------------------------------------------
(* The stream.                                                             *)
Units == [op : {"r", "s"}] \cup [field : Nat] \cup [text : Nat, at : Nat]

Sent(r) == SubSeq(r.challenges, 1, IF Len(r.challenges) > SenderMax
                                   THEN SenderMax ELSE Len(r.challenges))
Stream == Wire!challengesToStr(request)

LEMMA WireConstants ==
    /\ Modulus \in Nat \ {0} /\ SenderMax \in Nat /\ ReaderMax \in Nat \ {0}
    /\ ReaderMax <= SenderMax /\ SenderMax < Modulus
    /\ \A n \in Nat : n % Modulus \in 0 .. Modulus - 1 /\ (n < Modulus => n % Modulus = n)
<1>1. /\ Modulus \in Nat /\ SenderMax \in Nat /\ ReaderMax \in Nat \ {0}
      /\ ReaderMax <= SenderMax /\ SenderMax < Modulus
  BY CallsAssumption DEF Wire!WireFormatAssumption
<1>2. Modulus \in Nat \ {0}
  BY <1>1
<1>3. ASSUME NEW n \in Nat
      PROVE  n % Modulus \in 0 .. Modulus - 1 /\ (n < Modulus => n % Modulus = n)
  BY <1>2
<1> QED
  BY <1>1, <1>2, <1>3

(* A length that fits its two bytes is read as it was written.             *)
LEMMA WireKept == \A n \in Nat : n < Modulus => n % Modulus = n
<1>1. Modulus \in Nat /\ Modulus > 0
  BY WireConstants
<1>2. ASSUME NEW n \in Nat, n < Modulus PROVE n % Modulus = n
  BY <1>1, <1>2
<1> QED
  BY <1>2

(* Bytes and units of the texts of a sequence.                             *)
Sizes(texts) == [i \in 1 .. Len(texts) |-> texts[i].bytes]

LEMMA TextFacts ==
    ASSUME NEW t \in Wire!Texts
    PROVE  t.units \in Nat /\ t.bytes \in Nat
BY WireConstants DEF Wire!Texts

LEMMA SentFacts ==
    ASSUME NEW r \in WireRequests
    PROVE  /\ r.op \in {"r", "s"} /\ r.origin.units \in Nat /\ r.origin.bytes \in Nat
           /\ r.challenges \in Seq(Wire!Texts) /\ Len(r.challenges) \in Nat
           /\ Sent(r) \in Seq(Wire!Texts) /\ Len(Sent(r)) \in 0 .. SenderMax
           /\ Len(Sent(r)) = IF Len(r.challenges) > SenderMax
                             THEN SenderMax ELSE Len(r.challenges)
           /\ \A i \in 1 .. Len(Sent(r)) :
                 /\ i \in 1 .. Len(r.challenges) /\ Sent(r)[i] = r.challenges[i]
                 /\ Sent(r)[i].units \in Nat /\ Sent(r)[i].bytes \in Nat
<1>1. /\ r.op \in {"r", "s"} /\ r.origin \in Wire!Texts
      /\ r.challenges \in Seq(Wire!Texts) /\ SenderMax \in Nat
  BY CallsAssumption DEF Wire!WireFormatAssumption
<1> DEFINE n == IF Len(r.challenges) > SenderMax THEN SenderMax ELSE Len(r.challenges)
<1>4. /\ n \in Nat /\ n <= Len(r.challenges) /\ n <= SenderMax /\ Len(r.challenges) \in Nat
      /\ \A i \in 1 .. n : i \in 1 .. Len(r.challenges) /\ r.challenges[i] \in Wire!Texts
  BY <1>1, LenProperties, ElementOfSeq
<1>5. Sent(r) = SubSeq(r.challenges, 1, n)
  BY DEF Sent
<1> HIDE DEF n
<1>6. /\ Sent(r) \in Seq(Wire!Texts) /\ Len(Sent(r)) = n
      /\ \A i \in 1 .. n : Sent(r)[i] = r.challenges[i]
  BY <1>4, <1>5, SubSeqProperties
<1>7. r.origin.units \in Nat /\ r.origin.bytes \in Nat
  BY <1>1, TextFacts
<1>8. ASSUME NEW i \in 1 .. Len(Sent(r))
      PROVE  /\ i \in 1 .. Len(r.challenges) /\ Sent(r)[i] = r.challenges[i]
             /\ Sent(r)[i].units \in Nat /\ Sent(r)[i].bytes \in Nat
  BY <1>4, <1>6, TextFacts
<1>9. Len(Sent(r)) \in 0 .. SenderMax
  BY <1>1, <1>4, <1>6
<1> QED
  BY <1>1, <1>4, <1>6, <1>7, <1>8, <1>9, Zenon DEF n

LEMMA BytesFacts ==
    ASSUME NEW i \in Nat, NEW n \in Nat
    PROVE  /\ Wire!Bytes(i, n) \in Seq(Units) /\ Len(Wire!Bytes(i, n)) = n
           /\ \A j \in 1 .. n : Wire!Bytes(i, n)[j] = [text |-> i, at |-> j]
<1>1. \A j \in 1 .. n : [text |-> i, at |-> j] \in Units
  BY DEF Units
<1> QED
  BY <1>1 DEF Wire!Bytes

LEMMA ContentsFacts ==
    ASSUME NEW r \in WireRequests
    PROVE  LET ch == Sent(r)
               all == Wire!FlattenSeq([i \in DOMAIN ch |-> Wire!Bytes(i, ch[i].bytes)])
           IN  /\ all \in Seq(Units) /\ Wire!Contents(r, ch) = Wire!Bytes(0, r.origin.bytes) \o all
               /\ \A P : Sums(P, Len(ch), Sizes(ch)) =>
                     \A i \in 1 .. Len(ch) : \A j \in 1 .. ch[i].bytes :
                        /\ P[i - 1] + j \in 1 .. Len(all)
                        /\ all[P[i - 1] + j] = [text |-> i, at |-> j]
<1> DEFINE ch == Sent(r)
           seqs == [i \in DOMAIN ch |-> Wire!Bytes(i, ch[i].bytes)]
<1>1. Len(ch) \in Nat /\ DOMAIN ch = 1 .. Len(ch) /\ \A i \in 1 .. Len(ch) : ch[i].bytes \in Nat
  BY SentFacts, LenProperties
<1> HIDE DEF ch
<1>2. ASSUME NEW i \in 1 .. Len(ch)
      PROVE  /\ seqs[i] \in Seq(Units) /\ Len(seqs[i]) = ch[i].bytes
             /\ \A j \in 1 .. ch[i].bytes : seqs[i][j] = [text |-> i, at |-> j]
  <2>1. seqs[i] = Wire!Bytes(i, ch[i].bytes) /\ i \in Nat /\ ch[i].bytes \in Nat
    BY <1>1
  <2> HIDE DEF seqs
  <2>2. /\ Wire!Bytes(i, ch[i].bytes) \in Seq(Units) /\ Len(Wire!Bytes(i, ch[i].bytes)) = ch[i].bytes
        /\ \A j \in 1 .. ch[i].bytes : Wire!Bytes(i, ch[i].bytes)[j] = [text |-> i, at |-> j]
    BY <2>1, BytesFacts
  <2> QED
    BY <2>1, <2>2
<1>3. seqs \in Seq(Seq(Units)) /\ Len(seqs) = Len(ch)
  BY <1>1, <1>2
<1> HIDE DEF seqs
<1>4. Wire!FlattenSeq(seqs) \in Seq(Units) /\ Len(Wire!FlattenSeq(seqs)) \in Nat
  BY <1>3, FlattenedTyped, LenProperties
<1>5. ASSUME NEW P, Sums(P, Len(ch), Sizes(ch)), NEW i \in 1 .. Len(ch), NEW j \in 1 .. ch[i].bytes
      PROVE  /\ P[i - 1] + j \in 1 .. Len(Wire!FlattenSeq(seqs))
             /\ Wire!FlattenSeq(seqs)[P[i - 1] + j] = [text |-> i, at |-> j]
  <2>1. Sums(P, Len(seqs), [k \in 1 .. Len(seqs) |-> Len(seqs[k])])
    BY <1>2, <1>3, <1>5 DEF Sums, Sizes
  <2>2. /\ Len(Wire!FlattenSeq(seqs)) = P[Len(seqs)]
        /\ \A k \in 1 .. Len(seqs) : \A l \in 1 .. Len(seqs[k]) :
              Wire!FlattenSeq(seqs)[P[k - 1] + l] = seqs[k][l]
    <3>1. seqs \in Seq(Seq(Units))
      BY <1>3
    <3> QED
      BY <2>1, <3>1, FlattenedParts, SMTT(40)
  <2>3. /\ \A k \in 0 .. Len(ch) : P[k] \in Nat
        /\ \A k \in 0 .. Len(ch) : \A l \in 0 .. k : P[l] <= P[k]
    <3>1. \A k \in 1 .. Len(ch) : Sizes(ch)[k] \in Nat
      BY <1>1 DEF Sizes
    <3> QED
      BY <1>1, <1>5, <3>1, SumsGrow
  <2>4. P[i] = P[i - 1] + ch[i].bytes
    BY <1>5 DEF Sums, Sizes
  <2>5. i - 1 \in 0 .. Len(ch) /\ i \in 0 .. Len(ch) /\ Len(ch) \in 0 .. Len(ch)
    BY <1>1
  <2>6. P[i - 1] \in Nat /\ P[i] <= P[Len(ch)] /\ P[Len(ch)] \in Nat
    BY <2>3, <2>5
  <2>7. P[i - 1] + j \in 1 .. P[Len(ch)]
    <3>1. ASSUME NEW a \in Nat, NEW l \in Nat, NEW q \in Nat, a + l <= q, j \in 1 .. l
          PROVE  a + j \in 1 .. q
      BY <3>1
    <3>2. ch[i].bytes \in Nat /\ j \in 1 .. ch[i].bytes /\ P[i - 1] + ch[i].bytes <= P[Len(ch)]
      BY <1>1, <2>4, <2>6
    <3> QED
      BY <2>6, <3>1, <3>2
  <2>8. Wire!FlattenSeq(seqs)[P[i - 1] + j] = seqs[i][j]
    BY <1>2, <1>3, <2>2
  <2>9. seqs[i][j] = [text |-> i, at |-> j]
    BY <1>2
  <2> QED
    BY <1>3, <2>2, <2>7, <2>8, <2>9
<1> QED
  BY <1>4, <1>5 DEF Wire!Contents, ch, seqs

LEMMA StreamFacts ==
    ASSUME NEW r \in WireRequests
    PROVE  LET s == Wire!challengesToStr(r)
               n == Len(Sent(r))
           IN  /\ s \in Seq(Units) /\ Len(s) \in Nat
               /\ s[1] = [op |-> r.op] /\ s[2] = Wire!Field(r.origin.units) /\ s[3] = Wire!Field(n)
               /\ \A i \in 1 .. n : s[3 + i] = Wire!Field(Sent(r)[i].units)
               /\ \A j \in 1 .. r.origin.bytes : s[3 + n + j] = [text |-> 0, at |-> j]
               /\ \A P : Sums(P, n, Sizes(Sent(r))) =>
                     \A i \in 1 .. n : \A j \in 1 .. Sent(r)[i].bytes :
                        s[3 + n + r.origin.bytes + (P[i - 1] + j)] = [text |-> i, at |-> j]
<1> DEFINE ch == Sent(r)
           n == Len(ch)
           all == Wire!FlattenSeq([i \in DOMAIN ch |-> Wire!Bytes(i, ch[i].bytes)])
           head == <<[op |-> r.op], Wire!Field(r.origin.units), Wire!Field(n)>>
           fields == [i \in DOMAIN ch |-> Wire!Field(ch[i].units)]
           s == Wire!challengesToStr(r)
<1>1. /\ n \in Nat /\ DOMAIN ch = 1 .. n 
      /\ \A i \in 1 .. n : ch[i].units \in Nat /\ ch[i].bytes \in Nat
      /\ r.op \in {"r", "s"} /\ r.origin.units \in Nat /\ r.origin.bytes \in Nat
  BY SentFacts, LenProperties
<1>2. s = (head \o fields) \o (Wire!Bytes(0, r.origin.bytes) \o all)
  BY ContentsFacts, Zenon DEF Wire!challengesToStr, Sent
<1>3. /\ all \in Seq(Units)
      /\ \A P : Sums(P, n, Sizes(ch)) =>
            \A i \in 1 .. n : \A j \in 1 .. ch[i].bytes :
               /\ P[i - 1] + j \in 1 .. Len(all)
               /\ all[P[i - 1] + j] = [text |-> i, at |-> j]
  BY ContentsFacts
<1> HIDE DEF ch, all, s
<1> DEFINE bytes == Wire!Bytes(0, r.origin.bytes)
<1>4. /\ bytes \in Seq(Units) /\ Len(bytes) = r.origin.bytes
      /\ \A j \in 1 .. r.origin.bytes : bytes[j] = [text |-> 0, at |-> j]
  BY <1>1, BytesFacts
<1>5. \A m \in Nat : Wire!Field(m) \in Units
  <2>1. \A m \in Nat : m % Modulus \in Nat
    BY WireConstants
  <2> QED
    BY <2>1 DEF Wire!Field, Units
<1>6. /\ head \in Seq(Units) /\ Len(head) = 3
      /\ head[1] = [op |-> r.op] /\ head[2] = Wire!Field(r.origin.units) /\ head[3] = Wire!Field(n)
  <2>1. [op |-> r.op] \in Units
    BY <1>1 DEF Units
  <2> QED
    BY <1>1, <1>5, <2>1
<1>7. /\ fields \in Seq(Units) /\ Len(fields) = n
      /\ \A i \in 1 .. n : fields[i] = Wire!Field(ch[i].units)
  BY <1>1, <1>5
<1> HIDE DEF head, fields, bytes
<1> DEFINE front == head \o fields
           back == bytes \o all
<1> HIDE DEF n
<1>8. /\ front \in Seq(Units) /\ Len(front) = 3 + n
      /\ \A i \in 1 .. 3 : front[i] = head[i]
      /\ \A i \in 1 .. n : front[3 + i] = fields[i]
  <2>1. front = head \o fields
    OBVIOUS
  <2> HIDE DEF front
  <2>2. /\ front \in Seq(Units) /\ Len(front) = Len(head) + Len(fields) /\ Len(fields) \in Nat
        /\ \A i \in 1 .. Len(head) : front[i] = head[i]
        /\ \A i \in 1 .. Len(fields) : front[Len(head) + i] = fields[i]
    <3>1. head \in Seq(Units) /\ fields \in Seq(Units)
      BY <1>6, <1>7
    <3> QED
      BY <2>1, <3>1, Concat
  <2> QED
    BY <1>6, <1>7, <2>2
<1>9. /\ back \in Seq(Units) /\ Len(back) = r.origin.bytes + Len(all) /\ Len(all) \in Nat
      /\ \A j \in 1 .. r.origin.bytes : back[j] = bytes[j]
      /\ \A j \in 1 .. Len(all) : back[r.origin.bytes + j] = all[j]
  <2>1. back = bytes \o all
    OBVIOUS
  <2> HIDE DEF back
  <2>2. /\ back \in Seq(Units) /\ Len(back) = Len(bytes) + Len(all) /\ Len(all) \in Nat
        /\ \A i \in 1 .. Len(bytes) : back[i] = bytes[i]
        /\ \A i \in 1 .. Len(all) : back[Len(bytes) + i] = all[i]
    <3>1. bytes \in Seq(Units) /\ all \in Seq(Units)
      BY <1>3, <1>4
    <3> QED
      BY <2>1, <3>1, Concat
  <2> QED
    BY <1>3, <1>4, <2>2
<1>10. s = front \o back
  BY <1>2 DEF bytes, head, fields
<1> HIDE DEF front, back
<1>11. /\ s \in Seq(Units) /\ Len(s) = (3 + n) + (r.origin.bytes + Len(all))
       /\ \A i \in 1 .. 3 + n : s[i] = front[i]
       /\ \A j \in 1 .. r.origin.bytes + Len(all) : s[(3 + n) + j] = back[j]
  <2>1. s = front \o back
    BY <1>10
  <2>2. /\ s \in Seq(Units) /\ Len(s) = Len(front) + Len(back) /\ Len(back) \in Nat
        /\ \A i \in 1 .. Len(front) : s[i] = front[i]
        /\ \A i \in 1 .. Len(back) : s[Len(front) + i] = back[i]
    <3>1. front \in Seq(Units) /\ back \in Seq(Units)
      BY <1>8, <1>9
    <3> QED
      BY <2>1, <3>1, Concat
  <2> QED
    BY <1>8, <1>9, <2>2
<1>12. ASSUME NEW i \in 1 .. 3 PROVE s[i] = head[i]
  <2>1. i \in 1 .. 3 + n
    BY <1>1
  <2> QED
    BY <1>8, <1>11, <2>1
<1>13. ASSUME NEW i \in 1 .. n PROVE s[3 + i] = Wire!Field(ch[i].units)
  <2>1. 3 + i \in 1 .. 3 + n
    BY <1>1
  <2> QED
    BY <1>7, <1>8, <1>11, <2>1
<1>15. ASSUME NEW j \in 1 .. r.origin.bytes PROVE s[3 + n + j] = [text |-> 0, at |-> j]
  <2>1. j \in 1 .. r.origin.bytes + Len(all)
    BY <1>1, <1>9
  <2>2. back[j] = bytes[j] /\ bytes[j] = [text |-> 0, at |-> j]
    BY <1>4, <1>9
  <2>3. s[(3 + n) + j] = back[j]
    BY <1>11, <2>1
  <2> QED
    BY <2>2, <2>3
<1>16. ASSUME NEW P, Sums(P, n, Sizes(ch)), NEW i \in 1 .. n, NEW j \in 1 .. ch[i].bytes
       PROVE  s[3 + n + r.origin.bytes + (P[i - 1] + j)] = [text |-> i, at |-> j]
  <2> DEFINE at == P[i - 1] + j
  <2>1. at \in 1 .. Len(all) /\ all[at] = [text |-> i, at |-> j]
    BY <1>3, <1>16 DEF n
  <2> HIDE DEF at
  <2>2. /\ r.origin.bytes + at \in 1 .. r.origin.bytes + Len(all)
        /\ 3 + n + r.origin.bytes + at = (3 + n) + (r.origin.bytes + at)
    <3>1. ASSUME NEW a \in Nat, NEW c \in Nat, NEW l \in Nat, NEW p \in 1 .. l
          PROVE  a + p \in 1 .. a + l /\ 3 + c + a + p = (3 + c) + (a + p)
      BY <3>1
    <3>2. r.origin.bytes \in Nat /\ n \in Nat /\ Len(all) \in Nat /\ at \in 1 .. Len(all)
      BY <1>1, <1>9, <2>1
    <3> QED
      BY <3>1, <3>2, Zenon
  <2>3. s[(3 + n) + (r.origin.bytes + at)] = all[at]
    BY <1>9, <1>11, <2>1, <2>2
  <2> QED
    BY <2>1, <2>2, <2>3 DEF at
<1>17. Len(s) \in Nat /\ 1 \in 1 .. 3 /\ 2 \in 1 .. 3 /\ 3 \in 1 .. 3
  BY <1>1, <1>9, <1>11
<1>18. s[1] = [op |-> r.op] /\ s[2] = Wire!Field(r.origin.units) /\ s[3] = Wire!Field(n)
  BY <1>6, <1>12, <1>17
<1> QED
  BY <1>11, <1>13, <1>15, <1>16, <1>17, <1>18, Zenon DEF ch, n, s

-----------------------------------------------------------------------------
(* What read_action knows.                                                 *)
Ran == action \in {"r", "s"}
Laid == pc \in {"domain", "challenges"} \/ (pc = "lengths" /\ action = "none")

WTyped ==
    /\ Wire!TypeOK
    /\ unsent \in Seq(Units) /\ pipe \in Seq(Units) /\ got \in Seq(Units)
    /\ chars \in Seq(Units)

(* The lengths are those of the request, in the digits of a field.         *)
WLengths ==
    /\ pc \in {"op", "head"} => size = 0
    /\ pc \notin {"op", "head"} =>
          /\ count = Len(Sent(request)) /\ count \in 1 .. ReaderMax - 1
          /\ Len(lengths) \in 1 .. count + 1
          /\ lengths[1] = request.origin.units % Modulus
          /\ \A i \in 1 .. Len(lengths) - 1 : lengths[i + 1] = Sent(request)[i].units % Modulus
    /\ pc \in {"domain", "challenges"} => Len(lengths) = count + 1
    /\ pc = "lengths" /\ action = "none" => Len(lengths) <= count
    /\ Laid => \A i \in 1 .. Len(lengths) : lengths[i] # 0

(* What was read so far, and will be read before the next step.            *)
Base ==
    CASE pc = "op" -> 0
      [] pc = "head" -> 1
      [] pc = "lengths" -> 2 + Len(lengths)
      [] pc = "domain" -> 3 + count
      [] OTHER -> 2 + count + starts[Len(starts)]
Expected ==
    CASE pc = "op" -> 1
      [] pc = "head" -> 2
      [] pc = "lengths" -> 1
      [] pc = "domain" -> lengths[1]
      [] OTHER -> lengths[Len(starts) + 1]

(* got, pipe and unsent are the stream from there on.                      *)
WPosition ==
    action = "none" =>
        /\ Len(got) + need = Expected
        /\ \A k \in 1 .. Len(got) : got[k] = Stream[Base + k]
        /\ \A k \in 1 .. Len(pipe) : pipe[k] = Stream[Base + Len(got) + k]
        /\ \A k \in 1 .. Len(unsent) : unsent[k] = Stream[Base + Len(got) + Len(pipe) + k]

(* The lengths of the challenges are added up.                             *)
Rest == [i \in 1 .. Len(lengths) - 1 |-> lengths[i + 1]]
WSize ==
    Laid => \E P : /\ Sums(P, Len(lengths) - 1, Rest)
                   /\ size = IF pc = "lengths" THEN P[Len(lengths) - 1]
                             ELSE lengths[1] + P[count] + count + 1

(* Each challenge begins where the one before ends.                        *)
WStarts ==
    /\ pc # "challenges" => Len(starts) = 0
    /\ pc = "challenges" =>
          /\ Len(starts) \in 1 .. count
          /\ starts[1] = lengths[1] + 1
          /\ \A i \in 1 .. Len(starts) : starts[i] >= lengths[1] + 1
          /\ \A i \in 1 .. Len(starts) - 1 : starts[i + 1] = starts[i] + lengths[i + 1]

(* What was read is in its place.                                          *)
Settled == IF Ran THEN Len(chars) - 1 ELSE starts[Len(starts)]
WChars ==
    /\ Ran => /\ pc = "challenges" /\ action = request.op
              /\ Len(starts) = count
              /\ Len(chars) = starts[count] + lengths[count + 1] + 1
              /\ chars[Len(chars)] = Wire!Zero
    /\ pc = "challenges" =>
          /\ Len(chars) >= starts[Len(starts)]
          /\ \A k \in 1 .. lengths[1] : chars[k] = Stream[3 + count + k]
          /\ chars[lengths[1] + 1] = Wire!Zero
          /\ \A k \in lengths[1] + 2 .. Settled : chars[k] = Stream[2 + count + k]

WInv == WTyped /\ WLengths /\ WPosition /\ WSize /\ WStarts /\ WChars

LEMMA WireTypes ==
    ASSUME WTyped
    PROVE  /\ request \in WireRequests /\ need \in Nat /\ count \in Nat /\ size \in Nat
           /\ pc \in {"op", "head", "lengths", "domain", "challenges"}
           /\ action \in {"none", "eof", "r", "s"}
           /\ Len(got) \in Nat /\ Len(pipe) \in Nat /\ Len(unsent) \in Nat /\ Len(chars) \in Nat
           /\ lengths \in Seq(Nat) /\ Len(lengths) \in Nat
           /\ \A i \in 1 .. Len(lengths) : lengths[i] \in Nat
           /\ starts \in Seq(Nat) /\ Len(starts) \in Nat
           /\ \A i \in 1 .. Len(starts) : starts[i] \in Nat
<1>1. lengths \in Seq(0 .. Modulus - 1) /\ 0 .. Modulus - 1 \subseteq Nat /\ starts \in Seq(Nat)
  BY WireConstants DEF WTyped, Wire!TypeOK
<1>2. lengths \in Seq(Nat)
  BY <1>1, SeqMonotonic
<1>3. count \in Nat
  BY WireConstants DEF WTyped, Wire!TypeOK
<1> QED
  BY <1>1, <1>2, <1>3, LenProperties, ElementOfSeq DEF WTyped, Wire!TypeOK

LEMMA WireInitially == Wire!Init => WInv
<1> SUFFICES ASSUME Wire!Init PROVE WInv
  OBVIOUS
<1> USE DEF Wire!Init
<1>1. unsent = Stream /\ unsent \in Seq(Units) /\ Len(unsent) \in Nat
  BY StreamFacts DEF Stream
<1>2. WTyped
  <2>1. /\ lengths \in Seq(0 .. Modulus - 1) /\ Len(lengths) = 0
        /\ starts \in Seq(Nat) /\ Len(starts) = 0
    BY EmptySeq
  <2>2. pipe \in Seq(Units) /\ got \in Seq(Units) /\ chars \in Seq(Units)
    BY EmptySeq
  <2>3. count \in 0 .. Modulus - 1 /\ Len(lengths) <= ReaderMax /\ Len(starts) <= count
    BY <2>1, WireConstants
  <2> QED
    BY <1>1, <2>1, <2>2, <2>3 DEF WTyped, Wire!TypeOK
<1>3. WPosition
  BY <1>1, <1>2, EmptySeq DEF WPosition, Expected, Base
<1> QED
  BY <1>2, <1>3 DEF WInv, WLengths, WSize, WStarts, WChars, Laid, Ran

(* Nothing but the position changes.                                       *)
LEMMA WireMoved ==
    ASSUME WInv, UNCHANGED <<request, pc, lengths, count, size, chars, starts, action>>,
           WTyped', WPosition'
    PROVE  WInv'
<1>1. WLengths' /\ WStarts' /\ WChars'
  BY DEF WInv, WLengths, WStarts, WChars, Laid, Ran, Settled, Stream
<1>2. WSize'
  BY DEF WInv, WSize, Laid, Rest
<1> QED
  BY <1>1, <1>2 DEF WInv

LEMMA BaseNat == WInv => Base \in Nat
<1> SUFFICES ASSUME WInv PROVE Base \in Nat
  OBVIOUS
<1>1. /\ pc \in {"op", "head", "lengths", "domain", "challenges"} /\ Len(lengths) \in Nat
      /\ count \in Nat /\ \A i \in 1 .. Len(starts) : starts[i] \in Nat
  BY WireTypes DEF WInv
<1>2. pc = "challenges" => Len(starts) \in 1 .. count
  BY DEF WInv, WStarts
<1>3. pc = "challenges" => starts[Len(starts)] \in Nat
  BY <1>1, <1>2
<1> QED
  BY <1>1, <1>3 DEF Base

(* Part of what is not yet written is written.                             *)
LEMMA WriteKeeps == WInv /\ Wire!Write => WInv'
<1>0. SUFFICES ASSUME WInv, Wire!Write PROVE WInv'
  OBVIOUS
<1>1. PICK n \in 1 .. Len(unsent) :
          /\ pipe' = pipe \o SubSeq(unsent, 1, n)
          /\ unsent' = SubSeq(unsent, n + 1, Len(unsent))
  BY <1>0 DEF Wire!Write
<1>u. UNCHANGED <<request, closed, pc, need, got, lengths, count, size, chars, starts, action>>
  BY <1>0 DEF Wire!Write, Wire!reader
<1>2. unsent \in Seq(Units) /\ pipe \in Seq(Units) /\ Len(unsent) \in Nat /\ Len(pipe) \in Nat
  BY <1>0, WireTypes DEF WInv, WTyped
<1> DEFINE written == SubSeq(unsent, 1, n)
<1>c. n \in 0 .. Len(unsent)
  BY <1>2
<1>3. written \in Seq(Units) /\ Len(written) = n /\ \A k \in 1 .. n : written[k] = unsent[k]
  BY <1>2, <1>c, Cut
<1>4. /\ unsent' \in Seq(Units) /\ Len(unsent') = Len(unsent) - n
      /\ \A k \in 1 .. Len(unsent) - n : unsent'[k] = unsent[n + k]
  BY <1>1, <1>2, <1>c, Cut
<1> HIDE DEF written
<1>5. /\ pipe' \in Seq(Units) /\ Len(pipe') = Len(pipe) + n
      /\ \A k \in 1 .. Len(pipe) : pipe'[k] = pipe[k]
      /\ \A k \in 1 .. n : pipe'[Len(pipe) + k] = written[k]
  <2>1. pipe' = pipe \o written /\ pipe \in Seq(Units) /\ written \in Seq(Units)
    BY <1>1, <1>2, <1>3 DEF written
  <2>2. /\ pipe' \in Seq(Units) /\ Len(pipe') = Len(pipe) + Len(written)
        /\ \A k \in 1 .. Len(pipe) : pipe'[k] = pipe[k]
        /\ \A k \in 1 .. Len(written) : pipe'[Len(pipe) + k] = written[k]
    BY <2>1, Concat
  <2> QED
    BY <1>3, <2>2
<1>6. WTyped'
  BY <1>0, <1>u, <1>4, <1>5 DEF WInv, WTyped, Wire!TypeOK
<1>7. WPosition'
  <2> SUFFICES ASSUME action = "none" PROVE WPosition'
    BY <1>u DEF WPosition
  <2>1. /\ Len(got) + need = Expected
        /\ \A k \in 1 .. Len(got) : got[k] = Stream[Base + k]
        /\ \A k \in 1 .. Len(pipe) : pipe[k] = Stream[Base + Len(got) + k]
        /\ \A k \in 1 .. Len(unsent) : unsent[k] = Stream[Base + Len(got) + Len(pipe) + k]
    BY <1>0 DEF WInv, WPosition
  <2>2. Base' = Base /\ Expected' = Expected /\ Stream' = Stream
    BY <1>u DEF Base, Expected, Stream
  <2>3. Len(got) \in Nat /\ Base \in Nat
    BY <1>0, WireTypes, BaseNat DEF WInv
  <2> DEFINE b == Base + Len(got)
  <2>4. ASSUME NEW k \in 1 .. Len(pipe') PROVE pipe'[k] = Stream[b + k]
    <3>1. CASE k \in 1 .. Len(pipe)
      BY <1>5, <2>1, <3>1
    <3>2. CASE k \notin 1 .. Len(pipe)
      <4>1. k - Len(pipe) \in 1 .. n /\ Len(pipe) + (k - Len(pipe)) = k
        BY <1>2, <1>5, <3>2
      <4>2. k - Len(pipe) \in 1 .. Len(unsent) /\ b + Len(pipe) + (k - Len(pipe)) = b + k
        BY <1>2, <2>3, <4>1
      <4>3. pipe'[k] = unsent[k - Len(pipe)]
        BY <1>3, <1>5, <4>1
      <4>4. unsent[k - Len(pipe)] = Stream[b + Len(pipe) + (k - Len(pipe))]
        BY <2>1, <4>2
      <4> QED
        BY <4>2, <4>3, <4>4
    <3> QED
      BY <3>1, <3>2
  <2>5. ASSUME NEW k \in 1 .. Len(unsent') PROVE unsent'[k] = Stream[b + Len(pipe') + k]
    <3>1. /\ n + k \in 1 .. Len(unsent) /\ k \in 1 .. Len(unsent) - n
          /\ b + Len(pipe) + (n + k) = b + Len(pipe') + k
      BY <1>2, <1>4, <1>5, <2>3
    <3> QED
      BY <1>4, <2>1, <3>1
  <2> QED
    BY <1>u, <2>1, <2>2, <2>4, <2>5 DEF WPosition
<1> QED
  BY <1>0, <1>u, <1>6, <1>7, WireMoved


(* read_n_bytes takes what is there.                                       *)
LEMMA TakeKeeps == WInv /\ Wire!Read => WInv'
<1>0. SUFFICES ASSUME WInv, Wire!Read PROVE WInv'
  OBVIOUS
<1>1. PICK n \in 1 .. Len(pipe) :
          /\ n <= need /\ got' = got \o SubSeq(pipe, 1, n)
          /\ pipe' = SubSeq(pipe, n + 1, Len(pipe)) /\ need' = need - n
  BY <1>0 DEF Wire!Read
<1>u. /\ UNCHANGED <<request, unsent, closed, pc, lengths, count, size, chars, starts, action>>
      /\ action = "none"
  BY <1>0 DEF Wire!Read
<1>2. /\ got \in Seq(Units) /\ pipe \in Seq(Units) /\ Len(got) \in Nat /\ Len(pipe) \in Nat
      /\ need \in Nat
  BY <1>0, WireTypes DEF WInv, WTyped
<1> DEFINE written == SubSeq(pipe, 1, n)
<1>c. n \in 0 .. Len(pipe)
  BY <1>2
<1>3. written \in Seq(Units) /\ Len(written) = n /\ \A k \in 1 .. n : written[k] = pipe[k]
  BY <1>2, <1>c, Cut
<1>4. /\ pipe' \in Seq(Units) /\ Len(pipe') = Len(pipe) - n
      /\ \A k \in 1 .. Len(pipe) - n : pipe'[k] = pipe[n + k]
  BY <1>1, <1>2, <1>c, Cut
<1> HIDE DEF written
<1>5. /\ got' \in Seq(Units) /\ Len(got') = Len(got) + n
      /\ \A k \in 1 .. Len(got) : got'[k] = got[k]
      /\ \A k \in 1 .. n : got'[Len(got) + k] = written[k]
  <2>1. got' = got \o written /\ got \in Seq(Units) /\ written \in Seq(Units)
    BY <1>1, <1>2, <1>3 DEF written
  <2>2. /\ got' \in Seq(Units) /\ Len(got') = Len(got) + Len(written)
        /\ \A k \in 1 .. Len(got) : got'[k] = got[k]
        /\ \A k \in 1 .. Len(written) : got'[Len(got) + k] = written[k]
    BY <2>1, Concat
  <2> QED
    BY <1>3, <2>2
<1>6. WTyped'
  <2>1. need' \in Nat
    BY <1>1, <1>2
  <2> QED
    BY <1>0, <1>u, <1>4, <1>5, <2>1 DEF WInv, WTyped, Wire!TypeOK
<1>7. WPosition'
  <2>1. /\ Len(got) + need = Expected
        /\ \A k \in 1 .. Len(got) : got[k] = Stream[Base + k]
        /\ \A k \in 1 .. Len(pipe) : pipe[k] = Stream[Base + Len(got) + k]
        /\ \A k \in 1 .. Len(unsent) : unsent[k] = Stream[Base + Len(got) + Len(pipe) + k]
    BY <1>0, <1>u DEF WInv, WPosition
  <2>2. Base' = Base /\ Expected' = Expected /\ Stream' = Stream
    BY <1>u DEF Base, Expected, Stream
  <2>3. Base \in Nat
    BY <1>0, BaseNat
  <2>4. ASSUME NEW k \in 1 .. Len(got') PROVE got'[k] = Stream[Base + k]
    <3>1. CASE k \in 1 .. Len(got)
      BY <1>5, <2>1, <3>1
    <3>2. CASE k \notin 1 .. Len(got)
      <4>1. k - Len(got) \in 1 .. n /\ Len(got) + (k - Len(got)) = k
        BY <1>2, <1>5, <3>2
      <4>2. k - Len(got) \in 1 .. Len(pipe) /\ Base + Len(got) + (k - Len(got)) = Base + k
        BY <1>2, <2>3, <4>1
      <4>3. got'[k] = pipe[k - Len(got)]
        BY <1>3, <1>5, <4>1
      <4> QED
        BY <2>1, <4>2, <4>3
    <3> QED
      BY <3>1, <3>2
  <2>5. ASSUME NEW k \in 1 .. Len(pipe') PROVE pipe'[k] = Stream[Base + Len(got') + k]
    <3>1. /\ n + k \in 1 .. Len(pipe) /\ k \in 1 .. Len(pipe) - n
          /\ Base + Len(got) + (n + k) = Base + Len(got') + k
      BY <1>2, <1>4, <1>5, <2>3
    <3> QED
      BY <1>4, <2>1, <3>1
  <2>6. /\ Base + Len(got') + Len(pipe') = Base + Len(got) + Len(pipe)
        /\ Len(got') + need' = Len(got) + need
    <3>1. Len(got') = Len(got) + n /\ Len(pipe') = Len(pipe) - n /\ need' = need - n
      BY <1>1, <1>4, <1>5
    <3>2. n \in Nat /\ Len(got) \in Nat /\ Len(pipe) \in Nat /\ need \in Nat
      BY <1>2
    <3> QED
      BY <2>3, <3>1, <3>2
  <2> QED
    BY <1>u, <2>1, <2>2, <2>4, <2>5, <2>6 DEF WPosition
<1> QED
  BY <1>0, <1>u, <1>6, <1>7, WireMoved

LEMMA CloseKeeps == WInv /\ Wire!Close => WInv'
<1>0. SUFFICES ASSUME WInv, Wire!Close PROVE WInv'
  OBVIOUS
<1>1. /\ UNCHANGED <<request, unsent, pipe, pc, need, got, lengths, count>>
      /\ UNCHANGED <<size, chars, starts, action>>
  BY <1>0 DEF Wire!Close, Wire!reader
<1>2. WTyped'
  BY <1>0, <1>1 DEF Wire!Close, WInv, WTyped, Wire!TypeOK
<1>3. WPosition'
  <2>1. Base' = Base /\ Expected' = Expected /\ Stream' = Stream
    BY <1>1 DEF Base, Expected, Stream
  <2> QED
    BY <1>0, <1>1, <2>1 DEF WInv, WPosition
<1> QED
  BY <1>0, <1>1, <1>2, <1>3, WireMoved

(* The end of the input, in the middle of an action or before one.         *)
LEMMA EndOfInputKeeps == WInv /\ Wire!EndOfInput => WInv'
<1>0. SUFFICES ASSUME WInv, Wire!EndOfInput PROVE WInv'
  OBVIOUS
<1>1. /\ action = "none" /\ action' = "eof"
      /\ UNCHANGED <<request, unsent, pipe, closed, pc, need, got, lengths, count, size,
                     chars, starts>>
  BY <1>0 DEF Wire!EndOfInput
<1>2. WTyped' /\ WPosition' /\ WStarts'
  BY <1>0, <1>1 DEF WInv, WTyped, Wire!TypeOK, WPosition, WStarts
<1>3. (Laid' => Laid) /\ ~Ran /\ ~Ran'
  BY <1>1 DEF Laid, Ran
<1>4. WLengths' /\ WChars'
  BY <1>0, <1>1, <1>3 DEF WInv, WLengths, WChars, Settled, Stream
<1>5. WSize'
  BY <1>0, <1>1, <1>3 DEF WInv, WSize, Rest
<1> QED
  BY <1>2, <1>4, <1>5 DEF WInv

LEMMA HasOpKeeps == WInv /\ Wire!HasOp => WInv'
<1>0. SUFFICES ASSUME WInv, Wire!HasOp PROVE WInv'
  OBVIOUS
<1>1. /\ action = "none" /\ need = 0 /\ pc = "op" /\ pc' = "head" /\ need' = 2 /\ got' = <<>>
      /\ UNCHANGED <<request, unsent, pipe, closed, lengths, count, size, chars, starts, action>>
  BY <1>0 DEF Wire!HasOp, Wire!Complete, Wire!ReadNext
<1>2. WTyped'
  BY <1>0, <1>1, EmptySeq DEF WInv, WTyped, Wire!TypeOK
<1>3. WPosition'
  <2>1. Base = 0 /\ Expected = 1 /\ Base' = 1 /\ Expected' = 2 /\ Stream' = Stream
    BY <1>1 DEF Base, Expected, Stream
  <2>2. Len(got) \in Nat /\ Len(got) + need = 1 /\ Len(got') = 0
    BY <1>0, <1>1, <2>1, WireTypes, EmptySeq DEF WInv, WPosition
  <2>3. Base + Len(got) = 1 /\ Base' + Len(got') = 1 /\ 1 .. Len(got') = {} /\ Len(got') + need' = 2
    BY <1>1, <2>1, <2>2
  <2>4. /\ \A k \in 1 .. Len(pipe) : pipe[k] = Stream[Base + Len(got) + k]
        /\ \A k \in 1 .. Len(unsent) : unsent[k] = Stream[Base + Len(got) + Len(pipe) + k]
    BY <1>0, <1>1 DEF WInv, WPosition
  <2>5. /\ \A k \in 1 .. Len(pipe) : pipe[k] = Stream[Base' + Len(got') + k]
        /\ \A k \in 1 .. Len(unsent) : unsent[k] = Stream[Base' + Len(got') + Len(pipe) + k]
    BY <2>3, <2>4
  <2> QED
    BY <1>1, <2>1, <2>3, <2>5 DEF WPosition
<1> QED
  BY <1>0, <1>1, <1>2, <1>3
     DEF WInv, WLengths, WSize, WStarts, WChars, Laid, Ran

(* All is read that was asked for.                                         *)
LEMMA GotAll ==
    ASSUME WInv, action = "none", need = 0
    PROVE  /\ Len(got) = Expected /\ Len(got) \in Nat /\ Base \in Nat
           /\ \A k \in 1 .. Len(got) : got[k] = Stream[Base + k]
<1>1. Len(got) \in Nat
  BY WireTypes DEF WInv
<1>2. Len(got) + need = Expected /\ \A k \in 1 .. Len(got) : got[k] = Stream[Base + k]
  BY DEF WInv, WPosition
<1> QED
  BY <1>1, <1>2, BaseNat

(* Reading goes on behind what is read.                                    *)
LEMMA NextPosition ==
    ASSUME WInv, action = "none", UNCHANGED <<request, unsent, pipe>>, got' = <<>>,
           Base' = Base + Len(got), need' \in Nat, need' = Expected'
    PROVE  WPosition'
<1>1. /\ \A k \in 1 .. Len(pipe) : pipe[k] = Stream[Base + Len(got) + k]
      /\ \A k \in 1 .. Len(unsent) : unsent[k] = Stream[Base + Len(got) + Len(pipe) + k]
  BY DEF WInv, WPosition
<1>2. Stream' = Stream
  BY DEF Stream
<1>3. Len(got') = 0 /\ Base \in Nat /\ Len(got) \in Nat
  BY EmptySeq, BaseNat, WireTypes DEF WInv
<1>4. /\ Base' + Len(got') = Base + Len(got) /\ ~(\E k \in 1 .. Len(got') : TRUE)
      /\ Len(got') + need' = need'
  <2>1. Base' + Len(got') = Base + Len(got)
    BY <1>3
  <2>2. ~(\E k \in 1 .. Len(got') : TRUE)
    BY <1>3
  <2>3. Len(got') + need' = need'
    <3>1. \A m \in Nat : 0 + m = m
      OBVIOUS
    <3> QED
      BY <1>3, <3>1, Zenon
  <2> QED
    BY <2>1, <2>2, <2>3
<1>5. /\ \A k \in 1 .. Len(pipe') : pipe'[k] = Stream[Base' + Len(got') + k]
      /\ \A k \in 1 .. Len(unsent') : unsent'[k] = Stream[Base' + Len(got') + Len(pipe') + k]
  BY <1>1, <1>4
<1> QED
  BY <1>2, <1>4, <1>5 DEF WPosition

LEMMA FieldFacts ==
    ASSUME WTyped
    PROVE  /\ Len(Sent(request)) \in 0 .. SenderMax
           /\ Stream[2].field = request.origin.units % Modulus
           /\ Stream[3].field = Len(Sent(request))
           /\ request.origin.units % Modulus \in 0 .. Modulus - 1
           /\ \A i \in 1 .. Len(Sent(request)) :
                 /\ Stream[3 + i].field = Sent(request)[i].units % Modulus
                 /\ Sent(request)[i].units % Modulus \in 0 .. Modulus - 1
<1>1. request \in WireRequests
  BY WireTypes
<1>2. \A n \in Nat : Wire!Field(n).field = n % Modulus
  BY DEF Wire!Field
<1>3. /\ Len(Sent(request)) \in 0 .. SenderMax /\ request.origin.units \in Nat
      /\ \A i \in 1 .. Len(Sent(request)) : Sent(request)[i].units \in Nat
  BY <1>1, SentFacts
<1>4. Len(Sent(request)) \in Nat /\ Len(Sent(request)) % Modulus = Len(Sent(request))
  <2>1. Len(Sent(request)) \in Nat /\ Len(Sent(request)) < Modulus
    BY <1>3, WireConstants
  <2> QED
    BY <2>1, WireConstants
<1>5. /\ Stream[2] = Wire!Field(request.origin.units) /\ Stream[3] = Wire!Field(Len(Sent(request)))
      /\ \A i \in 1 .. Len(Sent(request)) : Stream[3 + i] = Wire!Field(Sent(request)[i].units)
  BY <1>1, StreamFacts DEF Stream
<1>6. /\ request.origin.units % Modulus \in 0 .. Modulus - 1
      /\ \A i \in 1 .. Len(Sent(request)) : Sent(request)[i].units % Modulus \in 0 .. Modulus - 1
  BY <1>3, WireConstants
<1> QED
  BY <1>2, <1>3, <1>4, <1>5, <1>6

LEMMA HasHeadKeeps == WInv /\ Wire!HasHead => WInv'
<1>0. SUFFICES ASSUME WInv, Wire!HasHead PROVE WInv'
  OBVIOUS
<1>1. /\ action = "none" /\ need = 0 /\ pc = "head"
      /\ count' = got[2].field /\ lengths' = <<got[1].field>>
      /\ UNCHANGED <<request, unsent, pipe, closed, size, chars, starts>>
  BY <1>0 DEF Wire!HasHead, Wire!Complete
<1>2. WTyped /\ size = 0 /\ Len(starts) = 0
  BY <1>0, <1>1 DEF WInv, WLengths, WStarts
<1>3. Base = 1 /\ Expected = 2
  BY <1>1 DEF Base, Expected
<1>4. Len(got) = 2 /\ got[1] = Stream[2] /\ got[2] = Stream[3]
  <2>1. Len(got) = 2 /\ \A k \in 1 .. Len(got) : got[k] = Stream[Base + k]
    BY <1>0, <1>1, <1>3, GotAll
  <2>2. /\ 1 \in 1 .. Len(got) /\ 2 \in 1 .. Len(got)
        /\ Base + 1 = 2 /\ Base + 2 = 3
    BY <1>3, <2>1
  <2> QED
    BY <2>1, <2>2, Zenon
<1> DEFINE n == Len(Sent(request))
<1>5. /\ count' = n /\ n \in 0 .. Modulus - 1 /\ n \in Nat
      /\ lengths' = <<request.origin.units % Modulus>> /\ request.origin.units % Modulus \in 0 .. Modulus - 1
  BY <1>1, <1>2, <1>4, FieldFacts, WireConstants
<1>6. /\ lengths' \in Seq(0 .. Modulus - 1) /\ Len(lengths') = 1 /\ 1 <= ReaderMax
      /\ lengths'[1] = request.origin.units % Modulus
  BY <1>5, WireConstants
<1>7. CASE action' = "eof" /\ UNCHANGED <<pc, need, got>>
  <2>2. WTyped'
    BY <1>1, <1>2, <1>5, <1>6, <1>7 DEF WTyped, Wire!TypeOK
  <2> QED
    BY <1>1, <1>2, <1>7, <2>2
       DEF WInv, WLengths, WPosition, WSize, WStarts, WChars, Laid, Ran
<1>8. CASE /\ n # 0 /\ lengths'[1] # 0 /\ n < ReaderMax
           /\ pc' = "lengths" /\ need' = 1 /\ got' = <<>> /\ UNCHANGED action
  <2>1. WTyped'
    BY <1>1, <1>2, <1>5, <1>6, <1>8, EmptySeq DEF WTyped, Wire!TypeOK
  <2>2. WLengths'
    <3>1. /\ count' \in 1 .. ReaderMax - 1 /\ Len(lengths') \in 1 .. count' + 1
          /\ ~(\E i \in 1 .. Len(lengths') - 1 : TRUE) /\ Len(lengths') <= count'
      <4>1. count' \in Nat /\ count' # 0 /\ count' < ReaderMax /\ ReaderMax \in Nat
        BY <1>5, <1>8, WireConstants
      <4>2. Len(lengths') = 1 /\ Len(lengths') \in Nat
        BY <1>6
      <4>3. count' \in 1 .. ReaderMax - 1
        BY <4>1
      <4>4. Len(lengths') \in 1 .. count' + 1 /\ Len(lengths') <= count'
        <5>1. \A m \in Nat : m # 0 => 1 \in 1 .. m + 1 /\ 1 <= m
          OBVIOUS
        <5> QED
          BY <4>1, <4>2, <5>1, Zenon
      <4>5. ~(\E i \in 1 .. Len(lengths') - 1 : TRUE)
        BY <4>2
      <4> QED
        BY <4>3, <4>4, <4>5
    <3>2. \A i \in 1 .. Len(lengths') : lengths'[i] # 0
      BY <1>6, <1>8
    <3> QED
      BY <1>1, <1>5, <1>6, <1>8, <3>1, <3>2 DEF WLengths
  <2>3. WPosition'
    <3>1. Base' = 3 /\ Expected' = 1
      BY <1>6, <1>8 DEF Base, Expected
    <3> QED
      BY <1>0, <1>1, <1>3, <1>4, <1>8, <3>1, NextPosition
  <2>4. WSize'
    <3>1. Sums([k \in 0 .. 0 |-> 0], Len(lengths') - 1, Rest')
      BY <1>6 DEF Sums
    <3>2. [k \in 0 .. 0 |-> 0][Len(lengths') - 1] = 0 /\ size' = 0
      BY <1>1, <1>2, <1>6
    <3> QED
      BY <1>8, <3>1, <3>2 DEF WSize
  <2> QED
    BY <1>1, <1>2, <1>8, <2>1, <2>2, <2>3, <2>4 DEF WInv, WStarts, WChars, Ran
<1> QED
  <2>1. IF n = 0 \/ lengths'[1] = 0 \/ n >= ReaderMax
        THEN Wire!GiveUp ELSE Wire!ReadNext("lengths", 1)
    BY <1>0, <1>1, <1>5, <1>6 DEF Wire!HasHead, Wire!TooMany
  <2>2. n >= ReaderMax \/ n < ReaderMax
    BY <1>5, WireConstants
  <2> QED
    BY <1>7, <1>8, <2>1, <2>2 DEF Wire!GiveUp, Wire!ReadNext

(* A length is read; after the last there may be no memory.                *)
LEMMA HasLengthKeeps == WInv /\ Wire!HasLength => WInv'
<1>0. SUFFICES ASSUME WInv, Wire!HasLength PROVE WInv'
  OBVIOUS
<1> DEFINE L == Len(lengths)
           v == got[1].field
<1>1. /\ action = "none" /\ need = 0 /\ pc = "lengths" /\ lengths' = Append(lengths, v)
      /\ UNCHANGED <<request, unsent, pipe, closed, count, chars, starts>>
  BY <1>0 DEF Wire!HasLength, Wire!Complete
<1>2. /\ WTyped /\ Len(starts) = 0 /\ count = Len(Sent(request)) /\ count \in 1 .. ReaderMax - 1
      /\ L \in Nat /\ L >= 1 /\ L <= count /\ lengths[1] = request.origin.units % Modulus
      /\ \A i \in 1 .. L - 1 : lengths[i + 1] = Sent(request)[i].units % Modulus
      /\ \A i \in 1 .. L : lengths[i] # 0 /\ lengths[i] \in Nat
      /\ count \in Nat /\ size \in Nat
  <2>1. /\ WTyped /\ Len(starts) = 0 /\ count = Len(Sent(request)) /\ count \in 1 .. ReaderMax - 1
        /\ L \in 1 .. count + 1 /\ L <= count /\ lengths[1] = request.origin.units % Modulus
        /\ \A i \in 1 .. L - 1 : lengths[i + 1] = Sent(request)[i].units % Modulus
        /\ \A i \in 1 .. L : lengths[i] # 0
    BY <1>0, <1>1 DEF WInv, WLengths, WStarts, Laid
  <2>2. L \in Nat /\ count \in Nat /\ size \in Nat /\ \A i \in 1 .. L : lengths[i] \in Nat
    BY <2>1, WireTypes
  <2> QED
    BY <2>1, <2>2
<1>3. Base = 2 + L /\ Expected = 1
  BY <1>1 DEF Base, Expected
<1>4. v = Sent(request)[L].units % Modulus /\ v \in 0 .. Modulus - 1
  <2>0. /\ Len(got) = 1 /\ 1 \in 1 .. 1
        /\ \A k \in 1 .. Len(got) : got[k] = Stream[Base + k]
    BY <1>0, <1>1, <1>3, GotAll
  <2>1. got[1] = Stream[(2 + L) + 1]
    BY <1>3, <2>0, Zenon
  <2>2. (2 + L) + 1 = 3 + L /\ L \in 1 .. Len(Sent(request))
    BY <1>2
  <2> QED
    BY <1>2, <2>1, <2>2, FieldFacts
<1> HIDE DEF v
<1>5. /\ lengths' \in Seq(0 .. Modulus - 1) /\ Len(lengths') = L + 1
      /\ \A i \in 1 .. L : lengths'[i] = lengths[i]
      /\ lengths'[L + 1] = v
  <2>1. lengths \in Seq(0 .. Modulus - 1)
    BY <1>2 DEF WTyped, Wire!TypeOK
  <2> QED
    BY <1>1, <1>4, <2>1, AppendProperties
<1>6. L + 1 <= ReaderMax /\ L + 1 \in 1 .. count + 1
  <2>1. ASSUME NEW l \in Nat, NEW c \in 1 .. ReaderMax - 1, l >= 1, l <= c
        PROVE  l + 1 <= ReaderMax /\ l + 1 \in 1 .. c + 1
    BY <2>1, WireConstants
  <2> QED
    BY <1>2, <2>1
<1>7. lengths'[1] = lengths[1] /\ lengths[1] \in Nat
  BY <1>2, <1>5
<1>8. \A i \in 1 .. Len(lengths') - 1 : lengths'[i + 1] = Sent(request)[i].units % Modulus
  <2> SUFFICES ASSUME NEW i \in 1 .. L PROVE lengths'[i + 1] = Sent(request)[i].units % Modulus
    BY <1>2, <1>5
  <2>1. CASE i = L
    BY <1>4, <1>5, <2>1
  <2>2. CASE i # L
    <3>1. i \in 1 .. L - 1 /\ i + 1 \in 1 .. L
      BY <1>2, <2>2
    <3> QED
      BY <1>2, <1>5, <3>1
  <2> QED
    BY <2>1, <2>2
<1>9. ASSUME v # 0
      PROVE  \A i \in 1 .. Len(lengths') : lengths'[i] # 0
  <2>1. \A i \in 1 .. L + 1 : i \in 1 .. L \/ i = L + 1
    BY <1>2
  <2> QED
    BY <1>2, <1>5, <1>9, <2>1
<1>10. CASE action' = "eof" /\ UNCHANGED <<pc, need, got, size>>
  <2>1. WTyped'
    BY <1>1, <1>2, <1>5, <1>6, <1>10 DEF WTyped, Wire!TypeOK
  <2>2. WLengths'
    BY <1>1, <1>2, <1>5, <1>6, <1>7, <1>8, <1>10 DEF WLengths, Laid
  <2> QED
    BY <1>1, <1>2, <1>10, <2>1, <2>2
       DEF WInv, WPosition, WSize, WStarts, WChars, Laid, Ran
<1> DEFINE full == L + 1 = count + 1
<1>11. ASSUME v # 0, UNCHANGED action, got' = <<>>,
              IF full THEN /\ size' = lengths[1] + (size + v) + count + 1
                           /\ pc' = "domain" /\ need' = lengths[1]
              ELSE size' = size + v /\ pc' = "lengths" /\ need' = 1
       PROVE  WInv'
  <2>1. WTyped'
    <3>1. v \in Nat /\ lengths[1] \in Nat
      BY <1>4, <1>7, WireConstants
    <3>2. size' \in Nat /\ need' \in Nat
      BY <1>2, <1>11, <3>1
    <3> QED
      BY <1>1, <1>2, <1>5, <1>6, <1>11, <3>2, EmptySeq DEF WTyped, Wire!TypeOK
  <2>2. WLengths'
    <3>1. pc' = "lengths" => Len(lengths') <= count
      BY <1>2, <1>5, <1>11
    <3>2. pc' = "domain" => Len(lengths') = count + 1
      BY <1>5, <1>11
    <3> QED
      BY <1>1, <1>2, <1>5, <1>6, <1>7, <1>8, <1>9, <1>11, <3>1, <3>2 DEF WLengths
  <2>3. WPosition'
    <3>1. (2 + L) + 1 = 2 + (L + 1) /\ (full => (2 + L) + 1 = 3 + count)
      BY <1>2
    <3>2. Base' = Base + Len(got)
      <4>1. Len(got) = 1
        BY <1>0, <1>1, <1>3, GotAll
      <4> QED
        BY <1>1, <1>3, <1>5, <1>11, <3>1, <4>1 DEF Base
    <3>3. need' \in Nat /\ need' = Expected'
      BY <1>7, <1>11 DEF Expected
    <3> QED
      BY <1>0, <1>1, <1>11, <3>2, <3>3, NextPosition
  <2>4. WSize'
    <3>1. PICK P : Sums(P, L - 1, Rest) /\ size = P[L - 1]
      BY <1>0, <1>1 DEF WInv, WSize, Laid
    <3> DEFINE Q == [k \in 0 .. L |-> IF k = L THEN size + v ELSE P[k]]
    <3>2. P[0] = 0 /\ \A i \in 1 .. L - 1 : P[i] = P[i - 1] + Rest[i]
      BY <3>1 DEF Sums
    <3>3. /\ Q[L] = size + v /\ \A k \in 0 .. L - 1 : Q[k] = P[k]
      BY <1>2
    <3> HIDE DEF Q
    <3>4. \A i \in 1 .. L : Rest'[i] = lengths'[i + 1]
      BY <1>2, <1>5 DEF Rest
    <3>5. \A i \in 1 .. L - 1 : Rest[i] = lengths[i + 1]
      BY DEF Rest
    <3>6. ASSUME NEW i \in 1 .. L PROVE Q[i] = Q[i - 1] + Rest'[i]
      <4>1. CASE i = L
        <5>1. L - 1 \in 0 .. L - 1
          BY <1>2
        <5>2. Q[i] = size + v /\ Q[i - 1] = size /\ Rest'[i] = v
          BY <1>5, <3>1, <3>3, <3>4, <4>1, <5>1
        <5> QED
          BY <5>2
      <4>2. CASE i # L
        <5>1. i \in 1 .. L - 1 /\ i - 1 \in 0 .. L - 1 /\ i \in 0 .. L - 1 /\ i + 1 \in 1 .. L
          BY <1>2, <4>2
        <5>2. Rest'[i] = Rest[i]
          BY <1>5, <3>4, <3>5, <5>1
        <5> QED
          BY <3>2, <3>3, <5>1, <5>2
      <4> QED
        BY <4>1, <4>2
    <3>7. Q[0] = 0
      BY <1>2, <3>2, <3>3
    <3>8. Sums(Q, L, Rest')
      BY <3>6, <3>7 DEF Sums
    <3>9. Len(lengths') - 1 = L
      BY <1>2, <1>5
    <3>10. size' = IF pc' = "lengths" THEN Q[L] ELSE lengths'[1] + Q[count'] + count' + 1
      <4>1. full => count' = L
        BY <1>1, <1>2
      <4> QED
        BY <1>1, <1>7, <1>11, <3>3, <4>1
    <3> QED
      BY <3>8, <3>9, <3>10 DEF WSize
  <2> QED
    BY <1>1, <1>2, <1>11, <2>1, <2>2, <2>3, <2>4 DEF WInv, WStarts, WChars, Ran
<1> QED
  <2>1. \/ v = 0 /\ Wire!GiveUp /\ UNCHANGED size
        \/ v # 0 /\ full /\ size' = lengths[1] + (size + v) + count + 1
                 /\ Wire!ReadNext("domain", lengths[1])
        \/ v # 0 /\ full /\ Wire!GiveUp /\ UNCHANGED size
        \/ v # 0 /\ ~full /\ Wire!ReadNext("lengths", 1) /\ size' = size + v
    BY <1>0, <1>5 DEF Wire!HasLength, v
  <2> QED
    BY <1>10, <1>11, <2>1 DEF Wire!GiveUp, Wire!ReadNext

(* The domain is read, and the first challenge begins behind its zero.     *)
LEMMA HasDomainKeeps == WInv /\ Wire!HasDomain => WInv'
<1>0. SUFFICES ASSUME WInv, Wire!HasDomain PROVE WInv'
  OBVIOUS
<1>1. /\ action = "none" /\ need = 0 /\ pc = "domain"
      /\ chars' = Append(got, Wire!Zero) /\ starts' = <<lengths[1] + 1>>
      /\ pc' = "challenges" /\ need' = lengths[2] /\ got' = <<>> /\ UNCHANGED action
      /\ UNCHANGED <<request, unsent, pipe, closed, lengths, count, size>>
  BY <1>0 DEF Wire!HasDomain, Wire!Complete, Wire!ReadNext
<1>2. /\ WTyped /\ count \in Nat /\ count >= 1 /\ Len(lengths) = count + 1
      /\ lengths[1] \in Nat /\ lengths[2] \in Nat
  <2>1. WTyped /\ count \in 1 .. ReaderMax - 1 /\ Len(lengths) = count + 1
    BY <1>0, <1>1 DEF WInv, WLengths
  <2>2. 1 \in 1 .. Len(lengths) /\ 2 \in 1 .. Len(lengths)
    BY <2>1
  <2>3. count \in Nat /\ \A k \in 1 .. Len(lengths) : lengths[k] \in Nat
    BY <2>1, WireTypes
  <2> QED
    BY <2>1, <2>2, <2>3
<1>3. Base = 3 + count /\ Expected = lengths[1]
  BY <1>1 DEF Base, Expected
<1>4. Len(got) = lengths[1] /\ \A k \in 1 .. lengths[1] : got[k] = Stream[3 + count + k]
  BY <1>0, <1>1, <1>3, GotAll
<1>5. /\ chars' \in Seq(Units) /\ Len(chars') = lengths[1] + 1
      /\ \A k \in 1 .. lengths[1] : chars'[k] = got[k]
      /\ chars'[lengths[1] + 1] = Wire!Zero
  <2>1. Wire!Zero \in Units
    BY DEF Wire!Zero, Units
  <2>2. got \in Seq(Units)
    BY <1>2 DEF WTyped
  <2>3. /\ Append(got, Wire!Zero) \in Seq(Units) /\ Len(Append(got, Wire!Zero)) = Len(got) + 1
        /\ \A k \in 1 .. Len(got) : Append(got, Wire!Zero)[k] = got[k]
        /\ Append(got, Wire!Zero)[Len(got) + 1] = Wire!Zero
    BY <2>1, <2>2, AppendProperties
  <2> QED
    BY <1>1, <1>4, <2>3
<1>6. starts' \in Seq(Nat) /\ Len(starts') = 1 /\ starts'[1] = lengths[1] + 1
  BY <1>1, <1>2
<1>7. WTyped'
  BY <1>1, <1>2, <1>5, <1>6, EmptySeq DEF WTyped, Wire!TypeOK
<1>8. WLengths'
  BY <1>0, <1>1 DEF WInv, WLengths, Laid
<1>9. WPosition'
  <2>1. Base' = 2 + count + (lengths[1] + 1) /\ Expected' = lengths[2]
    BY <1>1, <1>6 DEF Base, Expected
  <2>2. Base' = Base + Len(got)
    <3>1. \A c \in Nat : \A l \in Nat : 2 + c + (l + 1) = 3 + c + l
      OBVIOUS
    <3> QED
      <4>1. Base' = 3 + count + lengths[1]
        BY <1>2, <2>1, <3>1, Zenon
      <4>2. Len(got) = lengths[1]
        BY <1>4
      <4> QED
        BY <1>3, <4>1, <4>2, Zenon
  <2> QED
    BY <1>0, <1>1, <1>2, <2>1, <2>2, NextPosition
<1>10. WSize'
  BY <1>0, <1>1 DEF WInv, WSize, Laid, Rest
<1>11. WStarts'
  <2>1. 1 \in 1 .. count /\ \A i \in 1 .. 1 : i = 1
    BY <1>2
  <2>2. ~(\E i \in 1 .. Len(starts') - 1 : TRUE) /\ lengths[1] + 1 >= lengths[1] + 1
    BY <1>2, <1>6
  <2> QED
    BY <1>1, <1>6, <2>1, <2>2 DEF WStarts
<1>12. WChars'
  <2>1. ~(\E k \in lengths[1] + 2 .. lengths[1] + 1 : TRUE) /\ lengths[1] + 1 >= lengths[1] + 1
    BY <1>2
  <2>2. ~Ran' /\ Stream' = Stream
    BY <1>1 DEF Ran, Stream
  <2> QED
    BY <1>1, <1>4, <1>5, <1>6, <2>1, <2>2 DEF WChars, Settled
<1> QED
  BY <1>7, <1>8, <1>9, <1>10, <1>11, <1>12 DEF WInv

(* A challenge is read: its zero takes the place of the first character of  *)
(* the next, until that is read.                                           *)
LEMMA HasChallengeKeeps == WInv /\ Wire!HasChallenge => WInv'
<1>0. SUFFICES ASSUME WInv, Wire!HasChallenge PROVE WInv'
  OBVIOUS
<1> DEFINE i == Len(starts)
           at == starts[i]
           e == lengths[i + 1]
           before == SubSeq(chars, 1, at)
<1>1. /\ action = "none" /\ need = 0 /\ pc = "challenges"
      /\ chars' = Append(before \o got, Wire!Zero)
      /\ UNCHANGED <<request, unsent, pipe, closed, lengths, count, size>>
  BY <1>0 DEF Wire!HasChallenge, Wire!Complete
<1>2. \/ i = count /\ action' = request.op /\ UNCHANGED <<pc, need, got, starts>>
      \/ /\ i # count /\ starts' = Append(starts, at + e)
         /\ pc' = "challenges" /\ need' = lengths[i + 2] /\ got' = <<>> /\ UNCHANGED action
  BY <1>0 DEF Wire!HasChallenge, Wire!ReadNext
<1>3. /\ WTyped /\ i \in Nat /\ i >= 1 /\ i <= count /\ count \in Nat /\ Len(lengths) = count + 1
      /\ \A k \in 1 .. count + 1 : lengths[k] \in Nat
      /\ \A k \in 1 .. i : starts[k] \in Nat
  <2>1. WTyped /\ i \in 1 .. count /\ Len(lengths) = count + 1
    BY <1>0, <1>1 DEF WInv, WLengths, WStarts
  <2>2. /\ count \in Nat /\ \A k \in 1 .. Len(lengths) : lengths[k] \in Nat
        /\ \A k \in 1 .. i : starts[k] \in Nat
    BY <2>1, WireTypes
  <2> HIDE DEF i
  <2> QED
    BY <2>1, <2>2
<1>4. /\ at \in Nat /\ e \in Nat /\ lengths[1] \in Nat /\ at >= lengths[1] + 1
      /\ starts[1] = lengths[1] + 1
      /\ \A k \in 1 .. i : starts[k] >= lengths[1] + 1
      /\ \A k \in 1 .. i - 1 : starts[k + 1] = starts[k] + lengths[k + 1]
  <2>1. i \in 1 .. i /\ i + 1 \in 1 .. count + 1 /\ 1 \in 1 .. count + 1
    BY <1>3
  <2>2. /\ starts[1] = lengths[1] + 1
        /\ \A k \in 1 .. i : starts[k] >= lengths[1] + 1
        /\ \A k \in 1 .. i - 1 : starts[k + 1] = starts[k] + lengths[k + 1]
    BY <1>0, <1>1 DEF WInv, WStarts
  <2> QED
    BY <1>3, <2>1, <2>2
<1>5. /\ chars \in Seq(Units) /\ got \in Seq(Units) /\ Len(chars) \in Nat /\ Len(chars) >= at
      /\ \A k \in 1 .. lengths[1] : chars[k] = Stream[3 + count + k]
      /\ chars[lengths[1] + 1] = Wire!Zero
      /\ \A k \in lengths[1] + 2 .. at : chars[k] = Stream[2 + count + k]
  <2>1. ~Ran
    BY <1>1 DEF Ran
  <2> QED
    BY <1>0, <1>1, <2>1, WireTypes DEF WInv, WTyped, WChars, Settled
<1>6. Base = 2 + count + at /\ Expected = e
  BY <1>1 DEF Base, Expected
<1>7. Len(got) = e /\ \A k \in 1 .. e : got[k] = Stream[2 + count + at + k]
  BY <1>0, <1>1, <1>6, GotAll
<1>8. before \in Seq(Units) /\ Len(before) = at /\ \A k \in 1 .. at : before[k] = chars[k]
  <2>1. at \in 0 .. Len(chars)
    BY <1>4, <1>5
  <2> QED
    BY <1>5, <2>1, Cut
<1> HIDE DEF before
<1>9. /\ chars' \in Seq(Units) /\ Len(chars') = at + e + 1
      /\ \A k \in 1 .. at : chars'[k] = chars[k]
      /\ \A k \in 1 .. e : chars'[at + k] = Stream[2 + count + at + k]
      /\ chars'[at + e + 1] = Wire!Zero
  <2> DEFINE u == before \o got
  <2>1. u = before \o got /\ before \in Seq(Units) /\ got \in Seq(Units)
    BY <1>5, <1>8
  <2> HIDE DEF u
  <2>2. /\ u \in Seq(Units) /\ Len(u) = Len(before) + Len(got)
        /\ \A k \in 1 .. Len(before) : u[k] = before[k]
        /\ \A k \in 1 .. Len(got) : u[Len(before) + k] = got[k]
    BY <2>1, Concat
  <2>3. /\ u \in Seq(Units) /\ Len(u) = at + e
        /\ \A k \in 1 .. at : u[k] = chars[k]
        /\ \A k \in 1 .. e : u[at + k] = Stream[2 + count + at + k]
    BY <1>7, <1>8, <2>2
  <2>4. Wire!Zero \in Units /\ chars' = Append(u, Wire!Zero)
    BY <1>1 DEF Wire!Zero, Units, u
  <2>5. /\ chars' \in Seq(Units) /\ Len(chars') = Len(u) + 1
        /\ \A k \in 1 .. Len(u) : chars'[k] = u[k]
        /\ chars'[Len(u) + 1] = Wire!Zero
    BY <2>3, <2>4, AppendProperties
  <2>6. /\ \A k \in 1 .. at : k \in 1 .. at + e
        /\ \A k \in 1 .. e : at + k \in 1 .. at + e
    <3>1. at \in Nat /\ e \in Nat
      BY <1>4
    <3> HIDE DEF at, e
    <3> QED
      BY <3>1
  <2> QED
    BY <2>3, <2>5, <2>6
<1> HIDE DEF i, at, e
<1>10. /\ Len(chars') \in Nat /\ at + e \in Nat /\ Len(chars') >= at + e
       /\ \A k \in 1 .. lengths[1] : chars'[k] = Stream[3 + count + k]
       /\ chars'[lengths[1] + 1] = Wire!Zero
       /\ \A k \in lengths[1] + 2 .. at + e : chars'[k] = Stream[2 + count + k]
  <2>1. /\ \A k \in 1 .. lengths[1] : k \in 1 .. at
        /\ lengths[1] + 1 \in 1 .. at
    BY <1>4
  <2>2. ASSUME NEW k \in lengths[1] + 2 .. at + e PROVE chars'[k] = Stream[2 + count + k]
    <3>1. CASE k <= at
      <4>1. k \in 1 .. at /\ k \in lengths[1] + 2 .. at
        BY <1>4, <3>1
      <4> QED
        BY <1>5, <1>9, <4>1
    <3>2. CASE ~(k <= at)
      <4>1. k - at \in 1 .. e /\ at + (k - at) = k /\ 2 + count + at + (k - at) = 2 + count + k
        BY <1>3, <1>4, <3>2
      <4>2. chars'[at + (k - at)] = Stream[2 + count + at + (k - at)]
        BY <1>9, <4>1
      <4> QED
        BY <4>1, <4>2
    <3> QED
      BY <3>1, <3>2
  <2>3. Len(chars') \in Nat /\ at + e \in Nat /\ Len(chars') >= at + e
    BY <1>4, <1>9
  <2> QED
    BY <1>5, <1>9, <2>1, <2>2, <2>3
<1>11. Stream' = Stream
  BY <1>1 DEF Stream
<1>12. CASE i = count /\ action' = request.op /\ UNCHANGED <<pc, need, got, starts>>
  <2>1. action' \in {"r", "s"} /\ Ran'
    <3>1. request.op \in {"r", "s"}
      BY <1>3, WireTypes, SentFacts
    <3> QED
      BY <1>12, <3>1 DEF Ran
  <2>2. WTyped'
    BY <1>1, <1>3, <1>9, <1>12, <2>1 DEF WTyped, Wire!TypeOK
  <2>3. WLengths' /\ WSize' /\ WStarts'
    <3>1. WLengths' /\ WStarts'
      BY <1>0, <1>1, <1>12 DEF WInv, WLengths, WStarts, Laid
    <3>2. WSize'
      BY <1>0, <1>1, <1>12 DEF WInv, WSize, Laid, Rest
    <3> QED
      BY <3>1, <3>2
  <2>4. ~(action' = "none")
    BY <2>1
  <2>5. WPosition'
    BY <2>4 DEF WPosition
  <2>6. WChars'
    <3>1. /\ starts'[Len(starts')] = at /\ Len(starts') = count'
          /\ starts'[count'] = at /\ lengths'[count' + 1] = e
      BY <1>1, <1>12 DEF i, at, e
    <3>2. Len(chars') - 1 = at + e /\ Len(chars') >= at
      BY <1>4, <1>9
    <3>3. Settled' = at + e
      BY <2>1, <3>2 DEF Settled
    <3> QED
      BY <1>1, <1>9, <1>10, <1>11, <1>12, <2>1, <3>1, <3>2, <3>3 DEF WChars
  <2> QED
    BY <2>2, <2>3, <2>5, <2>6 DEF WInv
<1>13. CASE /\ i # count /\ starts' = Append(starts, at + e)
            /\ pc' = "challenges" /\ need' = lengths[i + 2] /\ got' = <<>> /\ UNCHANGED action
  <2>1. /\ starts' \in Seq(Nat) /\ Len(starts') = i + 1
        /\ \A k \in 1 .. i : starts'[k] = starts[k]
        /\ starts'[i + 1] = at + e
    <3>1. starts \in Seq(Nat) /\ at + e \in Nat
      BY <1>3, <1>4, WireTypes
    <3>2. /\ starts' \in Seq(Nat) /\ Len(starts') = Len(starts) + 1
          /\ \A k \in 1 .. Len(starts) : starts'[k] = starts[k]
          /\ starts'[Len(starts) + 1] = at + e
      BY <1>13, <3>1, AppendProperties
    <3> QED
      BY <3>2 DEF i
  <2>2. i + 1 \in 1 .. count /\ i + 2 \in 1 .. count + 1 /\ (i + 1) + 1 = i + 2 /\ i + 1 <= count
    BY <1>3, <1>13
  <2>3. need' \in Nat
    BY <1>3, <1>13, <2>2
  <2>4. WTyped'
    BY <1>1, <1>3, <1>9, <1>13, <2>1, <2>2, <2>3, EmptySeq DEF WTyped, Wire!TypeOK
  <2>5. WLengths'
    BY <1>0, <1>1, <1>13 DEF WInv, WLengths, Laid
  <2>6. WSize'
    BY <1>0, <1>1, <1>13 DEF WInv, WSize, Laid, Rest
  <2>7. WPosition'
    <3>1. Base' = 2 + count + (at + e) /\ Expected' = lengths[i + 2]
      BY <1>1, <1>13, <2>1, <2>2 DEF Base, Expected
    <3>2. Base' = Base + Len(got)
      BY <1>3, <1>4, <1>6, <1>7, <3>1
    <3> QED
      BY <1>0, <1>1, <1>13, <2>3, <3>1, <3>2, NextPosition
  <2>8. WStarts'
    <3>1. ASSUME NEW k \in 1 .. i + 1 PROVE starts'[k] >= lengths[1] + 1
      <4>1. k \in 1 .. i \/ k = i + 1
        BY <1>3
      <4>2. at + e >= lengths[1] + 1
        BY <1>4
      <4> QED
        BY <1>4, <2>1, <4>1, <4>2
    <3>2. ASSUME NEW k \in 1 .. (i + 1) - 1 PROVE starts'[k + 1] = starts'[k] + lengths[k + 1]
      <4>1. CASE k = i
        <5>1. k \in 1 .. i
          BY <1>3, <4>1
        <5> QED
          BY <2>1, <4>1, <5>1 DEF at, e
      <4>2. CASE k # i
        <5>1. k \in 1 .. i - 1 /\ k \in 1 .. i /\ k + 1 \in 1 .. i
          BY <1>3, <4>2
        <5> QED
          BY <1>4, <2>1, <5>1
      <4> QED
        BY <4>1, <4>2
    <3>3. 1 \in 1 .. i
      BY <1>3
    <3>4. starts'[1] = lengths[1] + 1
      BY <1>4, <2>1, <3>3
    <3> QED
      BY <1>1, <1>13, <2>1, <2>2, <3>1, <3>2, <3>4 DEF WStarts
  <2>9. WChars'
    <3>1. ~Ran'
      BY <1>1, <1>13 DEF Ran
    <3>2. starts'[Len(starts')] = at + e /\ Settled' = at + e
      BY <2>1, <3>1 DEF Settled
    <3> QED
      BY <1>1, <1>10, <1>11, <3>1, <3>2 DEF WChars
  <2> QED
    BY <2>4, <2>5, <2>6, <2>7, <2>8, <2>9 DEF WInv
<1> QED
  BY <1>2, <1>12, <1>13 DEF i, at, e

LEMMA WireSteps == WInv /\ [Wire!Next]_Wire!vars => WInv'
<1> SUFFICES ASSUME WInv, [Wire!Next]_Wire!vars PROVE WInv'
  OBVIOUS
<1>1. CASE Wire!Next
  BY <1>1, WriteKeeps, CloseKeeps, TakeKeeps, EndOfInputKeeps, HasOpKeeps, HasHeadKeeps,
     HasLengthKeeps, HasDomainKeeps, HasChallengeKeeps DEF Wire!Next
<1>2. CASE UNCHANGED Wire!vars
  <2>1. /\ UNCHANGED <<request, pc, lengths, count, size, chars, starts, action>>
        /\ UNCHANGED <<unsent, pipe, closed, need, got>>
    BY <1>2 DEF Wire!vars, Wire!reader
  <2>2. WTyped'
    BY <2>1 DEF WInv, WTyped, Wire!TypeOK
  <2>3. WPosition'
    <3>1. Base' = Base /\ Expected' = Expected /\ Stream' = Stream
      BY <2>1 DEF Base, Expected, Stream
    <3> QED
      BY <2>1, <3>1 DEF WInv, WPosition
  <2> QED
    BY <2>1, <2>2, <2>3, WireMoved
<1> QED
  BY <1>1, <1>2

-----------------------------------------------------------------------------
(* A part of a sequence is the sequence with the same elements.            *)
LEMMA PartIs ==
    ASSUME NEW S, NEW s \in Seq(S), NEW t \in Seq(S), NEW a \in Nat,
           a + Len(t) <= Len(s), \A j \in 1 .. Len(t) : s[a + j] = t[j]
    PROVE  SubSeq(s, a + 1, a + Len(t)) = t
<1> DEFINE n == Len(t)
<1>1. n \in Nat /\ Len(s) \in Nat /\ \A k \in 1 .. Len(s) : s[k] \in S
  BY LenProperties, ElementOfSeq
<1>2. a + n <= Len(s) /\ \A j \in 1 .. n : s[a + j] = t[j]
  OBVIOUS
<1>e. \A u \in Seq(S) : Len(u) = n /\ (\A k \in 1 .. n : u[k] = t[k]) => u = t
  BY SeqEqual
<1> HIDE DEF n
<1>3. a + 1 \in Int /\ a + n \in Int /\ \A k \in a + 1 .. a + n : s[k] \in S
  BY <1>1, <1>2
<1> DEFINE u == SubSeq(s, a + 1, a + n)
<1>4. /\ u \in Seq(S) /\ Len(u) = IF a + 1 <= a + n THEN (a + n) - (a + 1) + 1 ELSE 0
      /\ \A k \in 1 .. (a + n) - (a + 1) + 1 : u[k] = s[(a + 1) + k - 1]
  BY <1>3, SubSeqProperties
<1> HIDE DEF u
<1>5. /\ (IF a + 1 <= a + n THEN (a + n) - (a + 1) + 1 ELSE 0) = n
      /\ \A k \in 1 .. n : k \in 1 .. (a + n) - (a + 1) + 1 /\ (a + 1) + k - 1 = a + k
  <2>1. ASSUME NEW m \in Nat
        PROVE  /\ (IF a + 1 <= a + m THEN (a + m) - (a + 1) + 1 ELSE 0) = m
               /\ \A k \in 1 .. m : /\ k \in 1 .. (a + m) - (a + 1) + 1
                                    /\ (a + 1) + k - 1 = a + k
    <3>1. (a + m) - (a + 1) + 1 = m /\ (m = 0 \/ a + 1 <= a + m)
      OBVIOUS
    <3>2. ASSUME NEW k \in 1 .. m PROVE (a + 1) + k - 1 = a + k
      OBVIOUS
    <3>3. (IF a + 1 <= a + m THEN (a + m) - (a + 1) + 1 ELSE 0) = m
      BY <3>1, Zenon
    <3> QED
      BY <3>1, <3>2, <3>3, Zenon
  <2> QED
    BY <1>1, <2>1, Zenon
<1>6. Len(u) = n /\ \A k \in 1 .. n : u[k] = t[k]
  BY <1>2, <1>4, <1>5
<1>7. u = t
  BY <1>4, <1>6, <1>e
<1> QED
  BY <1>7 DEF u, n

(* The pointers lie apart as the lengths say.                              *)
LEMMA StartsAt ==
    ASSUME WInv, pc = "challenges", NEW P, Sums(P, count, Rest)
    PROVE  /\ count \in Nat /\ count >= 1 /\ Len(lengths) = count + 1
           /\ \A k \in 1 .. count + 1 : lengths[k] \in Nat
           /\ \A k \in 1 .. count : P[k] = P[k - 1] + lengths[k + 1]
           /\ \A k \in 0 .. count : P[k] \in Nat /\ P[k] <= P[count]
           /\ Len(starts) \in 1 .. count
           /\ \A k \in 1 .. Len(starts) :
                 /\ starts[k] = lengths[1] + 1 + P[k - 1]
                 /\ starts[k] + lengths[k + 1] = lengths[1] + 1 + P[k]
<1>1. /\ WTyped /\ count \in 1 .. ReaderMax - 1 /\ Len(lengths) = count + 1
      /\ Len(starts) \in 1 .. count /\ starts[1] = lengths[1] + 1
      /\ \A k \in 1 .. Len(starts) - 1 : starts[k + 1] = starts[k] + lengths[k + 1]
  BY DEF WInv, WLengths, WStarts
<1>2. /\ count \in Nat /\ count >= 1 /\ \A k \in 1 .. count + 1 : lengths[k] \in Nat
  <2>1. count \in Nat /\ \A k \in 1 .. Len(lengths) : lengths[k] \in Nat
    BY <1>1, WireTypes
  <2>2. Len(lengths) = count + 1 /\ count >= 1
    BY <1>1
  <2> QED
    BY <2>1, <2>2
<1>3. P[0] = 0 /\ \A k \in 1 .. count : P[k] = P[k - 1] + lengths[k + 1]
  BY <1>1 DEF Sums, Rest
<1>4. \A k \in 0 .. count : P[k] \in Nat /\ P[k] <= P[count]
  <2>1. \A k \in 1 .. count : Rest[k] \in Nat
    BY <1>1, <1>2 DEF Rest
  <2>2. /\ \A k \in 0 .. count : P[k] \in Nat
        /\ \A k \in 0 .. count : \A j \in 0 .. k : P[j] <= P[k]
    BY <1>2, <2>1, SumsGrow
  <2>3. count \in 0 .. count
    BY <1>2
  <2> QED
    BY <2>2, <2>3
<1> DEFINE L == Len(starts)
<1>5. L \in Nat /\ L >= 1 /\ L <= count
  BY <1>1
<1> DEFINE S == {k \in Nat : k + 1 <= L => starts[k + 1] = lengths[1] + 1 + P[k]}
<1>6. 0 \in S
  <2>1. lengths[1] \in Nat
    BY <1>2
  <2> QED
    BY <1>1, <1>3, <2>1
<1>7. ASSUME NEW k \in Nat, k \in S PROVE k + 1 \in S
  <2> SUFFICES ASSUME (k + 1) + 1 <= L
               PROVE  starts[(k + 1) + 1] = lengths[1] + 1 + P[k + 1]
    OBVIOUS
  <2>1. /\ k + 1 <= L /\ k + 1 \in 1 .. L - 1 /\ k + 1 \in 1 .. count /\ (k + 1) - 1 = k
        /\ k \in 0 .. count /\ (k + 1) + 1 \in 1 .. count + 1 /\ 1 \in 1 .. count + 1
    BY <1>2, <1>5
  <2>2. /\ starts[(k + 1) + 1] = starts[k + 1] + lengths[(k + 1) + 1]
        /\ starts[k + 1] = lengths[1] + 1 + P[k]
        /\ P[k + 1] = P[k] + lengths[(k + 1) + 1]
    BY <1>1, <1>3, <1>7, <2>1
  <2>3. P[k] \in Nat /\ lengths[1] \in Nat /\ lengths[(k + 1) + 1] \in Nat
    BY <1>2, <1>4, <2>1
  <2>4. \A l \in Nat : \A p \in Nat : \A m \in Nat : (l + 1 + p) + m = l + 1 + (p + m)
    OBVIOUS
  <2>5. starts[(k + 1) + 1] = (lengths[1] + 1 + P[k]) + lengths[(k + 1) + 1]
    BY <2>2, Zenon
  <2>6. starts[(k + 1) + 1] = lengths[1] + 1 + (P[k] + lengths[(k + 1) + 1])
    BY <2>3, <2>4, <2>5, Zenon
  <2> QED
    BY <2>2, <2>6, Zenon
<1> HIDE DEF S
<1>8. ASSUME NEW k \in 1 .. L
      PROVE  /\ starts[k] = lengths[1] + 1 + P[k - 1]
             /\ starts[k] + lengths[k + 1] = lengths[1] + 1 + P[k]
  <2>1. /\ k - 1 \in Nat /\ (k - 1) + 1 = k /\ k <= L /\ k \in 1 .. count
        /\ k - 1 \in 0 .. count /\ k + 1 \in 1 .. count + 1 /\ 1 \in 1 .. count + 1
    BY <1>2, <1>5
  <2>2. k - 1 \in S
    BY <1>6, <1>7, <2>1, Induct
  <2>3. starts[k] = lengths[1] + 1 + P[k - 1]
    BY <2>1, <2>2 DEF S
  <2>4. /\ P[k] = P[k - 1] + lengths[k + 1] /\ P[k - 1] \in Nat
        /\ lengths[1] \in Nat /\ lengths[k + 1] \in Nat
    BY <1>2, <1>3, <1>4, <2>1
  <2>5. starts[k] + lengths[k + 1] = lengths[1] + 1 + P[k]
    <3>1. \A l \in Nat : \A p \in Nat : \A m \in Nat : (l + 1 + p) + m = l + 1 + (p + m)
      OBVIOUS
    <3>2. (lengths[1] + 1 + P[k - 1]) + lengths[k + 1]
             = lengths[1] + 1 + (P[k - 1] + lengths[k + 1])
      BY <2>4, <3>1, Zenon
    <3> QED
      BY <2>3, <2>4, <3>2, Zenon
  <2> QED
    BY <2>3, <2>5
<1> QED
  BY <1>1, <1>2, <1>3, <1>4, <1>8

LEMMA RoomIsThere == WInv => Wire!HasRoom
<1>0. SUFFICES ASSUME WInv PROVE Wire!HasRoom
  OBVIOUS
<1>1. CASE pc = "challenges"
  <2>1. PICK P : Sums(P, Len(lengths) - 1, Rest) /\ size = lengths[1] + P[count] + count + 1
    BY <1>0, <1>1 DEF WInv, WSize, Laid
  <2>2. Len(lengths) = count + 1 /\ count \in Nat
    BY <1>0, <1>1, WireTypes DEF WInv, WLengths
  <2>3. Len(lengths) - 1 = count
    BY <2>2
  <2>4. Sums(P, count, Rest)
    BY <2>1, <2>3
  <2>5. /\ count >= 1 /\ Len(starts) \in 1 .. count
        /\ \A k \in 1 .. count + 1 : lengths[k] \in Nat
        /\ \A k \in 0 .. count : P[k] \in Nat /\ P[k] <= P[count]
        /\ \A k \in 1 .. Len(starts) :
              starts[k] + lengths[k + 1] = lengths[1] + 1 + P[k]
    BY <1>0, <1>1, <2>4, StartsAt
  <2>6. Len(starts) \in 1 .. Len(starts) /\ Len(starts) \in 0 .. count /\ count \in 0 .. count
    BY <2>2, <2>5
  <2>7. /\ starts[Len(starts)] + lengths[Len(starts) + 1] = lengths[1] + 1 + P[Len(starts)]
        /\ P[Len(starts)] \in Nat /\ P[Len(starts)] <= P[count] /\ P[count] \in Nat
        /\ lengths[1] \in Nat
    <3>1. 1 \in 1 .. count + 1
      BY <2>2
    <3> QED
      BY <2>5, <2>6, <3>1, Zenon
  <2>8. starts[Len(starts)] + lengths[Len(starts) + 1] + 1 <= size
    <3>1. ASSUME NEW l \in Nat, NEW p \in Nat, NEW q \in Nat, p <= q
          PROVE  (l + 1 + p) + 1 <= l + q + count + 1
      BY <2>2, <2>5, <3>1
    <3> QED
      BY <2>1, <2>7, <3>1
  <2> QED
    BY <1>1, <2>8 DEF Wire!HasRoom
<1>2. CASE pc = "domain"
  <2>1. PICK P : Sums(P, Len(lengths) - 1, Rest) /\ size = lengths[1] + P[count] + count + 1
    BY <1>0, <1>2 DEF WInv, WSize, Laid
  <2>2. /\ Len(lengths) = count + 1 /\ count \in Nat
        /\ \A k \in 1 .. Len(lengths) : lengths[k] \in Nat
    BY <1>0, <1>2, WireTypes DEF WInv, WLengths
  <2>3. Sums(P, count, Rest) /\ \A k \in 1 .. count : Rest[k] \in Nat
    <3>1. Len(lengths) - 1 = count
      BY <2>2
    <3> QED
      BY <2>1, <2>2, <3>1 DEF Rest
  <2>4. P[count] \in Nat /\ lengths[1] \in Nat
    <3>1. count \in 0 .. count /\ 1 \in 1 .. Len(lengths)
      BY <2>2
    <3>2. \A k \in 0 .. count : P[k] \in Nat
      BY <2>2, <2>3, SumsGrow
    <3> QED
      BY <2>2, <3>1, <3>2
  <2>5. lengths[1] + 1 <= size
    BY <2>1, <2>2, <2>4
  <2> QED
    BY <1>2, <2>5 DEF Wire!HasRoom
<1> QED
  BY <1>1, <1>2 DEF Wire!HasRoom

LEMMA NoneTooMany == WInv => Wire!ManyAreRefused
<1> SUFFICES ASSUME WInv, Ran PROVE Len(request.challenges) < ReaderMax
  BY DEF Wire!ManyAreRefused, Ran
<1>1. request \in WireRequests /\ count = Len(Sent(request)) /\ count \in 1 .. ReaderMax - 1
  BY WireTypes DEF WInv, WChars, WLengths
<1>2. /\ Len(Sent(request)) = IF Len(request.challenges) > SenderMax
                              THEN SenderMax ELSE Len(request.challenges)
      /\ Len(request.challenges) \in Nat
  BY <1>1, SentFacts
<1> QED
  BY <1>1, <1>2, WireConstants

LEMMA AllDelivered == WInv => Wire!Delivered
<1> DEFINE asked == request.challenges
           n == Len(asked)
<1>0. SUFFICES ASSUME WInv, Ran, Wire!Fitting(request)
               PROVE  /\ action = request.op
                      /\ SubSeq(chars, 1, request.origin.bytes + 1)
                            = Append(Wire!Bytes(0, request.origin.bytes), Wire!Zero)
                      /\ Len(starts) = n
                      /\ \A i \in DOMAIN asked :
                            /\ SubSeq(chars, starts[i] + 1, starts[i] + asked[i].bytes)
                                  = Wire!Bytes(i, asked[i].bytes)
                            /\ chars[starts[i] + asked[i].bytes + 1] =
                                  IF i = n THEN Wire!Zero ELSE Wire!Bytes(i + 1, asked[i + 1].bytes)[1]
  BY DEF Wire!Delivered, Ran
<1>1. /\ pc = "challenges" /\ action = request.op /\ WTyped
      /\ Len(starts) = count /\ Len(lengths) = count + 1
      /\ Len(chars) = starts[count] + lengths[count + 1] + 1
      /\ chars[Len(chars)] = Wire!Zero
      /\ count = Len(Sent(request))
      /\ lengths[1] = request.origin.units % Modulus
      /\ \A i \in 1 .. Len(lengths) - 1 : lengths[i + 1] = Sent(request)[i].units % Modulus
      /\ \A i \in 1 .. Len(lengths) : lengths[i] # 0
      /\ \A k \in 1 .. lengths[1] : chars[k] = Stream[3 + count + k]
      /\ chars[lengths[1] + 1] = Wire!Zero
      /\ \A k \in lengths[1] + 2 .. Len(chars) - 1 : chars[k] = Stream[2 + count + k]
  BY <1>0 DEF WInv, WChars, WLengths, Laid, Settled
<1>2. /\ request \in WireRequests /\ request.origin.bytes \in Nat /\ asked \in Seq(Wire!Texts) /\ n \in Nat
      /\ DOMAIN asked = 1 .. n
      /\ chars \in Seq(Units) /\ Len(chars) \in Nat /\ count \in Nat
  BY <1>1, SentFacts, LenProperties, WireTypes DEF WTyped
<1>3. count = n /\ \A i \in 1 .. n : Sent(request)[i] = asked[i] /\ asked[i].bytes \in Nat
  <2>1. n < ReaderMax
    BY <1>0 DEF Wire!Fitting
  <2>2. /\ Len(Sent(request)) = IF n > SenderMax THEN SenderMax ELSE n
        /\ \A i \in 1 .. Len(Sent(request)) :
              Sent(request)[i] = asked[i] /\ Sent(request)[i].bytes \in Nat
    BY <1>2, SentFacts
  <2> HIDE DEF n
  <2>3. ~(n > SenderMax)
    <3>1. n \in Nat
      BY <1>2
    <3> QED
      BY <2>1, <3>1, WireConstants
  <2> QED
    BY <1>1, <2>2, <2>3
<1>4. lengths[1] = request.origin.bytes /\ \A i \in 1 .. n : lengths[i + 1] = asked[i].bytes
  <2>1. /\ request.origin.units = request.origin.bytes /\ request.origin.bytes < Modulus
        /\ \A i \in 1 .. n : asked[i].units = asked[i].bytes /\ asked[i].bytes < Modulus
    BY <1>0, <1>2 DEF Wire!Fitting, Wire!Plain
  <2>2. /\ request.origin.units % Modulus = request.origin.bytes
        /\ \A i \in 1 .. n : asked[i].units % Modulus = asked[i].bytes
    <3>1. request.origin.bytes % Modulus = request.origin.bytes
      BY <1>2, <2>1, WireKept, Zenon
    <3>2. ASSUME NEW i \in 1 .. n PROVE asked[i].units % Modulus = asked[i].bytes
      <4>1. asked[i].bytes \in Nat /\ asked[i].units = asked[i].bytes /\ asked[i].bytes < Modulus
        BY <1>3, <2>1, Zenon
      <4> QED
        BY <4>1, WireKept, Zenon
    <3> QED
      BY <2>1, <3>1, <3>2, Zenon
  <2>3. Len(lengths) - 1 = n
    BY <1>1, <1>2, <1>3
  <2>4. /\ lengths[1] = request.origin.units % Modulus
        /\ \A i \in 1 .. Len(lengths) - 1 : lengths[i + 1] = Sent(request)[i].units % Modulus
    BY <1>1, Zenon
  <2>5. \A i \in 1 .. n : Sent(request)[i] = asked[i]
    BY <1>3, Zenon
  <2> QED
    BY <2>2, <2>3, <2>4, <2>5, Zenon
<1>5. PICK P : Sums(P, n, Rest)
  <2>1. Len(lengths) - 1 = n
    BY <1>1, <1>2, <1>3
  <2> QED
    BY <1>0, <1>1, <2>1 DEF WInv, WSize, Laid
<1>6. /\ n >= 1 /\ P[0] = 0
      /\ \A i \in 1 .. n : P[i] = P[i - 1] + asked[i].bytes
      /\ \A i \in 0 .. n : P[i] \in Nat /\ P[i] <= P[n]
      /\ \A i \in 1 .. n : /\ starts[i] = request.origin.bytes + 1 + P[i - 1]
                           /\ starts[i] + asked[i].bytes = request.origin.bytes + 1 + P[i]
  <2>1. Sums(P, count, Rest)
    BY <1>3, <1>5
  <2>2. /\ count >= 1
        /\ \A k \in 1 .. count : P[k] = P[k - 1] + lengths[k + 1]
        /\ \A k \in 0 .. count : P[k] \in Nat /\ P[k] <= P[count]
        /\ \A k \in 1 .. Len(starts) :
              /\ starts[k] = lengths[1] + 1 + P[k - 1]
              /\ starts[k] + lengths[k + 1] = lengths[1] + 1 + P[k]
    BY <1>0, <1>1, <2>1, StartsAt
  <2>3. P[0] = 0
    BY <1>5 DEF Sums
  <2> HIDE DEF n
  <2>4. /\ Len(starts) = n /\ count = n /\ lengths[1] = request.origin.bytes
        /\ \A k \in 1 .. n : lengths[k + 1] = asked[k].bytes
    BY <1>1, <1>3, <1>4
  <2>5. \A k \in 1 .. n : P[k] = P[k - 1] + asked[k].bytes
    BY <2>2, <2>4
  <2>6. \A k \in 1 .. n : /\ starts[k] = request.origin.bytes + 1 + P[k - 1]
                          /\ starts[k] + asked[k].bytes = request.origin.bytes + 1 + P[k]
    BY <2>2, <2>4
  <2> QED
    BY <2>2, <2>3, <2>4, <2>5, <2>6
<1> HIDE DEF n
<1>n. n \in Nat /\ request.origin.bytes \in Nat /\ request \in WireRequests
  BY <1>2
<1>7. Len(chars) = request.origin.bytes + 1 + P[n] + 1 /\ P[n] \in Nat
  <2>1. n \in 1 .. n /\ n \in 0 .. n
    BY <1>2, <1>6
  <2> QED
    BY <1>1, <1>3, <1>4, <1>6, <2>1
<1>8. ASSUME NEW i \in 1 .. n, NEW j \in 1 .. asked[i].bytes
      PROVE  chars[starts[i] + j] = [text |-> i, at |-> j]
  <2>1. /\ i - 1 \in 0 .. n /\ i \in 0 .. n /\ asked[i].bytes \in Nat
        /\ starts[i] = request.origin.bytes + 1 + P[i - 1] /\ P[i] = P[i - 1] + asked[i].bytes
    BY <1>2, <1>3, <1>6
  <2>2. P[i - 1] \in Nat /\ P[i] <= P[n] /\ P[i] \in Nat
    BY <1>6, <2>1
  <2>3. /\ starts[i] + j \in request.origin.bytes + 2 .. Len(chars) - 1
        /\ 2 + n + (starts[i] + j) = 3 + n + request.origin.bytes + (P[i - 1] + j)
    <3>1. ASSUME NEW p \in Nat, NEW q \in Nat, NEW a \in Nat, p + a <= q, j <= a
          PROVE  /\ request.origin.bytes + 1 + p + j
                       \in request.origin.bytes + 2 .. (request.origin.bytes + 1 + q + 1) - 1
                 /\ 2 + n + (request.origin.bytes + 1 + p + j) = 3 + n + request.origin.bytes + (p + j)
      BY <1>n, <3>1
    <3>2. P[i - 1] + asked[i].bytes <= P[n] /\ P[n] \in Nat /\ j <= asked[i].bytes
      BY <1>7, <2>1, <2>2
    <3>3. /\ request.origin.bytes + 1 + P[i - 1] + j
                \in request.origin.bytes + 2 .. (request.origin.bytes + 1 + P[n] + 1) - 1
          /\ 2 + n + (request.origin.bytes + 1 + P[i - 1] + j) = 3 + n + request.origin.bytes + (P[i - 1] + j)
      BY <2>1, <2>2, <3>1, <3>2
    <3> QED
      BY <1>7, <2>1, <3>3
  <2>4. chars[starts[i] + j] = Stream[2 + n + (starts[i] + j)]
    BY <1>1, <1>3, <1>4, <2>3
  <2>5. Stream[3 + n + request.origin.bytes + (P[i - 1] + j)] = [text |-> i, at |-> j]
    <3>1. Sums(P, Len(Sent(request)), Sizes(Sent(request)))
      BY <1>1, <1>3, <1>6 DEF Sums, Sizes
    <3>2. /\ i \in 1 .. Len(Sent(request)) /\ j \in 1 .. Sent(request)[i].bytes
          /\ n = Len(Sent(request))
      BY <1>1, <1>3
    <3>3. \A Q : Sums(Q, Len(Sent(request)), Sizes(Sent(request))) =>
             \A k \in 1 .. Len(Sent(request)) : \A l \in 1 .. Sent(request)[k].bytes :
                Stream[3 + Len(Sent(request)) + request.origin.bytes + (Q[k - 1] + l)]
                   = [text |-> k, at |-> l]
      BY <1>n, StreamFacts, Zenon DEF Stream
    <3>4. Stream[3 + Len(Sent(request)) + request.origin.bytes + (P[i - 1] + j)]
             = [text |-> i, at |-> j]
      BY <3>1, <3>2, <3>3, Zenon
    <3> QED
      BY <3>2, <3>4
  <2> QED
    BY <2>3, <2>4, <2>5
<1>9. SubSeq(chars, 1, request.origin.bytes + 1) = Append(Wire!Bytes(0, request.origin.bytes), Wire!Zero)
  <2> DEFINE bytes == Wire!Bytes(0, request.origin.bytes)
             t == Append(bytes, Wire!Zero)
  <2>1. /\ bytes \in Seq(Units) /\ Len(bytes) = request.origin.bytes
        /\ \A j \in 1 .. request.origin.bytes : bytes[j] = [text |-> 0, at |-> j]
    BY <1>2, BytesFacts
  <2>2. Wire!Zero \in Units
    BY DEF Wire!Zero, Units
  <2> HIDE DEF bytes
  <2>3. /\ t \in Seq(Units) /\ Len(t) = request.origin.bytes + 1
        /\ \A j \in 1 .. request.origin.bytes : t[j] = [text |-> 0, at |-> j]
        /\ t[request.origin.bytes + 1] = Wire!Zero
    BY <2>1, <2>2, AppendProperties
  <2> HIDE DEF t
  <2>4. \A j \in 1 .. request.origin.bytes : Stream[3 + n + j] = [text |-> 0, at |-> j]
    <3>1. \A j \in 1 .. request.origin.bytes :
             Stream[3 + Len(Sent(request)) + j] = [text |-> 0, at |-> j]
      BY <1>n, StreamFacts, Zenon DEF Stream
    <3>2. n = Len(Sent(request))
      BY <1>1, <1>3
    <3> QED
      BY <3>1, <3>2, Zenon
  <2>5. ASSUME NEW j \in 1 .. Len(t) PROVE chars[0 + j] = t[j]
    <3>1. 0 + j = j /\ (j \in 1 .. request.origin.bytes \/ j = request.origin.bytes + 1)
      BY <1>n, <2>3
    <3> QED
      BY <1>1, <1>3, <1>4, <2>3, <2>4, <3>1
  <2>6. 0 + Len(t) <= Len(chars) /\ 0 + Len(t) = request.origin.bytes + 1 /\ 0 + 1 = 1
    <3>1. ASSUME NEW p \in Nat
          PROVE  /\ 0 + (request.origin.bytes + 1) <= request.origin.bytes + 1 + p + 1
                 /\ 0 + (request.origin.bytes + 1) = request.origin.bytes + 1 /\ 0 + 1 = 1
      BY <1>n, <3>1
    <3> QED
      BY <1>7, <2>3, <3>1, Zenon
  <2>7. SubSeq(chars, 0 + 1, 0 + Len(t)) = t
    BY <1>2, <2>3, <2>5, <2>6, PartIs
  <2> QED
    BY <2>6, <2>7 DEF t, bytes
<1>10. ASSUME NEW i \in 1 .. n
       PROVE  /\ SubSeq(chars, starts[i] + 1, starts[i] + asked[i].bytes) = Wire!Bytes(i, asked[i].bytes)
              /\ chars[starts[i] + asked[i].bytes + 1] =
                    IF i = n THEN Wire!Zero ELSE Wire!Bytes(i + 1, asked[i + 1].bytes)[1]
  <2>1. /\ i - 1 \in 0 .. n /\ i \in 0 .. n /\ i \in Nat /\ asked[i].bytes \in Nat
        /\ starts[i] = request.origin.bytes + 1 + P[i - 1]
        /\ starts[i] + asked[i].bytes = request.origin.bytes + 1 + P[i]
    BY <1>2, <1>3, <1>6
  <2>2. P[i - 1] \in Nat /\ P[i] <= P[n] /\ P[i] \in Nat
    BY <1>6, <2>1
  <2>3. SubSeq(chars, starts[i] + 1, starts[i] + asked[i].bytes) = Wire!Bytes(i, asked[i].bytes)
    <3> DEFINE t == Wire!Bytes(i, asked[i].bytes)
    <3>1. /\ t \in Seq(Units) /\ Len(t) = asked[i].bytes
          /\ \A j \in 1 .. asked[i].bytes : t[j] = [text |-> i, at |-> j]
      BY <2>1, BytesFacts
    <3> HIDE DEF t
    <3>2. starts[i] \in Nat /\ starts[i] + Len(t) <= Len(chars)
      <4>1. ASSUME NEW o \in Nat, NEW p \in Nat, NEW q \in Nat, NEW l \in Nat, p <= q, l <= q
            PROVE  o + 1 + l \in Nat /\ o + 1 + p <= o + 1 + q + 1
        BY <4>1
      <4>2. /\ P[i - 1] \in Nat /\ P[i - 1] <= P[n] /\ P[i] \in Nat /\ P[i] <= P[n]
            /\ P[n] \in Nat /\ request.origin.bytes \in Nat
        BY <1>6, <1>7, <1>n, <2>1
      <4>3. /\ request.origin.bytes + 1 + P[i - 1] \in Nat
            /\ request.origin.bytes + 1 + P[i] <= request.origin.bytes + 1 + P[n] + 1
        BY <4>1, <4>2
      <4>4. starts[i] + Len(t) = request.origin.bytes + 1 + P[i]
        BY <2>1, <3>1
      <4> QED
        BY <1>7, <2>1, <4>3, <4>4
    <3>3. \A j \in 1 .. Len(t) : chars[starts[i] + j] = t[j]
      BY <1>8, <3>1
    <3>4. SubSeq(chars, starts[i] + 1, starts[i] + Len(t)) = t
      BY <1>2, <3>1, <3>2, <3>3, PartIs
    <3> QED
      BY <3>1, <3>4 DEF t
  <2>4. CASE i = n
    <3>1. starts[i] + asked[i].bytes + 1 = Len(chars)
      BY <1>7, <2>1, <2>4
    <3> QED
      BY <1>1, <2>3, <2>4, <3>1
  <2>5. CASE i # n
    <3>1. i + 1 \in 1 .. n /\ (i + 1) - 1 = i
      BY <1>2, <2>5
    <3>2. starts[i + 1] = request.origin.bytes + 1 + P[i]
      BY <1>6, <3>1
    <3>3. asked[i + 1].bytes \in Nat /\ asked[i + 1].bytes # 0
      <4>1. asked[i + 1].bytes = lengths[(i + 1) + 1] /\ asked[i + 1].bytes \in Nat
        BY <1>3, <1>4, <3>1
      <4>2. (i + 1) + 1 \in 1 .. n + 1 /\ Len(lengths) = n + 1
        BY <1>1, <1>3, <1>n, <3>1
      <4>3. lengths[(i + 1) + 1] # 0
        BY <1>1, <4>2
      <4> QED
        BY <4>1, <4>3
    <3>4. 1 \in 1 .. asked[i + 1].bytes
      BY <3>3
    <3>5. chars[starts[i + 1] + 1] = [text |-> i + 1, at |-> 1]
      BY <1>8, <3>1, <3>4
    <3>6. Wire!Bytes(i + 1, asked[i + 1].bytes)[1] = [text |-> i + 1, at |-> 1]
      <4>1. i + 1 \in Nat /\ asked[i + 1].bytes \in Nat
        BY <2>1, <3>3
      <4>2. \A j \in 1 .. asked[i + 1].bytes :
               Wire!Bytes(i + 1, asked[i + 1].bytes)[j] = [text |-> i + 1, at |-> j]
        BY <4>1, BytesFacts
      <4> QED
        BY <3>4, <4>2
    <3> QED
      BY <2>1, <2>3, <2>5, <3>2, <3>5, <3>6
  <2> QED
    BY <2>4, <2>5
<1> QED
  BY <1>1, <1>2, <1>3, <1>9, <1>10 DEF n

WireInv == part = "wire" => WInv

LEMMA ActionInitially == Init => WireInv
<1> SUFFICES ASSUME WireInit PROVE WireInv
  BY DEF Init, TransportInit, OperationsInit, BuildInit, LibusbInit, MacInit, WinInit,
         WireInv
<1>1. Wire!Init
  BY DEF WireInit
<1> QED
  BY <1>1, WireInitially DEF WireInv

LEMMA ActionStep ==
  ASSUME WireInv, [Next]_vars
  PROVE  WireInv'
<1> SUFFICES ASSUME part' = "wire" PROVE WireInv'
  BY DEF WireInv
<1>1. part = "wire"
  BY DEF Next, vars, TransportAlone, OperationsAlone, BuildAlone, WireAlone, LibusbAlone,
         MacAlone, WinAlone
<1>2. CASE Wire!Next
  BY <1>1, <1>2, WireSteps DEF WireInv
<1>3. CASE UNCHANGED vars
  <2>1. UNCHANGED Wire!vars
    BY <1>3 DEF vars, shared, wireOwn, Wire!vars, Wire!reader
  <2> QED
    BY <1>1, <2>1, WireSteps DEF WireInv
<1> QED
  BY <1>1, <1>2, <1>3
     DEF Next, TransportAlone, OperationsAlone, BuildAlone, WireAlone, LibusbAlone,
         MacAlone, WinAlone

(* The helper runs what the extension wrote, in whatever pieces it came,   *)
(* although the texts are put one after another and overwrite each other's *)
(* zeros, if they are ASCII and their lengths fit into their fields.  Of   *)
(* whatever texts, it has room for what it reads, and it runs nothing that *)
(* has too many challenges: for fields of any width and any requests.      *)
THEOREM DeliveredAlways == Spec => []Delivered
<1>1. Spec => []WireInv
  BY ActionInitially, ActionStep, PTL DEF Spec
<1>2. WireInv => Delivered
  BY AllDelivered, RoomIsThere, NoneTooMany DEF WireInv, Delivered, WInv, WTyped
<1> QED
  BY <1>1, <1>2, PTL

=============================================================================

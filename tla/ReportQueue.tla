----------------------------- MODULE ReportQueue ------------------------------
(***************************************************************************)
(* What hidapi promises about the input reports of one open device         *)
(* (c_src/hidapi/hidapi.h): hid_read hands them out in the order they came *)
(* in, each once; of those nobody reads only the newest are kept; and a    *)
(* read fails only when the device is gone - with some backends only when  *)
(* nothing is left to hand out, either.  LibusbReader, which drains, and   *)
(* MacReader, which does not, are compared with it.                        *)
(***************************************************************************)
EXTENDS Naturals, Sequences

CONSTANTS
    Capacity,       \* how many reports are kept
    Drains          \* whether what is left is handed out before a read fails

CapacityAssumption == Capacity \in Nat \ {0}

VARIABLES
    queue,      \* the reports kept, by number
    arrived,    \* number of the newest report
    taken,      \* number of the report last handed out
    gone,       \* no report comes any more
    failed      \* a read has failed

vars == <<queue, arrived, taken, gone, failed>>

(* What is kept.                                                           *)
Newest(s) == IF Len(s) > Capacity THEN Tail(s) ELSE s

Init ==
    /\ queue = <<>>
    /\ arrived = 0
    /\ taken = 0
    /\ gone = FALSE
    /\ failed = FALSE

(* A report comes in.                                                      *)
Arrive ==
    /\ ~gone
    /\ arrived' = arrived + 1
    /\ queue' = Newest(Append(queue, arrived'))
    /\ UNCHANGED <<taken, gone, failed>>

(* A read.                                                                 *)
HandOut ==
    /\ queue # <<>>
    /\ taken' = Head(queue)
    /\ queue' = Tail(queue)
    /\ UNCHANGED <<arrived, gone, failed>>

Leave ==
    /\ gone' = TRUE
    /\ UNCHANGED <<queue, arrived, taken, failed>>

(* A read that fails.                                                      *)
Fail ==
    /\ gone
    /\ Drains => queue = <<>>
    /\ failed' = TRUE
    /\ UNCHANGED <<queue, arrived, taken, gone>>

Clear ==
    /\ gone
    /\ queue' = <<>>
    /\ UNCHANGED <<arrived, taken, gone, failed>>

Next == Arrive \/ HandOut \/ Leave \/ Fail \/ Clear

Spec == Init /\ [][Next]_vars

-----------------------------------------------------------------------------
TypeOK ==
    /\ arrived \in Nat /\ queue \in Seq(1 .. arrived) /\ taken \in 0 .. arrived
    /\ gone \in BOOLEAN /\ failed \in BOOLEAN

(* The queue is the newest of the reports that have come in, none missing  *)
(* between them, and nothing in it has been handed out before.             *)
KeepsNewest ==
    /\ Len(queue) <= Capacity
    /\ \A i \in 1 .. Len(queue) : queue[i] = arrived - Len(queue) + i
    /\ taken <= arrived - Len(queue)

(* A read has only failed if the device is gone and, with a backend that   *)
(* drains, there is nothing left to read.                                  *)
FailedIsOver == failed => gone /\ (Drains => queue = <<>>)

(* Each report is handed out once, in the order they came in, and with a   *)
(* backend that drains none after a read has failed.                       *)
InOrder == [][taken' # taken => taken < taken' /\ (Drains => ~failed)]_vars

=============================================================================

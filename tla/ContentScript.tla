--------------------------- MODULE ContentScript ---------------------------
(***************************************************************************)
(* The content script of the extension (ext/data/content-script.js): one   *)
(* instance runs in every page and turns the page's u2f.register and       *)
(* u2f.sign calls into "U2FRequest" messages on the add-on port.  Each     *)
(* call gets a callback id, a timeout timer and an entry in "callbacks";   *)
(* the port listener for "U2FRequestResponse" is registered while the      *)
(* counter activeRequests says that some call is outstanding.              *)
(*                                                                         *)
(* JavaScript runs each event to completion, so one action is one event:   *)
(* a call made by the page, a message leaving the port, a timer.  What     *)
(* the page's callback does is up to the page: it may return, throw, and   *)
(* call u2f.* again before doing either.                                   *)
(*                                                                         *)
(* The chrome process (index.js) is external here: it may send up to       *)
(* MaxAnswers responses for any id it was asked about, at any time.        *)
(***************************************************************************)
EXTENDS Integers, Sequences, FiniteSets

CONSTANTS
    MaxRequests,    \* bound: calls of u2f.register/u2f.sign the page makes
    MaxAnswers      \* bound: responses the chrome process sends for one id

ASSUME MaxRequestsAssumption == MaxRequests \in Nat \ {0}
ASSUME MaxAnswersAssumption == MaxAnswers \in Nat

Ids == 0 .. MaxRequests - 1

VARIABLES
    nextCallbackID,
    activeRequests,     \* the counter; it may leave Nat (see Accounting)
    callbacks,          \* the ids that have an entry in the callbacks array
    timers,             \* the ids whose timeout is armed
    listening,          \* whether processChromeResponse is registered
    port,               \* responses on their way to this page
    answers,            \* responses chrome has sent, per id
    calls,              \* history: calls of the page's callback, per id
    settled,            \* history: ids whose callback has returned normally
    throws              \* history: callback calls that threw

vars == <<nextCallbackID, activeRequests, callbacks, timers, listening, port,
          answers, calls, settled, throws>>

Asked == {id \in Ids : id < nextCallbackID}

TypeOK ==
    /\ nextCallbackID \in 0 .. MaxRequests
    /\ activeRequests \in Int
    /\ callbacks \subseteq Asked
    /\ timers \subseteq callbacks
    /\ listening \in BOOLEAN
    /\ port \in Seq(Asked)
    /\ answers \in [Ids -> 0 .. MaxAnswers]
    /\ calls \in [Ids -> Nat]
    /\ settled \subseteq Asked
    /\ throws \in Nat

Init ==
    /\ nextCallbackID = 0
    /\ activeRequests = 0
    /\ callbacks = {}
    /\ timers = {}
    /\ listening = FALSE
    /\ port = <<>>
    /\ answers = [id \in Ids |-> 0]
    /\ calls = [id \in Ids |-> 0]
    /\ settled = {}
    /\ throws = 0

-----------------------------------------------------------------------------
(* What sendToChrome does to the listener and to the timers, and what      *)
(* deliverResponse does to the timers and the entries.  Most are preceded  *)
(* by a faulty variant that only serves to show that a property notices.   *)

StartListening == listening \/ activeRequests = 0

FirstTimerOnly(armed) ==
    IF activeRequests = 0 THEN armed \cup {nextCallbackID} ELSE armed
ArmTimer(armed) == armed \cup {nextCallbackID}

TimerNotCleared(id) == timers
ClearTimer(id) == timers \ {id}

EntryKept(id, threw) == callbacks
EntriesAfter(id, threw) == IF threw THEN callbacks ELSE callbacks \ {id}

ListenerKept(heard, count) == heard
StopListening(heard, count) == heard /\ count # 0

-----------------------------------------------------------------------------
(* The page calls u2f.register or u2f.sign outside of any callback.        *)
SendToChrome ==
    /\ nextCallbackID < MaxRequests
    /\ nextCallbackID' = nextCallbackID + 1
    /\ timers' = ArmTimer(timers)
    /\ callbacks' = callbacks \cup {nextCallbackID}
    /\ listening' = StartListening
    /\ activeRequests' = activeRequests + 1
    /\ UNCHANGED <<port, answers, calls, settled, throws>>

(* deliverResponse for an id that has no entry: the early return.          *)
IgnoreResponse(id) ==
    /\ id \notin callbacks
    /\ UNCHANGED <<nextCallbackID, activeRequests, callbacks, timers,
                   listening, calls, settled, throws>>

(* deliverResponse for a live entry.  The callback runs inside the handler *)
(* and may start one more request (asks) before it returns or throws; the  *)
(* entry is deleted only if it returned, the counter drops either way.     *)
RunCallback(id, asks, threw) ==
    /\ id \in callbacks
    /\ asks => nextCallbackID < MaxRequests
    /\ nextCallbackID' = IF asks THEN nextCallbackID + 1 ELSE nextCallbackID
    /\ timers' = IF asks THEN ArmTimer(ClearTimer(id)) ELSE ClearTimer(id)
    /\ callbacks' = EntriesAfter(id, threw) \cup
                        (IF asks THEN {nextCallbackID} ELSE {})
    /\ activeRequests' = IF asks THEN activeRequests ELSE activeRequests - 1
    /\ listening' = StopListening(IF asks THEN StartListening ELSE listening,
                                  activeRequests')
    /\ calls' = [calls EXCEPT ![id] = @ + 1]
    /\ settled' = IF threw THEN settled ELSE settled \cup {id}
    /\ throws' = IF threw THEN throws + 1 ELSE throws

DeliverResponse(id) ==
    \/ IgnoreResponse(id)
    \/ \E asks, threw \in BOOLEAN : RunCallback(id, asks, threw)

(* A response leaves the port and reaches the registered listener.         *)
ProcessChromeResponse ==
    /\ port # <<>>
    /\ listening
    /\ port' = Tail(port)
    /\ DeliverResponse(Head(port))
    /\ UNCHANGED answers

(* A response leaves the port while no listener is registered.             *)
DropResponse ==
    /\ port # <<>>
    /\ ~listening
    /\ port' = Tail(port)
    /\ UNCHANGED <<nextCallbackID, activeRequests, callbacks, timers,
                   listening, answers, calls, settled, throws>>

(* The timer of sendToChrome fires before anything cleared it.             *)
HandleTimeout(id) ==
    /\ id \in timers
    /\ DeliverResponse(id)
    /\ UNCHANGED <<port, answers>>

(* The chrome process emits a response for a request it has received.      *)
ChromeAnswers(id) ==
    /\ id \in Asked
    /\ answers[id] < MaxAnswers
    /\ answers' = [answers EXCEPT ![id] = @ + 1]
    /\ port' = Append(port, id)
    /\ UNCHANGED <<nextCallbackID, activeRequests, callbacks, timers,
                   listening, calls, settled, throws>>

Next ==
    \/ SendToChrome
    \/ ProcessChromeResponse
    \/ DropResponse
    \/ \E id \in Ids : HandleTimeout(id) \/ ChromeAnswers(id)

(* Timers that are armed and not cleared do fire; nothing else is owed:    *)
(* neither the page nor the chrome process has to act.                     *)
Fairness == \A id \in Ids : WF_vars(HandleTimeout(id))

Spec == Init /\ [][Next]_vars
FairSpec == Spec /\ Fairness

-----------------------------------------------------------------------------
(* activeRequests counts the entries of callbacks, less one for every      *)
(* callback call that threw: a throw skips the delete but not the          *)
(* decrement (content-script.js:19-27).  The listener is registered        *)
(* exactly while the counter is positive, also after it went negative.     *)
Accounting ==
    /\ activeRequests = Cardinality(callbacks) - throws
    /\ listening <=> activeRequests > 0

(* The timeout of a call is armed exactly until its callback first runs:   *)
(* no outstanding call is without its timer, and no answered call, not     *)
(* even one whose callback threw, is reported as timed out later.          *)
TimerGuards == \A id \in callbacks : id \in timers <=> calls[id] = 0

(* Once a callback has returned it is never called again, whatever late    *)
(* or repeated answers arrive.                                             *)
SettledOnce ==
    [][\A id \in settled : calls'[id] = calls[id] /\ id \notin callbacks']_vars

(* Every call of u2f.register or u2f.sign has its callback called, also    *)
(* when the chrome process never answers or its answers are dropped.       *)
EveryCallAnswered ==
    \A id \in Ids : (id < nextCallbackID) ~> (calls[id] > 0)

=============================================================================

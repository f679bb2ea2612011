------------------------------ MODULE Session ------------------------------
(***************************************************************************)
(* The chrome process of the extension (ext/index.js:18-252): it validates *)
(* the requests of all pages, runs one helper process per request, and     *)
(* turns what the helpers print into notifications and verdicts for the    *)
(* pages.  The single global activeRequest is what timers, detached pages  *)
(* and notifications refer to, however many requests are running.          *)
(*                                                                         *)
(* JavaScript runs each event to completion, so one action is one event.   *)
(* The helpers take the steps module HelperSpec allows, in between.        *)
(* Assumed of the add-on SDK: "exit" is delivered after all "data", and a  *)
(* message to a detached page is dropped.                                  *)
(***************************************************************************)
EXTENDS Naturals, Sequences, FiniteSets

CONSTANTS
    Requests,       \* bound: the U2FRequest messages the pages send
    Workers,        \* the pages
    KindsAsked,     \* bound: the kinds of request they send
    NoRequest,      \* activeRequest when it is null
    MaxPrompts      \* bound: prompts one helper prints

Kinds == {"sign", "register", "checked"}

ASSUME KindsAskedAssumption == KindsAsked \subseteq Kinds
ASSUME NoRequestAssumption == NoRequest \notin Requests
ASSUME MaxPromptsAssumption == MaxPrompts \in Nat

VARIABLES
    stage,          \* how far each request has come
    kind,           \* "sign", "register", or "checked": a register that
                    \* comes with sign challenges to check first
    owner,          \* the page it came from
    check,          \* the requests whose checkSignChallenges is not null
    helper,         \* its helper process
    value,          \* response.value: printed, not yet understood
    responded,      \* the requests whose response.responded is true
    timers,         \* the requests whose timer is armed
    killed,         \* the requests whose cmd.killed is true
    activeRequest,
    notes,          \* the requests whose notification is shown
    detached,       \* the pages that are gone
    verdicts,       \* history: what was emitted to the page, per request
    overlapped      \* history: requests that ran while another one did

reqVars == <<stage, kind, owner, check>>
runVars == <<helper, value, responded>>
activeVars == <<timers, killed, activeRequest, notes>>
histVars == <<verdicts, overlapped>>
vars == <<reqVars, runVars, activeVars, detached, histVars>>

H == INSTANCE HelperSpec WITH helper <- helper

Verdicts == H!Answers \cup {"registered", "unknown", "nospawn", "noresponse"}

Running == {r \in Requests : stage[r] \in {"running", "failed"}}

TypeOK ==
    /\ stage \in [Requests -> {"idle", "validating", "checking", "rejected",
                               "running", "failed", "gone"}]
    /\ kind \in [Requests -> Kinds]
    /\ owner \in [Requests -> Workers]
    /\ check \subseteq {r \in Requests : kind[r] = "checked"}
    /\ helper \in [Requests -> H!Helpers]
    /\ value \in [Requests -> Seq(H!Tokens)]
    /\ responded \subseteq Requests
    /\ timers \subseteq Requests
    /\ killed \subseteq Requests
    /\ activeRequest \in Requests \cup {NoRequest}
    /\ notes \subseteq Requests
    /\ detached \subseteq Workers
    /\ verdicts \in [Requests -> Seq(Verdicts)]
    /\ overlapped \subseteq Requests

Init ==
    /\ stage = [r \in Requests |-> "idle"]
    /\ kind = [r \in Requests |-> "sign"]
    /\ owner \in [Requests -> Workers]
    /\ check = {}
    /\ helper = [r \in Requests |-> H!InitHelper]
    /\ value = [r \in Requests |-> <<>>]
    /\ responded = {}
    /\ timers = {}
    /\ killed = {}
    /\ activeRequest = NoRequest
    /\ notes = {}
    /\ detached = {}
    /\ verdicts = [r \in Requests |-> <<>>]
    /\ overlapped = {}

-----------------------------------------------------------------------------
(* cleanNotification: of the active request, whichever that is.            *)
CleanedNotes == notes \ {activeRequest}

Emit(r, v) == verdicts' = [verdicts EXCEPT ![r] = Append(@, v)]

(* What killExe clears and kills.                                          *)
(* Each is preceded by a faulty variant that only shows a property notices.*)
TimerLeft(armed) == armed
TimersWithoutActive(armed) == armed \ {activeRequest}

KilledWithActive == killed \cup ({activeRequest} \ {NoRequest})

(* killExe: kills the active request, whichever that is.                   *)
KillExe(armed) ==
    /\ activeRequest' = NoRequest
    /\ notes' = CleanedNotes
    /\ timers' = TimersWithoutActive(armed)
    /\ killed' = KilledWithActive
    /\ helper' = [r \in Requests |->
                     IF r = activeRequest /\ helper[r].exit = "none"
                     THEN [helper[r] EXCEPT !.exit = "signal"] ELSE helper[r]]

-----------------------------------------------------------------------------
(* A page that is still there sends "U2FRequest"; execBin asks for the     *)
(* valid app ids and waits.                                                *)
ExecBin(r) ==
    /\ stage[r] = "idle"
    /\ owner[r] \notin detached
    /\ stage' = [stage EXCEPT ![r] = "validating"]
    /\ \E k \in KindsAsked : kind' = [kind EXCEPT ![r] = k]
    /\ UNCHANGED <<owner, check, runVars, activeVars, detached, histVars>>

(* What _execBin writes to the stdin of a new helper.                      *)
FirstInput(r) ==
    CASE kind[r] = "sign" -> <<"s", "end">>
      [] kind[r] = "register" -> <<"r", "end">>
      [] kind[r] = "checked" -> <<"s">>

(* _execBin, run when validation is over: activeRequest is overwritten     *)
(* without looking.  A spawn that fails is told by an event later.         *)
_ExecBin(r) ==
    /\ \E s \in {"running", "failed"} : stage' = [stage EXCEPT ![r] = s]
    /\ check' = IF kind[r] = "checked" THEN check \cup {r} ELSE check
    /\ helper' = [helper EXCEPT ![r].inp = FirstInput(r)]
    /\ timers' = timers \cup {r}
    /\ activeRequest' = r
    /\ overlapped' = IF Running = {} THEN overlapped
                     ELSE overlapped \cup Running \cup {r}
    /\ UNCHANGED <<kind, owner, value, responded, killed, notes, detached, verdicts>>

(* No valid app id: the page is told under the event name "register" or    *)
(* "sign", which no page listens to, so nothing reaches it.                *)
Reject(r) ==
    /\ stage' = [stage EXCEPT ![r] = "rejected"]
    /\ UNCHANGED <<kind, owner, check, runVars, activeVars, detached, histVars>>

(* allValidAppIds(challenges) settles - or never does.                     *)
Validated(r) ==
    /\ stage[r] = "validating"
    /\ \/ Reject(r)
       \/ kind[r] # "checked" /\ _ExecBin(r)
       \/ /\ kind[r] = "checked"
          /\ stage' = [stage EXCEPT ![r] = "checking"]
          /\ UNCHANGED <<kind, owner, check, runVars, activeVars, detached, histVars>>

(* allValidAppIds(checkSignChallenges) settles.                            *)
CheckValidated(r) ==
    /\ stage[r] = "checking"
    /\ Reject(r) \/ _ExecBin(r)

-----------------------------------------------------------------------------
HeadIs(v, token) == v # <<>> /\ Head(v) = token
Strip(v, token) == IF HeadIs(v, token) THEN Tail(v) ELSE v

(* The value after the three prompt tests at the top of the "data"         *)
(* handler, in their order, each stripping at most one prompt.  Without an *)
(* active request showNotification throws before its prompt is stripped.   *)
AfterI(v) == Strip(v, "i")
AfterJ(v) == Strip(AfterI(v), "j")
Unprompted(v) ==
    CASE activeRequest = NoRequest /\ HeadIs(v, "i") -> v
      [] activeRequest = NoRequest /\ ~HeadIs(v, "i") /\ HeadIs(AfterJ(v), "b") -> AfterJ(v)
      [] OTHER -> Strip(AfterJ(v), "b")

(* The notification the prompts leave behind: the last one says.           *)
NotesAfter(v) ==
    IF activeRequest = NoRequest THEN notes
    ELSE IF HeadIs(AfterJ(v), "b") THEN notes \cup {activeRequest}
    ELSE IF HeadIs(AfterI(v), "j") THEN CleanedNotes
    ELSE IF HeadIs(v, "i") THEN notes \cup {activeRequest}
    ELSE notes

(* What the handler writes to stdin after an answer to the check.          *)
(* Preceded by a faulty variant that only shows that a property notices.   *)
AlwaysRegister(answer) == <<"r", "end">>
AfterCheck(answer) == IF answer = "err4" THEN <<"r", "end">> ELSE <<"end">>

CheckVerdict(answer) == IF answer = "ok" THEN "registered" ELSE "unknown"

Trimmed(v) == Tail(v)

(* "data" with the next n things printed.  At most one answer is taken,    *)
(* and only if no prompt is left in front of it.                           *)
Data(r, n) ==
    LET read == value[r] \o SubSeq(helper[r].out, 1, n)
        v == Unprompted(read)
        written == IF r \in check THEN AfterCheck(v[1]) ELSE <<>>
        rest == SubSeq(helper[r].out, n + 1, Len(helper[r].out))
    IN  /\ stage[r] = "running"
        /\ n \in 1 .. Len(helper[r].out)
        /\ notes' = NotesAfter(read)
        /\ IF v = <<>> \/ v[1] \notin H!Answers
           THEN /\ value' = [value EXCEPT ![r] = v]
                /\ helper' = [helper EXCEPT ![r].out = rest]
                /\ UNCHANGED <<check, responded, verdicts>>
           ELSE /\ value' = [value EXCEPT ![r] = Trimmed(v)]
                /\ helper' = [helper EXCEPT ![r].out = rest,
                                            ![r].inp = @ \o written]
                /\ check' = IF v[1] = "err4" THEN check \ {r} ELSE check
                /\ responded' = IF r \in check THEN responded
                                ELSE responded \cup {r}
                /\ IF r \notin check THEN Emit(r, v[1])
                   ELSE IF v[1] = "err4" THEN UNCHANGED verdicts
                   ELSE Emit(r, CheckVerdict(v[1]))
        /\ UNCHANGED <<stage, kind, owner, timers, killed, activeRequest,
                       detached, overlapped>>

(* "error": the spawn had failed.                                          *)
SpawnError(r) ==
    /\ stage[r] = "failed"
    /\ stage' = [stage EXCEPT ![r] = "gone"]
    /\ Emit(r, "nospawn")
    /\ KillExe(timers)
    /\ UNCHANGED <<kind, owner, check, value, responded, detached, overlapped>>

(* What "exit" does to the notification, to activeRequest and to the page. *)
(* Each is preceded by a faulty variant that only shows a property notices.*)
NotesKept == notes
NotesAtExit == CleanedNotes

ActiveKept == activeRequest
ActiveAfterExit == NoRequest

OnlyCrashTold(r) ==
    IF r \notin killed /\ helper[r].exit = "signal" THEN <<"nospawn">> ELSE <<>>
ExitVerdict(r) ==
    CASE r \in killed \/ activeRequest = NoRequest -> <<>>
      [] OTHER -> IF helper[r].exit = "signal" THEN <<"nospawn">>
                  ELSE IF r \notin responded THEN <<"noresponse">> ELSE <<>>

(* "exit".  activeRequest.killing is never seen true here: killExe drops   *)
(* the object it marks.                                                    *)
Exit(r) ==
    /\ stage[r] = "running"
    /\ helper[r].exit # "none"
    /\ helper[r].out = <<>>
    /\ stage' = [stage EXCEPT ![r] = "gone"]
    /\ notes' = NotesAtExit
    /\ timers' = timers \ {r}
    /\ activeRequest' = ActiveAfterExit
    /\ verdicts' = [verdicts EXCEPT ![r] = @ \o ExitVerdict(r)]
    /\ helper' = [helper EXCEPT ![r] = H!InitHelper]    \* no longer referenced
    /\ value' = [value EXCEPT ![r] = <<>>]
    /\ UNCHANGED <<kind, owner, check, responded, killed, detached, overlapped>>

(* The timer of _execBin fires before anything cleared it.                 *)
Timer(r) ==
    /\ r \in timers
    /\ KillExe(timers \ {r})
    /\ UNCHANGED <<reqVars, value, responded, detached, histVars>>

(* Preceded by a faulty variant that only shows that a property notices.   *)
NeverOwned(w) == FALSE
ActiveOwned(w) == activeRequest # NoRequest /\ owner[activeRequest] = w

(* A page goes away.                                                       *)
Detach(w) ==
    /\ w \notin detached
    /\ detached' = detached \cup {w}
    /\ IF ActiveOwned(w) THEN KillExe(timers) ELSE UNCHANGED <<activeVars, helper>>
    /\ UNCHANGED <<reqVars, value, responded, histVars>>

-----------------------------------------------------------------------------
HelperWorks(r) ==
    /\ stage[r] = "running"
    /\ \E h \in H!HelperSteps(helper[r]) : helper' = [helper EXCEPT ![r] = h]
    /\ UNCHANGED <<reqVars, value, responded, activeVars, detached, histVars>>

(* The part of HelperWorks that is owed: the helper's alarm.               *)
(* Preceded by a faulty variant that only shows that a property notices.   *)
AlarmWhileIdle(r) == helper[r].exit = "none" /\ helper[r].op = "idle"
AlarmSet(r) == helper[r].exit = "none"

HelperDies(r) ==
    /\ stage[r] = "running"
    /\ AlarmSet(r)
    /\ helper' = [helper EXCEPT ![r].exit = "code"]
    /\ UNCHANGED <<reqVars, value, responded, activeVars, detached, histVars>>

SomeData(r) == \E n \in 1 .. Len(helper[r].out) : Data(r, n)

Next ==
    \/ \E r \in Requests :
          \/ ExecBin(r) \/ Validated(r) \/ CheckValidated(r)
          \/ SomeData(r) \/ SpawnError(r) \/ Exit(r) \/ Timer(r)
          \/ HelperWorks(r)
    \/ \E w \in Workers : Detach(w)

(* Events that are due are delivered, timers fire, and a helper does not   *)
(* outlive its alarm (main.c:33, 168-172).  Validation may never settle.   *)
Fairness ==
    \A r \in Requests :
        /\ WF_vars(SomeData(r)) /\ WF_vars(SpawnError(r)) /\ WF_vars(Exit(r))
        /\ WF_vars(Timer(r)) /\ WF_vars(HelperDies(r))

Spec == Init /\ [][Next]_vars
FairSpec == Spec /\ Fairness

-----------------------------------------------------------------------------
(* activeRequest is always a request that is running and was not killed;   *)
(* no timer, detach or exit leaves it pointing at a finished one.          *)
ActiveRuns ==
    activeRequest # NoRequest => activeRequest \in Running \ killed

(* A running request that has met no other one, and was not killed, is the *)
(* active one: its timer, its page's detach and its prompts act on itself. *)
(* Overlapping requests lose this (index.js:189-196, 215).                 *)
AloneIsActive ==
    \A r \in Running \ (killed \cup overlapped) : activeRequest = r

(* activeRequest is a request that runs and was not killed, and a request  *)
(* that runs without having met another one is activeRequest.              *)
ActiveFits == ActiveRuns /\ AloneIsActive

(* A register never reaches the helper before its check was answered with  *)
(* code 4, whatever was coalesced, delayed or left behind a prompt.        *)
RegisterAfterCheck ==
    \A r \in check :
        /\ helper[r].op # "r"
        /\ \A k \in DOMAIN helper[r].inp : helper[r].inp[k] # "r"

(* The page hears about its own question: a checked register is never      *)
(* given the check's code 4 as its verdict, a sign never "already          *)
(* registered", and success comes first or not at all, since the page      *)
(* listens to the first verdict only.                                      *)
VerdictsFit ==
    \A r \in Requests : \A k \in DOMAIN verdicts[r] :
        /\ verdicts[r][k] = "err4" => kind[r] = "sign"
        /\ verdicts[r][k] = "registered" => kind[r] = "checked"
        /\ verdicts[r][k] \in {"ok", "registered"} => k = 1

(* With overlapping requests too, a register never reaches the helper      *)
(* before its check was answered with code 4, and the page hears about its *)
(* own question, however the prints of the helpers are coalesced.          *)
AnswersFit == TypeOK /\ RegisterAfterCheck /\ VerdictsFit

(* A notification that is shown is the active request's, so that its next  *)
(* prompt, its kill or its exit removes it - unless requests overlapped.   *)
NotesRemovable == \A r \in notes : activeRequest = r \/ r \in overlapped

(* A timer that is armed kills the request it was set for and no other,    *)
(* unless they overlapped.                                                 *)
TimerKillsOwn ==
    \A r \in timers : activeRequest \in {r, NoRequest} \/ r \in overlapped

(* When a page goes away, the helper it has running alone is killed.       *)
DetachKills ==
    [][\A w \in detached' \ detached : \A r \in Running \ overlapped :
          owner[r] = w => r \in killed']_vars

(* A running request gets a verdict, unless it is killed or others ran     *)
(* beside it - however the helper dies and whatever it leaves unread.      *)
VerdictOrKill ==
    \A r \in Requests :
        (stage[r] = "running") ~>
            (verdicts[r] # <<>> \/ r \in killed \/ r \in overlapped)

(* Every helper is reaped, also one that overlapped or lost its page.      *)
EveryHelperReaped == \A r \in Requests : (r \in Running) ~> (stage[r] = "gone")

=============================================================================

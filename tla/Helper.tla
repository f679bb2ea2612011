------------------------------- MODULE Helper -------------------------------
(***************************************************************************)
(* The main loop of the u2f helper (c_src/main.c:177-295): one process per *)
(* request of the extension.  Each turn of the loop looks for devices,     *)
(* announces a change of the device state, reads an action from stdin when *)
(* it has none, and runs the action against the devices until it can be    *)
(* answered.  An action that failed while the device went away is kept and *)
(* run again when a device is back.                                        *)
(*                                                                         *)
(* One action of the model is one call of main that can block or print.    *)
(* What u2fh_devs_discover, u2fh_register and u2fh_authenticate return is  *)
(* chosen among what they can return.  The extension is the environment:   *)
(* it writes actions the way index.js does (see Extension).  stdout is     *)
(* kept whole, as a history.                                               *)
(***************************************************************************)
EXTENDS Naturals, Sequences, FiniteSets

CONSTANTS
    MaxPrompts,     \* bound: prompts the devices give rise to
    NumChallenges,  \* challenges of one action
    PollLimit       \* the 15 of "while (requests_count++ < 15)"

ASSUME MaxPromptsAssumption == MaxPrompts \in Nat
ASSUME NumChallengesAssumption == NumChallenges \in Nat \ {0}
ASSUME PollLimitAssumption == PollLimit \in Nat

Actions == {"s", "r"}
Messages == Actions \cup {"end"}
Prompts == {"i", "j", "b"}
Answers == {"ok", "err4", "err"}
Tokens == Prompts \cup Answers

VARIABLES
    pc,                 \* the next call of main
    exit,               \* "none", or how the process ended
    rc,                 \* main's rc, and the outcome of the last u2fh_ call
    action,             \* the OP it has read: "none" or a member of Actions
    deviceState,        \* device_state
    disappeared,        \* device_disappeared_rc, "none" for U2FH_OK
    requestsCount,      \* requests_count
    challenge,          \* i of the inner loop
    response,           \* the pointer: "null", "live" or "freed"
    misuse,             \* history: freed response freed again or printed
    prompts,            \* history: prompts printed
    inp,                \* stdin, not yet read
    out,                \* history: stdout
    script,             \* Extension: messages it is about to write
    checking            \* Extension: whether "s" was the check of a register

loopVars == <<rc, action, deviceState, disappeared, requestsCount, challenge>>
pipeVars == <<inp, out, prompts>>
extVars == <<script, checking>>
vars == <<pc, exit, loopVars, response, misuse, pipeVars, extVars>>

TypeOK ==
    /\ pc \in {"init", "discover", "report", "announce", "read",
               "op", "judge", "answer"}
    /\ exit \in {"none", "code", "signal"}
    /\ rc \in {"ok", "nodevice", "memory", "notfinished", "auth", "error"}
    /\ action \in Actions \cup {"none"}
    /\ deviceState \in {"u", "m", "p", "b"}
    /\ disappeared \in {"none", "auth", "error"}
    /\ requestsCount \in 0 .. PollLimit + 1
    /\ challenge \in 0 .. NumChallenges
    /\ response \in {"null", "live", "freed"}
    /\ misuse \in BOOLEAN
    /\ prompts \in 0 .. MaxPrompts
    /\ inp \in Seq(Messages)
    /\ out \in Seq(Tokens)
    /\ script \in Seq(Messages)
    /\ checking \in BOOLEAN

Init ==
    /\ pc = "init"
    /\ exit = "none"
    /\ rc = "ok"
    /\ action = "none"
    /\ deviceState = "u"
    /\ disappeared = "none"
    /\ requestsCount = 0
    /\ challenge = 0
    /\ response = "null"
    /\ misuse = FALSE
    /\ prompts = 0
    /\ inp = <<>>
    /\ out = <<>>
    /\ \/ script \in {<<"s", "end">>, <<"r", "end">>} /\ checking = FALSE
       \/ script = <<"s">> /\ checking = TRUE

Running(label) == exit = "none" /\ pc = label

Say(token) == out' = Append(out, token)

CanPrompt == prompts < MaxPrompts

PrintPrompt(token, state) ==
    /\ Say(token)
    /\ prompts' = prompts + 1
    /\ deviceState' = state

NoPrompt == UNCHANGED <<out, prompts, deviceState>>

(* free(response): the pointer is not reset, so a second free is undefined. *)
FreeResponse ==
    /\ response' = IF response = "live" THEN "freed" ELSE response
    /\ misuse' = (misuse \/ response = "freed")

(* What report_error makes of an rc of an action; a faulty variant first.  *)
AnyErrorIsFour(code) == "err4"
ErrorToken(code) == IF code = "auth" THEN "err4" ELSE "err"

-----------------------------------------------------------------------------
(* u2fh_global_init and u2fh_devs_init; a failure is reported and final.   *)
Start ==
    /\ Running("init")
    /\ \/ pc' = "discover" /\ UNCHANGED <<exit, out>>
       \/ exit' = "code" /\ Say("err") /\ UNCHANGED pc
    /\ UNCHANGED <<loopVars, response, misuse, inp, prompts, extVars>>

(* Whether the error kept from the last turn is due.  Preceded by a faulty *)
(* variant that only serves to show that a property notices.               *)
NeverReports(found) == FALSE
ReportsNow(found) == disappeared # "none" /\ found # "nodevice"

(* u2fh_devs_discover.  The last two conjuncts bound the device changes.   *)
Discover ==
    /\ Running("discover")
    /\ rc' \in {"ok", "nodevice", "memory"}
    /\ rc' = "ok" /\ deviceState = "m" => CanPrompt
    /\ rc' = "nodevice" /\ deviceState # "m" => CanPrompt
    /\ pc' = IF ReportsNow(rc') THEN "report" ELSE "announce"
    /\ UNCHANGED <<exit, action, deviceState, disappeared, requestsCount,
                   challenge, response, misuse, pipeVars, extVars>>

(* The action failed although no device went away: it is answered.         *)
ReportDisappeared ==
    /\ Running("report")
    /\ Say(ErrorToken(disappeared))
    /\ FreeResponse
    /\ action' = "none"
    /\ pc' = "announce"
    /\ UNCHANGED <<exit, rc, deviceState, disappeared, requestsCount,
                   challenge, inp, prompts, extVars>>

DiscoverFailed ==
    /\ Running("announce")
    /\ rc = "memory"
    /\ Say("err")
    /\ exit' = "code"
    /\ UNCHANGED <<pc, loopVars, response, misuse, inp, prompts, extVars>>

(* Preceded by a faulty variant that only shows that a property notices.   *)
DeviceIsNew == rc = "ok" /\ deviceState # "p"
DeviceIsBack == rc = "ok" /\ deviceState = "m"

Announce ==
    /\ Running("announce")
    /\ rc # "memory"
    /\ CASE DeviceIsBack -> PrintPrompt("j", "p")
         [] rc = "nodevice" /\ deviceState # "m" -> PrintPrompt("i", "m")
         [] OTHER -> NoPrompt
    /\ disappeared' = "none"
    /\ pc' = "read"
    /\ UNCHANGED <<exit, rc, action, requestsCount, challenge, response,
                   misuse, inp, extVars>>

-----------------------------------------------------------------------------
(* The action held after read_action runs if there is a device.            *)
StartAction ==
    IF action' # "none" /\ rc = "ok"
    THEN pc' = "op" /\ requestsCount' = 0 /\ challenge' = 0
    ELSE pc' = "discover" /\ UNCHANGED <<requestsCount, challenge>>

(* read_action, called only without an action; nothing may have come yet.  *)
ReadAction ==
    /\ Running("read")
    /\ action = "none"
    /\ \/ inp = <<>> /\ UNCHANGED <<action, inp>>
       \/ /\ inp # <<>>
          /\ Head(inp) # "end"
          /\ action' = Head(inp)
          /\ inp' = Tail(inp)
    /\ StartAction
    /\ UNCHANGED <<exit, rc, deviceState, disappeared, response, misuse, out,
                   prompts, extVars>>

(* read_action at the end of stdin returns eof_op: the process is done.    *)
ReadEnd ==
    /\ Running("read")
    /\ action = "none"
    /\ inp # <<>>
    /\ Head(inp) = "end"
    /\ exit' = "code"
    /\ UNCHANGED <<pc, loopVars, response, misuse, pipeVars, extVars>>

(* The action kept from an earlier turn, after the sleep.                  *)
KeepAction ==
    /\ Running("read")
    /\ action # "none"
    /\ action' = action
    /\ StartAction
    /\ UNCHANGED <<exit, rc, deviceState, disappeared, response, misuse,
                   pipeVars, extVars>>

-----------------------------------------------------------------------------
(* One call of u2fh_register or u2fh_authenticate.  Both may return OK     *)
(* without a response (prepare_response failed); only the latter returns   *)
(* AUTHENTICATOR_ERROR, which makes the loop try the next challenge.       *)
CallDevice ==
    /\ Running("op")
    /\ rc' \in {"ok", "notfinished", "error"} \cup
                  (IF action = "s" THEN {"auth"} ELSE {})
    /\ rc' = "notfinished" /\ deviceState # "b" => CanPrompt
    /\ IF rc' = "ok" THEN response' \in {response, "live"}
                     ELSE UNCHANGED response
    /\ challenge' = challenge + 1
    /\ pc' = IF challenge' < NumChallenges /\ rc' = "auth" THEN "op" ELSE "judge"
    /\ UNCHANGED <<exit, action, deviceState, disappeared, requestsCount,
                   misuse, pipeVars, extVars>>

PollAgain == rc = "notfinished" /\ requestsCount < PollLimit

(* The poll loop: prompt for the button, count, and call again or leave.   *)
Judge ==
    /\ Running("judge")
    /\ IF rc = "notfinished" /\ deviceState # "b"
       THEN PrintPrompt("b", "b") ELSE NoPrompt
    /\ requestsCount' = IF rc = "notfinished"
                        THEN requestsCount + 1 ELSE requestsCount
    /\ IF PollAgain
       THEN pc' = "op" /\ challenge' = 0
       ELSE pc' = "answer" /\ UNCHANGED challenge
    /\ UNCHANGED <<exit, rc, action, disappeared, response, misuse, inp,
                   extVars>>

AnswerAndFree(token) ==
    /\ Say(token)
    /\ FreeResponse
    /\ action' = "none"
    /\ pc' = "discover"
    /\ UNCHANGED <<exit, disappeared>>

(* The limit comes first: even a response that came in the last call is    *)
(* then freed and reported as a timeout.                                   *)
AnswerTimeout ==
    /\ Running("answer")
    /\ requestsCount >= PollLimit
    /\ AnswerAndFree("err")
    /\ UNCHANGED <<rc, deviceState, requestsCount, challenge, inp, prompts,
                   extVars>>

(* Another error is kept until discover tells whether the device is gone.  *)
PostponeError ==
    /\ Running("answer")
    /\ requestsCount < PollLimit
    /\ rc # "ok"
    /\ disappeared' = rc
    /\ pc' = "discover"
    /\ UNCHANGED <<exit, rc, action, deviceState, requestsCount, challenge,
                   response, misuse, pipeVars, extVars>>

AnswerOk ==
    /\ Running("answer")
    /\ requestsCount < PollLimit
    /\ rc = "ok"
    /\ response # "null"
    /\ AnswerAndFree("ok")
    /\ UNCHANGED <<rc, deviceState, requestsCount, challenge, inp, prompts,
                   extVars>>

(* OK without a response: strlen(NULL).                                    *)
PrintNull ==
    /\ Running("answer")
    /\ requestsCount < PollLimit
    /\ rc = "ok"
    /\ response = "null"
    /\ exit' = "signal"
    /\ UNCHANGED <<pc, loopVars, response, misuse, pipeVars, extVars>>

(* The alarm of reset_quit_timer, or the extension's kill.                 *)
Die ==
    /\ exit = "none"
    /\ exit' \in {"code", "signal"}
    /\ UNCHANGED <<pc, loopVars, response, misuse, pipeVars, extVars>>

-----------------------------------------------------------------------------
(* The extension, as index.js drives one helper: a plain sign or register  *)
(* action and the end of stdin, or the check of a register first, then the *)
(* register only if the check was answered with code 4, then the end.      *)
ExtensionWrites ==
    /\ script # <<>>
    /\ inp' = Append(inp, Head(script))
    /\ script' = Tail(script)
    /\ UNCHANGED <<pc, exit, loopVars, response, misuse, out, prompts, checking>>

Answered == {k \in DOMAIN out : out[k] \in Answers}

(* Preceded by a faulty variant that only shows that a property notices.   *)
RegisterAnyway(answer) == <<"r", "end">>
FollowUp(answer) == IF answer = "err4" THEN <<"r", "end">> ELSE <<"end">>

ExtensionFollows ==
    /\ checking
    /\ \E k \in Answered :
          /\ \A n \in Answered : k <= n
          /\ script' = FollowUp(out[k])
    /\ checking' = FALSE
    /\ UNCHANGED <<pc, exit, loopVars, response, misuse, pipeVars>>

Main ==
    \/ Start \/ Discover \/ ReportDisappeared \/ DiscoverFailed \/ Announce
    \/ ReadAction \/ ReadEnd \/ KeepAction
    \/ CallDevice \/ Judge
    \/ AnswerTimeout \/ PostponeError \/ AnswerOk \/ PrintNull

Next == Main \/ Die \/ ExtensionWrites \/ ExtensionFollows

(* The process keeps running: its calls return.                            *)
Fairness == WF_vars(Main)

Spec == Init /\ [][Next]_vars
FairSpec == Spec /\ Fairness

-----------------------------------------------------------------------------
(* The response pointer is never freed twice nor printed after it was      *)
(* freed, although main never resets it (main.c:207, 276, 280): what keeps *)
(* this true is that the extension sends a second action only after an     *)
(* error answer.  A freed response is also never the one of a later action.*)
ResponseOwned ==
    /\ ~misuse
    /\ response = "live" => action # "none"
    /\ Running("answer") /\ requestsCount < PollLimit /\ rc = "ok" =>
          response # "freed"

(* The variables have their types, and the response pointer of main.c is   *)
(* never freed twice nor printed after it was freed.                       *)
Owned == TypeOK /\ ResponseOwned

(* The last prompt before place k of stdout is one of these.               *)
LastPromptIn(said, k, these) ==
    \E j \in 1 .. k - 1 :
        said[j] \in these /\ \A i \in j + 1 .. k - 1 : said[i] \notin Prompts

(* The prompts tell a consistent story: "i" is followed by "j" before any  *)
(* other prompt or another "i", "j" comes only after "i", and between two  *)
(* "b" the device went away and came back - also across the actions and    *)
(* the retries of one process, and whatever is answered in between.        *)
PromptsConsistent ==
    \A k \in 1 .. Len(out) :
        /\ out[k] \in Prompts => (out[k] = "j" <=> LastPromptIn(out, k, {"i"}))
        /\ out[k] = "b" => ~LastPromptIn(out, k, {"i", "b"})

(* main.c does what HelperSpec promises the extension.                     *)
AsHelper ==
    [exit |-> exit, op |-> IF action = "none" THEN "idle" ELSE action,
     dev |-> deviceState, prompts |-> prompts, inp |-> inp, out |-> out]

HS == INSTANCE HelperSpec WITH helper <- AsHelper

ImplementsHelperSpec == HS!Spec

(* An action that was read is answered, unless the process ends or it is   *)
(* told that no device is there: the poll loop gives up (main.c:267-270)   *)
(* and a postponed error is not forgotten while a device is present.       *)
AnsweredOrWaiting ==
    action # "none" ~> (action = "none" \/ exit # "none" \/ deviceState = "m")

=============================================================================

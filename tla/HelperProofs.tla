---------------------------- MODULE HelperProofs ----------------------------
(***************************************************************************)
(* Proofs about Helper, for every poll limit, number of challenges and of  *)
(* prompts: its variables have their types, the response pointer is used   *)
(* properly, the prompts tell a consistent story, and main.c keeps the     *)
(* promises of HelperSpec.  And about the table under the JSON objects it  *)
(* is told and answers with (MCTable), for every hash function, any keys   *)
(* and values and every first size: what a lookup finds, how the entries   *)
(* are linked, what the object holds, and that it is an ordered map.       *)
(***************************************************************************)
EXTENDS Helper, MCTable, FiniteSetTheorems, SequenceTheorems, WellFoundedInduction,
        TLAPS

(* What main knows at each of its calls: the outcomes that lead there, and *)
(* that an action in work has a device, or had one in the turn before.     *)
Outcomes ==
    /\ pc \in {"report", "announce", "read"} => rc \in {"ok", "nodevice", "memory"}
    /\ pc = "read" => rc # "memory"
    /\ pc = "op" => rc \in {"ok", "notfinished", "auth"}
    /\ pc \in {"judge", "answer"} => rc \in {"ok", "notfinished", "auth", "error"}
    /\ pc = "answer" /\ rc = "notfinished" => requestsCount >= PollLimit
    /\ pc \in {"op", "judge"} => requestsCount <= PollLimit
    /\ pc = "op" => challenge < NumChallenges

InWork ==
    /\ pc \in {"op", "judge", "answer"} => action # "none" /\ deviceState # "m"
    /\ pc \in {"op", "judge", "answer"} /\ rc = "auth" => action = "s"
    /\ pc = "read" /\ rc = "ok" => deviceState # "m"
    /\ pc = "report" => disappeared # "none"
    /\ pc \in {"init", "read", "op", "judge", "answer"} => disappeared = "none"
    /\ disappeared # "none" /\ pc # "announce" => action # "none" /\ deviceState # "m"
    /\ disappeared = "auth" /\ pc # "announce" => action = "s"

(* The bound on prompts was met by the call that gives rise to one.        *)
PromptsLeft ==
    /\ pc \in {"report", "announce"} /\ rc = "ok" /\ deviceState = "m" => CanPrompt
    /\ pc \in {"report", "announce"} /\ rc = "nodevice" /\ deviceState # "m" => CanPrompt
    /\ pc = "judge" /\ rc = "notfinished" /\ deviceState # "b" => CanPrompt

TurnInv == TypeOK /\ Outcomes /\ InWork /\ PromptsLeft

-----------------------------------------------------------------------------
LEMMA SayTyped ==
    ASSUME TypeOK, NEW token \in Tokens, Say(token)
    PROVE  out' \in Seq(Tokens)
  BY AppendProperties DEF TypeOK, Say

(* The texts of the extension.                                             *)
LEMMA Scripts ==
    /\ <<>> \in Seq(Messages) /\ <<>> \in Seq(Tokens)
    /\ <<"s">> \in Seq(Messages) /\ <<"end">> \in Seq(Messages)
    /\ <<"s", "end">> \in Seq(Messages) /\ <<"r", "end">> \in Seq(Messages)
<1> DEFINE M == Messages
<1>1. "s" \in M /\ "r" \in M /\ "end" \in M
  BY DEF Messages, Actions
<1> HIDE DEF M
<1>2. <<"s">> \in Seq(M) /\ <<"end">> \in Seq(M)
      /\ <<"s", "end">> \in Seq(M) /\ <<"r", "end">> \in Seq(M)
  BY <1>1
<1> QED
  BY <1>2, EmptySeq DEF M

LEMMA InitTurn == Init => TurnInv
<1> SUFFICES ASSUME Init PROVE TurnInv
  OBVIOUS
<1>1. script \in Seq(Messages) /\ checking \in BOOLEAN
  BY Scripts DEF Init
<1>2. 0 \in 0 .. PollLimit + 1 /\ 0 \in 0 .. NumChallenges /\ 0 \in 0 .. MaxPrompts
  BY MaxPromptsAssumption, NumChallengesAssumption, PollLimitAssumption
<1>3. misuse \in BOOLEAN /\ inp \in Seq(Messages) /\ out \in Seq(Tokens)
  BY EmptySeq DEF Init
<1>4. TypeOK
  BY <1>1, <1>2, <1>3 DEF Init, TypeOK
<1> QED
  BY <1>4 DEF Init, TurnInv, Outcomes, InWork, PromptsLeft

(* One turn of the main loop after the other.                              *)
LEMMA NextTurn == TurnInv /\ [Next]_vars => TurnInv'
<1> SUFFICES ASSUME TurnInv, [Next]_vars PROVE TurnInv'
  OBVIOUS
<1> USE MaxPromptsAssumption, NumChallengesAssumption, PollLimitAssumption
    DEF loopVars, pipeVars, extVars, Running, CanPrompt, TurnInv, Outcomes, InWork,
        PromptsLeft
<1>p. "i" \in Tokens /\ "j" \in Tokens /\ "b" \in Tokens
  BY DEF Tokens, Prompts
<1>a. "ok" \in Tokens /\ "err" \in Tokens /\ "err4" \in Tokens
  BY DEF Tokens, Answers
<1>1. CASE Start
  BY <1>1, <1>a, SayTyped DEF Start, TypeOK
<1>2. CASE Discover
  BY <1>2 DEF Discover, ReportsNow, TypeOK
<1>3. CASE ReportDisappeared
  BY <1>3, <1>a, SayTyped DEF ReportDisappeared, ErrorToken, FreeResponse, TypeOK
<1>4. CASE DiscoverFailed
  BY <1>4, <1>a, SayTyped DEF DiscoverFailed, TypeOK
<1>5. CASE Announce
  <2>1. CASE rc = "ok" /\ deviceState = "m"
    BY <1>5, <2>1, <1>p, SayTyped DEF Announce, DeviceIsBack, PrintPrompt, TypeOK
  <2>2. CASE rc = "nodevice" /\ deviceState # "m"
    BY <1>5, <2>2, <1>p, SayTyped DEF Announce, DeviceIsBack, PrintPrompt, TypeOK
  <2>3. CASE ~(rc = "ok" /\ deviceState = "m") /\ ~(rc = "nodevice" /\ deviceState # "m")
    BY <1>5, <2>3 DEF Announce, DeviceIsBack, NoPrompt, TypeOK
  <2> QED
    BY <2>1, <2>2, <2>3
<1>6. CASE ReadAction
  <2>1. inp' \in Seq(Messages) /\ action' \in Actions \cup {"none"}
    <3>1. CASE inp = <<>>
      BY <1>6, <3>1 DEF ReadAction, TypeOK
    <3>2. CASE inp # <<>>
      <4>1. Head(inp) \in Messages /\ Tail(inp) \in Seq(Messages)
        BY <3>2, HeadTailProperties DEF TypeOK
      <4> QED
        BY <1>6, <3>2, <4>1 DEF ReadAction, Messages
    <3> QED
      BY <3>1, <3>2
  <2> QED
    BY <1>6, <2>1 DEF ReadAction, StartAction, TypeOK
<1>7. CASE ReadEnd
  BY <1>7 DEF ReadEnd, TypeOK
<1>8. CASE KeepAction
  BY <1>8 DEF KeepAction, StartAction, TypeOK
<1>9. CASE CallDevice
  BY <1>9 DEF CallDevice, TypeOK
<1>10. CASE Judge
  <2>1. CASE rc = "notfinished" /\ deviceState # "b"
    BY <1>10, <2>1, <1>p, SayTyped DEF Judge, PollAgain, PrintPrompt, TypeOK
  <2>2. CASE ~(rc = "notfinished" /\ deviceState # "b")
    BY <1>10, <2>2 DEF Judge, PollAgain, NoPrompt, TypeOK
  <2> QED
    BY <2>1, <2>2
<1>11. CASE AnswerTimeout
  BY <1>11, <1>a, SayTyped DEF AnswerTimeout, AnswerAndFree, FreeResponse, TypeOK
<1>12. CASE PostponeError
  BY <1>12 DEF PostponeError, TypeOK
<1>13. CASE AnswerOk
  BY <1>13, <1>a, SayTyped DEF AnswerOk, AnswerAndFree, FreeResponse, TypeOK
<1>14. CASE PrintNull
  BY <1>14 DEF PrintNull, TypeOK
<1>15. CASE Die
  BY <1>15 DEF Die, TypeOK
<1>16. CASE ExtensionWrites
  <2>1. inp' \in Seq(Messages) /\ script' \in Seq(Messages)
    BY <1>16, HeadTailProperties, AppendProperties DEF ExtensionWrites, TypeOK
  <2> QED
    BY <1>16, <2>1 DEF ExtensionWrites, TypeOK
<1>17. CASE ExtensionFollows
  <2>1. script' \in Seq(Messages)
    BY <1>17, Scripts DEF ExtensionFollows, FollowUp
  <2>2. checking' \in BOOLEAN
    BY <1>17 DEF ExtensionFollows
  <2>3. UNCHANGED <<pc, exit, loopVars, response, misuse, pipeVars>>
    BY <1>17 DEF ExtensionFollows
  <2> QED
    BY <2>1, <2>2, <2>3 DEF TypeOK
<1>18. CASE UNCHANGED vars
  BY <1>18 DEF vars, TypeOK
<1> QED
  BY <1>1, <1>2, <1>3, <1>4, <1>5, <1>6, <1>7, <1>8, <1>9, <1>10, <1>11, <1>12,
     <1>13, <1>14, <1>15, <1>16, <1>17, <1>18 DEF Next, Main

LEMMA TurnHolds == Spec => []TurnInv
  BY InitTurn, NextTurn, PTL DEF Spec

-----------------------------------------------------------------------------
(* main.c keeps the promises of HelperSpec.                                *)
LEMMA InitMaps == Init => HS!Init
  BY DEF Init, HS!Init, AsHelper, HS!InitHelper

(* The state after a step, field by field: the set of the one helper that  *)
(* has these fields shows a changed record to be AsHelper'.                *)
Only == [exit: {exit'}, op: {IF action' = "none" THEN "idle" ELSE action'},
         dev: {deviceState'}, prompts: {prompts'}, inp: {inp'}, out: {out'}]

LEMMA OnlyOne ==
    ASSUME NEW h \in Only
    PROVE  AsHelper' = h
<1>1. AsHelper' \in Only
  BY DEF AsHelper, Only
<1> QED
  BY <1>1 DEF Only

(* A prompt of main is one that HelperSpec allows.                         *)
LEMMA PromptMaps ==
    ASSUME exit = "none", exit' = exit, action' = action, inp' = inp, CanPrompt,
           NEW token, NEW state, PrintPrompt(token, state),
           \/ deviceState # "m" /\ token = "i" /\ state = "m"
           \/ deviceState = "m" /\ token = "j" /\ state = "p"
           \/ action # "none" /\ deviceState \in {"u", "p"} /\ token = "b" /\ state = "b",
           action # "idle"
    PROVE  HS!Work
<1>1. AsHelper' = HS!Prompt(AsHelper, token, state)
  <2>1. HS!Prompt(AsHelper, token, state) \in Only
    BY DEF PrintPrompt, Say, AsHelper, HS!Prompt, Only
  <2> QED
    BY <2>1, OnlyOne
<1>2. HS!Prompt(AsHelper, token, state) \in HS!PromptSteps(AsHelper)
  BY DEF CanPrompt, HS!PromptSteps, HS!When, AsHelper
<1> QED
  BY <1>1, <1>2 DEF HS!Work, HS!HelperSteps, HS!When, AsHelper

(* An answer of main is one that HelperSpec allows.                        *)
LEMMA AnswerMaps ==
    ASSUME exit = "none", exit' = exit, action \in Actions, action' = "none",
           deviceState # "m", UNCHANGED <<deviceState, prompts, inp>>,
           NEW token, Say(token), token \in HS!AnswersTo(action)
    PROVE  HS!Work
<1>1. AsHelper' = [AsHelper EXCEPT !.op = "idle", !.out = Append(@, token)]
  <2>1. [AsHelper EXCEPT !.op = "idle", !.out = Append(@, token)] \in Only
    BY DEF Say, AsHelper, Only
  <2> QED
    BY <2>1, OnlyOne
<1>2. AsHelper.op = action /\ AsHelper.dev # "m" /\ action # "idle"
  BY DEF AsHelper, Actions
<1>3. AsHelper' \in HS!AnswerSteps(AsHelper)
  BY <1>1, <1>2 DEF HS!AnswerSteps, HS!When
<1> QED
  BY <1>3 DEF HS!Work, HS!HelperSteps, HS!When, AsHelper

(* The end of the process, with a last error if it is main's own.          *)
LEMMA EndMaps ==
    ASSUME exit = "none", UNCHANGED <<action, deviceState, prompts, inp>>,
           \/ exit' \in {"code", "signal"} /\ out' = out
           \/ exit' = "code" /\ Say("err")
    PROVE  HS!Work
<1>1. CASE exit' \in {"code", "signal"} /\ out' = out
  <2>1. AsHelper' = [AsHelper EXCEPT !.exit = exit']
    BY <1>1 DEF AsHelper
  <2> QED
    BY <1>1, <2>1 DEF HS!Work, HS!HelperSteps, HS!DeathSteps, HS!When, AsHelper
<1>2. CASE exit' = "code" /\ Say("err")
  <2>1. AsHelper' = [AsHelper EXCEPT !.exit = "code", !.out = Append(@, "err")]
    <3>1. [AsHelper EXCEPT !.exit = "code", !.out = Append(@, "err")] \in Only
      BY <1>2 DEF AsHelper, Say, Only
    <3> QED
      BY <3>1, OnlyOne
  <2> QED
    BY <2>1 DEF HS!Work, HS!HelperSteps, HS!FatalSteps, HS!When, AsHelper
<1> QED
  BY <1>1, <1>2

(* What HelperSpec does not see.                                           *)
LEMMA StutterMaps ==
    ASSUME UNCHANGED <<exit, action, deviceState, prompts, inp, out>>
    PROVE  UNCHANGED AsHelper
  BY DEF AsHelper

(* Each step of the process is one of HelperSpec, or is not seen.          *)
LEMMA NextMaps == TurnInv /\ [Next]_vars => [HS!Next]_AsHelper
<1> SUFFICES ASSUME TurnInv, [Next]_vars PROVE HS!Work \/ HS!Write \/ UNCHANGED AsHelper
  BY DEF HS!Next
<1> USE DEF Running, loopVars, pipeVars, extVars
<1>t. action \in Actions \cup {"none"} /\ action # "idle" /\ deviceState \in {"u", "m", "p", "b"}
  BY DEF TurnInv, TypeOK, Actions
<1>1. CASE Start
  BY <1>1, EndMaps, StutterMaps DEF Start
<1>2. CASE Discover
  BY <1>2, StutterMaps DEF Discover
<1>3. CASE ReportDisappeared
  <2>1. action \in Actions /\ deviceState # "m"
    BY <1>3, <1>t DEF ReportDisappeared, TurnInv, InWork
  <2>2. ErrorToken(disappeared) \in HS!AnswersTo(action)
    BY <1>3, <2>1 DEF ReportDisappeared, ErrorToken, TurnInv, InWork, HS!AnswersTo, HS!Answers
  <2> QED
    BY <1>3, <2>1, <2>2, AnswerMaps DEF ReportDisappeared
<1>4. CASE DiscoverFailed
  BY <1>4, EndMaps DEF DiscoverFailed
<1>5. CASE Announce
  <2>1. CASE rc = "ok" /\ deviceState = "m"
    <3>1. CanPrompt /\ PrintPrompt("j", "p")
      BY <1>5, <2>1 DEF Announce, DeviceIsBack, TurnInv, PromptsLeft
    <3> QED
      BY <1>5, <1>t, <2>1, <3>1, PromptMaps DEF Announce
  <2>2. CASE rc = "nodevice" /\ deviceState # "m"
    <3>1. CanPrompt /\ PrintPrompt("i", "m")
      BY <1>5, <2>2 DEF Announce, DeviceIsBack, TurnInv, PromptsLeft
    <3> QED
      BY <1>5, <1>t, <2>2, <3>1, PromptMaps DEF Announce
  <2>3. CASE ~(rc = "ok" /\ deviceState = "m") /\ ~(rc = "nodevice" /\ deviceState # "m")
    BY <1>5, <2>3, StutterMaps DEF Announce, DeviceIsBack, NoPrompt
  <2> QED
    BY <2>1, <2>2, <2>3
<1>6. CASE ReadAction
  <2>1. CASE inp = <<>>
    BY <1>6, <2>1, StutterMaps DEF ReadAction
  <2>2. CASE inp # <<>>
    <3>1. AsHelper' = [AsHelper EXCEPT !.op = Head(inp), !.inp = Tail(inp)]
      <4>1. Head(inp) \in Messages
        BY <2>2, HeadTailProperties DEF TurnInv, TypeOK
      <4>2. action' = Head(inp) /\ inp' = Tail(inp) /\ action' # "none"
        BY <1>6, <2>2, <4>1 DEF ReadAction, Messages, Actions
      <4>3. [AsHelper EXCEPT !.op = Head(inp), !.inp = Tail(inp)] \in Only
        BY <1>6, <4>2 DEF ReadAction, AsHelper, Only
      <4> QED
        BY <4>3, OnlyOne
    <3>2. AsHelper' \in HS!TakeSteps(AsHelper)
      BY <1>6, <2>2, <3>1 DEF ReadAction, HS!TakeSteps, HS!When, AsHelper
    <3> QED
      BY <1>6, <3>2 DEF ReadAction, HS!Work, HS!HelperSteps, HS!When, AsHelper
  <2> QED
    BY <2>1, <2>2
<1>7. CASE ReadEnd
  BY <1>7, EndMaps DEF ReadEnd
<1>8. CASE KeepAction
  BY <1>8, StutterMaps DEF KeepAction
<1>9. CASE CallDevice
  BY <1>9, StutterMaps DEF CallDevice
<1>10. CASE Judge
  <2>1. CASE rc = "notfinished" /\ deviceState # "b"
    <3>1. CanPrompt /\ PrintPrompt("b", "b") /\ action # "none" /\ deviceState \in {"u", "p"}
      BY <1>10, <1>t, <2>1 DEF Judge, TurnInv, PromptsLeft, InWork
    <3> QED
      BY <1>10, <1>t, <3>1, PromptMaps DEF Judge
  <2>2. CASE ~(rc = "notfinished" /\ deviceState # "b")
    BY <1>10, <2>2, StutterMaps DEF Judge, NoPrompt
  <2> QED
    BY <2>1, <2>2
<1>11. ASSUME NEW token \in {"ok", "err"}, AnswerAndFree(token), Running("answer"),
              UNCHANGED <<deviceState, inp, prompts>>
       PROVE  HS!Work
  <2>1. action \in Actions /\ deviceState # "m"
    BY <1>11, <1>t DEF TurnInv, InWork
  <2>2. token \in HS!AnswersTo(action)
    BY DEF HS!AnswersTo, HS!Answers
  <2> QED
    BY <1>11, <2>1, <2>2, AnswerMaps DEF AnswerAndFree
<1>12. CASE AnswerTimeout
  BY <1>11, <1>12 DEF AnswerTimeout
<1>13. CASE AnswerOk
  BY <1>11, <1>13 DEF AnswerOk
<1>14. CASE PostponeError
  BY <1>14, StutterMaps DEF PostponeError
<1>15. CASE PrintNull
  BY <1>15, EndMaps DEF PrintNull
<1>16. CASE Die
  BY <1>16, EndMaps DEF Die
<1>17. CASE ExtensionWrites
  <2>1. Head(script) \in HS!Messages
    BY <1>17, HeadTailProperties DEF ExtensionWrites, TurnInv, TypeOK, Messages, Actions,
       HS!Messages, HS!Actions
  <2>2. AsHelper' = [AsHelper EXCEPT !.inp = Append(@, Head(script))]
    <3>1. [AsHelper EXCEPT !.inp = Append(@, Head(script))] \in Only
      BY <1>17 DEF ExtensionWrites, AsHelper, Only
    <3> QED
      BY <3>1, OnlyOne
  <2> QED
    BY <2>1, <2>2 DEF HS!Write
<1>18. CASE ExtensionFollows
  BY <1>18, StutterMaps DEF ExtensionFollows
<1>19. CASE UNCHANGED vars
  BY <1>19, StutterMaps DEF vars
<1> QED
  BY <1>1, <1>2, <1>3, <1>4, <1>5, <1>6, <1>7, <1>8, <1>9, <1>10, <1>12, <1>13,
     <1>14, <1>15, <1>16, <1>17, <1>18, <1>19 DEF Next, Main

(* main.c implements HelperSpec: it takes an action only when idle, answers*)
(* it once, with a code the action can have, and only while a device is    *)
(* there, and announces each device state when it is new.                  *)
THEOREM ImplementsPromise == Spec => ImplementsHelperSpec
<1>1. Init => HS!Init
  BY InitMaps
<1>2. TurnInv /\ [Next]_vars => [HS!Next]_AsHelper
  BY NextMaps
<1> QED
  BY <1>1, <1>2, TurnHolds, PTL DEF Spec, ImplementsHelperSpec, HS!Spec

-----------------------------------------------------------------------------
(* The response pointer.  It is live only between the call that returned a *)
(* response and the answer, and it was never freed while an action is in   *)
(* work: the extension lets a second action follow only an error with code *)
(* 4, and no response was freed with that.                                 *)
NoAnswer == \A k \in DOMAIN out : out[k] \notin Answers
NoFour == \A k \in DOMAIN out : out[k] # "err4"

OneToCome ==
    /\ action = "none" /\ response = "null"
    /\ \/ /\ checking /\ NoAnswer
          /\ \/ inp = <<>> /\ script = <<"s">>
             \/ inp = <<"s">> /\ script = <<>>
       \/ /\ ~checking
          /\ \E a \in Actions : \/ inp = <<>> /\ script = <<a, "end">>
                                \/ inp = <<a>> /\ script = <<"end">>
                                \/ inp = <<a, "end">> /\ script = <<>>

NothingToCome ==
    \/ checking /\ inp = <<>> /\ script = <<>>
    \/ ~checking /\ inp \in Seq({"end"}) /\ script \in Seq({"end"})

Working ==
    /\ action # "none" /\ response # "freed"
    /\ NothingToCome /\ (checking => NoAnswer)

Over ==
    /\ action = "none"
    /\ NothingToCome /\ (checking /\ response = "freed" => NoFour)

Phase == OneToCome \/ Working \/ Over

OwnInv ==
    /\ ~misuse
    /\ response = "live" => pc \in {"judge", "answer"} /\ rc = "ok"
    /\ exit = "none" => Phase

-----------------------------------------------------------------------------
(* Short texts, written and read.                                          *)
LEMMA ShortTexts ==
    ASSUME NEW a \in Messages
    PROVE  /\ Append(<<>>, a) = <<a>> /\ Append(<<a>>, "end") = <<a, "end">>
           /\ Head(<<a>>) = a /\ Tail(<<a>>) = <<>>
           /\ Head(<<a, "end">>) = a /\ Tail(<<a, "end">>) = <<"end">>
<1>1. <<a>> \in Seq(Messages) /\ <<a, "end">> \in Seq(Messages) /\ <<"end">> \in Seq(Messages)
      /\ "end" \in Messages /\ <<>> \in Seq(Messages)
  BY EmptySeq DEF Messages
<1>2. Append(<<>>, a) = <<a>> /\ Append(<<a>>, "end") = <<a, "end">>
  <2>1. Append(<<>>, a) = <<a>>
    OBVIOUS
  <2>2. Append(<<a>>, "end") = <<a, "end">>
    <3> DEFINE s == Append(<<a>>, "end")
               z == <<a, "end">>
    <3>1. Len(s) = 2 /\ s[1] = a /\ s[2] = "end" /\ s \in Seq(Messages)
      BY <1>1, AppendProperties
    <3>2. Len(z) = 2 /\ z[1] = a /\ z[2] = "end" /\ z \in Seq(Messages)
      BY <1>1
    <3> HIDE DEF s, z
    <3>3. Len(s) = Len(z) /\ \A i \in 1 .. Len(s) : s[i] = z[i]
      BY <3>1, <3>2
    <3>4. s = z
      BY <3>1, <3>2, <3>3, SeqEqual
    <3> QED
      BY <3>4 DEF s, z
  <2> QED
    BY <2>1, <2>2
<1>3. Head(<<a>>) = a /\ Head(<<a, "end">>) = a
  OBVIOUS
<1>4. Tail(<<a>>) = <<>>
  OBVIOUS
<1>5. Tail(<<a, "end">>) = <<"end">>
  OBVIOUS
<1> QED
  BY <1>2, <1>3, <1>4, <1>5

LEMMA InitOwn == Init => OwnInv
<1> SUFFICES ASSUME Init PROVE OwnInv
  OBVIOUS
<1>1. NoAnswer
  BY DEF Init, NoAnswer
<1>2. CASE checking
  BY <1>1, <1>2 DEF Init, OwnInv, Phase, OneToCome
<1>3. ASSUME NEW a \in Actions, script = <<a, "end">>, ~checking PROVE OneToCome
  <2>1. inp = <<>> /\ action = "none" /\ response = "null"
    BY DEF Init
  <2>2. \E b \in Actions : \/ inp = <<>> /\ script = <<b, "end">>
                           \/ inp = <<b>> /\ script = <<"end">>
                           \/ inp = <<b, "end">> /\ script = <<>>
    BY <1>3, <2>1
  <2> QED
    BY <1>3, <2>1, <2>2, Zenon DEF OneToCome
<1>4. ~checking => OneToCome
  BY <1>3 DEF Init, Actions
<1> QED
  BY <1>2, <1>4 DEF Init, OwnInv, Phase

(* Printing a prompt keeps that there was no answer, and printing anything *)
(* but code 4 keeps that there was none of it.                             *)
LEMMA SayKeeps ==
    ASSUME out \in Seq(Tokens), NEW token \in Tokens, Say(token)
    PROVE  /\ NoAnswer /\ token \notin Answers => NoAnswer'
           /\ NoFour /\ token # "err4" => NoFour'
<1>1. ASSUME NEW k \in DOMAIN out'
      PROVE  \/ k \in DOMAIN out /\ out'[k] = out[k]
             \/ out'[k] = token
  <2>1. /\ Len(out') = Len(out) + 1 /\ out' \in Seq(Tokens)
        /\ \A i \in 1 .. Len(out) : out'[i] = out[i]
        /\ out'[Len(out) + 1] = token
    BY AppendProperties DEF Say
  <2> QED
    BY <2>1, LenProperties
<1> QED
  BY <1>1 DEF NoAnswer, NoFour

LEMMA NoAnswerNoFour == NoAnswer => NoFour
  BY DEF NoAnswer, NoFour, Answers

(* A step that leaves the pipes, the action and the pointer alone, or only *)
(* prints a prompt.                                                        *)
LEMMA KeepsPhase ==
    ASSUME TurnInv, OwnInv, UNCHANGED <<exit, action, inp, script, checking>>,
           \/ response' = response
           \/ action # "none" /\ response' # "freed",
           out' = out \/ \E token \in Prompts : Say(token)
    PROVE  exit' = "none" => Phase'
<1>1. (NoAnswer => NoAnswer') /\ (NoFour => NoFour')
  <2>1. CASE out' = out
    BY <2>1 DEF NoAnswer, NoFour
  <2>2. ASSUME NEW token \in Prompts, Say(token) PROVE (NoAnswer => NoAnswer') /\ (NoFour => NoFour')
    BY <2>2, SayKeeps DEF Prompts, Answers, Tokens, TurnInv, TypeOK
  <2> QED
    BY <2>1, <2>2
<1>2. NothingToCome => NothingToCome'
  BY DEF NothingToCome
<1>3. OneToCome => OneToCome'
  BY <1>1 DEF OneToCome
<1>4. Working => Working'
  BY <1>1, <1>2 DEF Working
<1>5. Over => Over'
  BY <1>1, <1>2 DEF Over
<1> QED
  BY <1>3, <1>4, <1>5 DEF OwnInv, Phase

(* An answer ends the action, and frees the response if there is one.      *)
LEMMA AnswerKeeps ==
    ASSUME TurnInv, OwnInv, exit = "none", action # "none", action' = "none", FreeResponse,
           UNCHANGED <<inp, script, checking>>,
           NEW token \in Answers, Say(token), response = "live" => token # "err4"
    PROVE  ~misuse' /\ response' # "live" /\ Phase'
<1>1. Working
  BY DEF OwnInv, Phase, OneToCome, Over
<1>2. ~misuse' /\ response' # "live" /\ (response' = "freed" => response = "live")
  BY <1>1 DEF Working, FreeResponse, OwnInv, TurnInv, TypeOK
<1>3. checking' /\ response' = "freed" => NoFour'
  BY <1>1, <1>2, NoAnswerNoFour, SayKeeps DEF Working, TurnInv, TypeOK, Tokens
<1>4. NothingToCome'
  BY <1>1 DEF Working, NothingToCome
<1> QED
  BY <1>2, <1>3, <1>4 DEF Over, Phase

(* The end of the process leaves the pointer as it is.                     *)
LEMMA EndKeeps ==
    ASSUME OwnInv, exit' # "none", UNCHANGED <<pc, rc, response, misuse>>
    PROVE  OwnInv'
  BY DEF OwnInv

(* An action is taken only from those to come.                             *)
LEMMA ReadKeeps ==
    ASSUME TurnInv, OwnInv, ReadAction
    PROVE  OwnInv'
<1> USE DEF ReadAction, Running
<1>1. response' # "live" /\ ~misuse'
  BY DEF OwnInv
<1>2. CASE inp = <<>>
  <2>1. UNCHANGED <<exit, action, inp, response, out, script, checking>>
    BY <1>2 DEF extVars
  <2>2. exit' = "none" => Phase'
    BY <2>1, KeepsPhase
  <2> QED
    BY <1>1, <2>2 DEF OwnInv
<1>3. CASE inp # <<>> /\ Over
  <2>1. inp \in Seq({"end"})
    BY <1>3 DEF Over, NothingToCome
  <2>2. Head(inp) = "end"
    BY <1>3, <2>1, HeadTailProperties
  <2> QED
    BY <1>3, <2>2
<1>4. CASE inp # <<>> /\ OneToCome
  <2>1. action' # "none" /\ action' = Head(inp) /\ inp' = Tail(inp) /\ response' = "null"
        /\ UNCHANGED <<script, checking, out>>
    <3>1. Head(inp) \in Messages
      BY <1>4, HeadTailProperties DEF TurnInv, TypeOK
    <3> QED
      BY <1>4, <3>1 DEF Messages, Actions, OneToCome, extVars
  <2>2. CASE checking
    <3>1. inp = <<"s">> /\ script = <<>> /\ NoAnswer
      BY <1>4, <2>2 DEF OneToCome
    <3>2. inp' = <<>>
      BY <2>1, <3>1
    <3>3. NoAnswer'
      BY <2>1, <3>1 DEF NoAnswer
    <3> QED
      BY <1>1, <2>1, <2>2, <3>1, <3>2, <3>3 DEF OwnInv, Phase, Working, NothingToCome
  <2>3. CASE ~checking
    <3>1. /\ inp' = <<>> \/ inp' = <<"end">>
          /\ script = <<>> \/ script = <<"end">>
      <4>1. PICK a \in Actions : \/ inp = <<a>> /\ script = <<"end">>
                                 \/ inp = <<a, "end">> /\ script = <<>>
        BY <1>4, <2>3 DEF OneToCome
      <4> QED
        BY <2>1, <4>1, ShortTexts DEF Messages
    <3>2. <<>> \in Seq({"end"}) /\ <<"end">> \in Seq({"end"})
      BY EmptySeq
    <3>3. NothingToCome'
      BY <2>1, <2>3, <3>1, <3>2 DEF NothingToCome
    <3> QED
      BY <1>1, <2>1, <2>3, <3>3 DEF OwnInv, Phase, Working
  <2> QED
    BY <2>2, <2>3
<1> QED
  BY <1>2, <1>3, <1>4 DEF OwnInv, Phase, Working

(* The extension writes what is to come.                                   *)
LEMMA WriteKeeps ==
    ASSUME TurnInv, OwnInv, ExtensionWrites
    PROVE  OwnInv'
<1> USE DEF ExtensionWrites, loopVars
<1>1. ASSUME Over \/ Working PROVE NothingToCome'
  <2>1. ~checking /\ inp \in Seq({"end"}) /\ script \in Seq({"end"})
    BY <1>1 DEF Over, Working, NothingToCome
  <2>2. inp' \in Seq({"end"}) /\ script' \in Seq({"end"})
    BY <2>1, HeadTailProperties, AppendProperties
  <2> QED
    BY <2>1, <2>2 DEF NothingToCome
<1>2. (NoAnswer => NoAnswer') /\ (NoFour => NoFour')
  BY DEF NoAnswer, NoFour
<1>3. Working => Working'
  BY <1>1, <1>2 DEF Working
<1>4. Over => Over'
  BY <1>1, <1>2 DEF Over
<1>5. OneToCome => OneToCome'
  <2>1. ASSUME OneToCome, checking PROVE inp' = <<"s">> /\ script' = <<>>
    <3>1. inp = <<>> /\ script = <<"s">> /\ "s" \in Messages
      BY <2>1 DEF OneToCome, Messages, Actions
    <3> QED
      BY <3>1, ShortTexts
  <2>2. ASSUME OneToCome, ~checking
        PROVE  \E a \in Actions : \/ inp' = <<a>> /\ script' = <<"end">>
                                  \/ inp' = <<a, "end">> /\ script' = <<>>
    <3>1. PICK a \in Actions : \/ inp = <<>> /\ script = <<a, "end">>
                               \/ inp = <<a>> /\ script = <<"end">>
      BY <2>2 DEF OneToCome
    <3>2. CASE inp = <<>> /\ script = <<a, "end">>
      <4>1. Head(script) = a /\ Tail(script) = <<"end">> /\ Append(inp, a) = <<a>>
        BY <3>2, ShortTexts DEF Messages
      <4>2. inp' = <<a>> /\ script' = <<"end">>
        BY <4>1
      <4> QED
        BY <4>2
    <3>3. CASE inp = <<a>> /\ script = <<"end">>
      <4>1. a \in Messages /\ "end" \in Messages
        BY DEF Messages
      <4>2. Head(script) = "end" /\ Tail(script) = <<>>
        BY <3>3, <4>1, ShortTexts
      <4> QED
        BY <3>3, <4>1, <4>2, ShortTexts
    <3> QED
      BY <3>1, <3>2, <3>3
  <2> QED
    BY <1>2, <2>1, <2>2 DEF OneToCome
<1> QED
  BY <1>3, <1>4, <1>5 DEF OwnInv, Phase

(* It follows an error with code 4 only, and then no response was freed.   *)
LEMMA FollowKeeps ==
    ASSUME TurnInv, OwnInv, ExtensionFollows
    PROVE  OwnInv'
<1> USE DEF ExtensionFollows, loopVars, pipeVars
<1>1. CASE exit # "none"
  BY <1>1, EndKeeps
<1>2. CASE exit = "none"
  <2>1. PICK k \in Answered : script' = FollowUp(out[k])
    OBVIOUS
  <2>2. ~NoAnswer /\ out[k] \in Answers /\ (out[k] = "err4" => ~NoFour)
    BY <2>1 DEF NoAnswer, NoFour, Answered
  <2>3. Over
    BY <1>2, <2>2 DEF OwnInv, Phase, OneToCome, Working
  <2>4. inp' = <<>> /\ action' = "none" /\ response' = response /\ ~checking'
    BY <2>3 DEF Over, NothingToCome
  <2>5. CASE out[k] = "err4"
    <3>1. response # "freed" /\ response # "live"
      BY <2>2, <2>3, <2>5 DEF Over, OwnInv, TurnInv, InWork
    <3>2. response' = "null"
      BY <2>4, <3>1 DEF TurnInv, TypeOK
    <3>3. script' = <<"r", "end">> /\ "r" \in Actions
      BY <2>1, <2>5 DEF FollowUp, Actions
    <3>4. OneToCome'
      <4>1. \E b \in Actions : \/ inp' = <<>> /\ script' = <<b, "end">>
                               \/ inp' = <<b>> /\ script' = <<"end">>
                               \/ inp' = <<b, "end">> /\ script' = <<>>
        BY <2>4, <3>3
      <4> QED
        BY <2>4, <3>2, <4>1, Zenon DEF OneToCome
    <3> QED
      BY <3>4 DEF OwnInv, Phase
  <2>6. CASE out[k] # "err4"
    <3>1. script' = <<"end">>
      BY <2>1, <2>6 DEF FollowUp
    <3>2. NothingToCome'
      BY <2>4, <3>1, EmptySeq DEF NothingToCome
    <3>3. Over'
      BY <2>4, <3>2 DEF Over
    <3> QED
      BY <3>3 DEF OwnInv, Phase
  <2> QED
    BY <2>5, <2>6
<1> QED
  BY <1>1, <1>2

LEMMA NextOwn == TurnInv /\ OwnInv /\ [Next]_vars => OwnInv'
<1> SUFFICES ASSUME TurnInv, OwnInv, [Next]_vars PROVE OwnInv'
  OBVIOUS
<1> USE DEF loopVars, pipeVars, extVars, Running
<1>p. "i" \in Prompts /\ "j" \in Prompts /\ "b" \in Prompts
  BY DEF Prompts
<1>a. "ok" \in Answers /\ "err" \in Answers /\ "err4" \in Answers
  BY DEF Answers
<1>1. CASE Start
  <2>1. exit' = "none" => Phase'
    BY <1>1, KeepsPhase DEF Start
  <2> QED
    BY <1>1, <2>1 DEF Start, OwnInv
<1>2. CASE Discover
  <2>1. exit' = "none" => Phase'
    BY <1>2, KeepsPhase DEF Discover
  <2> QED
    BY <1>2, <2>1 DEF Discover, OwnInv
<1>3. CASE ReportDisappeared
  <2>1. response # "live" /\ action # "none"
    BY <1>3 DEF ReportDisappeared, OwnInv, TurnInv, InWork
  <2>2. ErrorToken(disappeared) \in Answers
    BY <1>a DEF ErrorToken
  <2>3. ~misuse' /\ response' # "live" /\ Phase'
    BY <1>3, <2>1, <2>2, AnswerKeeps DEF ReportDisappeared
  <2> QED
    BY <2>3 DEF OwnInv
<1>4. CASE DiscoverFailed
  BY <1>4, EndKeeps DEF DiscoverFailed
<1>5. CASE Announce
  <2>1. out' = out \/ \E token \in Prompts : Say(token)
    BY <1>5, <1>p DEF Announce, PrintPrompt, NoPrompt
  <2>2. exit' = "none" => Phase'
    BY <1>5, <2>1, KeepsPhase DEF Announce
  <2> QED
    BY <1>5, <2>2 DEF Announce, OwnInv
<1>6. CASE ReadAction
  BY <1>6, ReadKeeps
<1>7. CASE ReadEnd
  BY <1>7, EndKeeps DEF ReadEnd
<1>8. CASE KeepAction
  <2>1. exit' = "none" => Phase'
    BY <1>8, KeepsPhase DEF KeepAction
  <2> QED
    BY <1>8, <2>1 DEF KeepAction, OwnInv
<1>9. CASE CallDevice
  <2>1. action # "none" /\ response # "live"
    BY <1>9 DEF CallDevice, TurnInv, InWork, OwnInv
  <2>2. response # "freed"
    BY <1>9, <2>1 DEF CallDevice, OwnInv, Phase, OneToCome, Working, Over
  <2>3. response' # "freed" /\ (response' = "live" => rc' = "ok" /\ pc' = "judge")
    BY <1>9, <2>1, <2>2 DEF CallDevice
  <2>4. exit' = "none" => Phase'
    BY <1>9, <2>1, <2>3, KeepsPhase DEF CallDevice
  <2> QED
    BY <1>9, <2>3, <2>4 DEF CallDevice, OwnInv
<1>10. CASE Judge
  <2>1. out' = out \/ \E token \in Prompts : Say(token)
    BY <1>10, <1>p DEF Judge, PrintPrompt, NoPrompt
  <2>2. exit' = "none" => Phase'
    BY <1>10, <2>1, KeepsPhase DEF Judge
  <2> QED
    BY <1>10, <2>2 DEF Judge, PollAgain, OwnInv
<1>11. ASSUME NEW token \in {"ok", "err"}, AnswerAndFree(token), Running("answer"),
              UNCHANGED <<inp, extVars>>
       PROVE  OwnInv'
  <2>1. action # "none"
    BY <1>11 DEF TurnInv, InWork
  <2>2. ~misuse' /\ response' # "live" /\ Phase'
    BY <1>11, <1>a, <2>1, AnswerKeeps DEF AnswerAndFree
  <2> QED
    BY <2>2 DEF OwnInv
<1>12. CASE AnswerTimeout
  BY <1>11, <1>12 DEF AnswerTimeout
<1>13. CASE AnswerOk
  BY <1>11, <1>13 DEF AnswerOk
<1>14. CASE PostponeError
  <2>1. exit' = "none" => Phase'
    BY <1>14, KeepsPhase DEF PostponeError
  <2> QED
    BY <1>14, <2>1 DEF PostponeError, OwnInv
<1>15. CASE PrintNull
  BY <1>15, EndKeeps DEF PrintNull
<1>16. CASE Die
  BY <1>16, EndKeeps DEF Die
<1>17. CASE ExtensionWrites
  BY <1>17, WriteKeeps
<1>18. CASE ExtensionFollows
  BY <1>18, FollowKeeps
<1>19. CASE UNCHANGED vars
  <2>1. exit' = "none" => Phase'
    BY <1>19, KeepsPhase DEF vars
  <2> QED
    BY <1>19, <2>1 DEF vars, OwnInv
<1> QED
  BY <1>1, <1>2, <1>3, <1>4, <1>5, <1>6, <1>7, <1>8, <1>9, <1>10, <1>12, <1>13,
     <1>14, <1>15, <1>16, <1>17, <1>18, <1>19 DEF Next, Main

(* The variables of main have their types, and its response pointer is not *)
(* freed twice nor printed after it was freed, in spite of main.c never    *)
(* resetting it: nothing it can be asked after a response does that.       *)
THEOREM OwnedAlways == Spec => []Owned
<1>1. TurnInv /\ OwnInv => Owned
  BY DEF TurnInv, OwnInv, Owned, ResponseOwned, InWork, Phase, OneToCome, Working, Over,
         Running
<1> QED
  BY <1>1, InitOwn, NextOwn, TurnHolds, PTL DEF Spec

-----------------------------------------------------------------------------
(* The device state that main keeps is the last prompt: "m" is kept        *)
(* exactly after "i", and after "b" it is "b".                             *)
Announced ==
    /\ deviceState = "m" <=> LastPromptIn(out, Len(out) + 1, {"i"})
    /\ LastPromptIn(out, Len(out) + 1, {"b"}) => deviceState = "b"

StoryInv == PromptsConsistent /\ Announced

(* What is said does not change which prompt was the last one before, and  *)
(* is the last one afterwards if it is a prompt.                           *)
LEMMA SaidLast ==
    ASSUME NEW s \in Seq(Tokens), NEW token \in Tokens, NEW P, P \subseteq Prompts
    PROVE  /\ Len(Append(s, token)) = Len(s) + 1 /\ Append(s, token)[Len(s) + 1] = token
           /\ \A k \in 1 .. Len(s) : Append(s, token)[k] = s[k]
           /\ \A k \in 1 .. Len(s) + 1 :
                 LastPromptIn(Append(s, token), k, P) <=> LastPromptIn(s, k, P)
           /\ token \in Prompts =>
                 (LastPromptIn(Append(s, token), Len(s) + 2, P) <=> token \in P)
           /\ token \notin Prompts =>
                 (LastPromptIn(Append(s, token), Len(s) + 2, P) <=>
                    LastPromptIn(s, Len(s) + 1, P))
<1> DEFINE z == Append(s, token)
           n == Len(s)
<1>1. n \in Nat /\ Len(z) = n + 1 /\ z[n + 1] = token /\ \A k \in 1 .. n : z[k] = s[k]
  BY AppendProperties, LenProperties
<1> HIDE DEF z, n
<1>2. ASSUME NEW k \in 1 .. n + 1 PROVE LastPromptIn(z, k, P) <=> LastPromptIn(s, k, P)
  <2>1. k - 1 <= n /\ k - 1 \in Nat
    BY <1>1
  <2>2. \A j \in 1 .. k - 1 : z[j] = s[j]
    BY <1>1, <2>1
  <2>3. \A j \in 1 .. k - 1 : \A i \in j + 1 .. k - 1 : i \in 1 .. k - 1
    BY <2>1
  <2> QED
    BY <2>2, <2>3 DEF LastPromptIn
<1>3. ASSUME token \in Prompts PROVE LastPromptIn(z, n + 2, P) <=> token \in P
  <2>1. ASSUME token \in P PROVE LastPromptIn(z, n + 2, P)
    <3>1. n + 1 \in 1 .. (n + 2) - 1 /\ \A i \in (n + 1) + 1 .. (n + 2) - 1 : FALSE
      BY <1>1
    <3> QED
      BY <1>1, <2>1, <3>1 DEF LastPromptIn
  <2>2. ASSUME LastPromptIn(z, n + 2, P) PROVE token \in P
    <3>1. PICK j \in 1 .. (n + 2) - 1 :
             z[j] \in P /\ \A i \in j + 1 .. (n + 2) - 1 : z[i] \notin Prompts
      BY <2>2 DEF LastPromptIn
    <3>2. j # n + 1 => n + 1 \in j + 1 .. (n + 2) - 1
      BY <1>1
    <3> QED
      BY <1>1, <1>3, <3>1, <3>2
  <2> QED
    BY <2>1, <2>2
<1>4. ASSUME token \notin Prompts
      PROVE  LastPromptIn(z, n + 2, P) <=> LastPromptIn(s, n + 1, P)
  <2>1. ASSUME LastPromptIn(s, n + 1, P) PROVE LastPromptIn(z, n + 2, P)
    <3>1. PICK j \in 1 .. (n + 1) - 1 :
             s[j] \in P /\ \A i \in j + 1 .. (n + 1) - 1 : s[i] \notin Prompts
      BY <2>1 DEF LastPromptIn
    <3>2. j \in 1 .. (n + 2) - 1 /\ z[j] \in P
      BY <1>1, <3>1
    <3>3. ASSUME NEW i \in j + 1 .. (n + 2) - 1 PROVE z[i] \notin Prompts
      <4>1. i \in j + 1 .. (n + 1) - 1 \/ i = n + 1
        BY <1>1
      <4>2. i \in j + 1 .. (n + 1) - 1 => z[i] = s[i]
        BY <1>1
      <4> QED
        BY <1>1, <1>4, <3>1, <4>1, <4>2
    <3> QED
      BY <3>2, <3>3 DEF LastPromptIn
  <2>2. ASSUME LastPromptIn(z, n + 2, P) PROVE LastPromptIn(s, n + 1, P)
    <3>1. PICK j \in 1 .. (n + 2) - 1 :
             z[j] \in P /\ \A i \in j + 1 .. (n + 2) - 1 : z[i] \notin Prompts
      BY <2>2 DEF LastPromptIn
    <3>2. j # n + 1
      BY <1>1, <1>4, <3>1
    <3>3. j \in 1 .. (n + 1) - 1 /\ s[j] \in P
      BY <1>1, <3>1, <3>2
    <3>4. ASSUME NEW i \in j + 1 .. (n + 1) - 1 PROVE s[i] \notin Prompts
      <4>1. i \in j + 1 .. (n + 2) - 1 /\ z[i] = s[i]
        BY <1>1
      <4> QED
        BY <3>1, <4>1
    <3> QED
      BY <3>3, <3>4 DEF LastPromptIn
  <2> QED
    BY <2>1, <2>2
<1> QED
  BY <1>1, <1>2, <1>3, <1>4 DEF z, n

(* What is said keeps the story, if a prompt among it fits the state.      *)
LEMMA SayStory ==
    ASSUME StoryInv, TypeOK, NEW token \in Tokens, Say(token),
           \/ token \notin Prompts /\ deviceState' = deviceState
           \/ token = "i" /\ deviceState # "m" /\ deviceState' = "m"
           \/ token = "j" /\ deviceState = "m" /\ deviceState' = "p"
           \/ token = "b" /\ deviceState \notin {"m", "b"} /\ deviceState' = "b"
    PROVE  StoryInv'
<1> DEFINE n == Len(out)
<1>1. out \in Seq(Tokens) /\ out' = Append(out, token) /\ n \in Nat
  BY LenProperties DEF TypeOK, Say
<1>2. {"i"} \subseteq Prompts /\ {"b"} \subseteq Prompts /\ {"i", "b"} \subseteq Prompts
  BY DEF Prompts
<1>3. Len(out') = n + 1 /\ out'[n + 1] = token /\ \A k \in 1 .. n : out'[k] = out[k]
  BY <1>1, AppendProperties
<1>4. ASSUME NEW P \in {{"i"}, {"b"}, {"i", "b"}}
      PROVE  /\ \A k \in 1 .. n + 1 : LastPromptIn(out', k, P) <=> LastPromptIn(out, k, P)
             /\ token \in Prompts => (LastPromptIn(out', n + 2, P) <=> token \in P)
             /\ token \notin Prompts => (LastPromptIn(out', n + 2, P) <=> LastPromptIn(out, n + 1, P))
  <2>1. P \subseteq Prompts
    BY <1>2
  <2>2. /\ \A k \in 1 .. Len(out) + 1 :
              LastPromptIn(Append(out, token), k, P) <=> LastPromptIn(out, k, P)
        /\ token \in Prompts =>
              (LastPromptIn(Append(out, token), Len(out) + 2, P) <=> token \in P)
        /\ token \notin Prompts =>
              (LastPromptIn(Append(out, token), Len(out) + 2, P) <=>
                 LastPromptIn(out, Len(out) + 1, P))
    BY <1>1, <2>1, SaidLast
  <2> QED
    BY <1>1, <2>2
<1> HIDE DEF n
<1>5. LastPromptIn(out, n + 1, {"i", "b"}) =>
         LastPromptIn(out, n + 1, {"i"}) \/ LastPromptIn(out, n + 1, {"b"})
  BY DEF LastPromptIn
<1>6. Announced
  BY DEF StoryInv
<1>7. token \in {"i", "j", "b"} <=> token \in Prompts
  BY DEF Prompts
<1>8. Announced'
  <2>1. LastPromptIn(out', Len(out') + 1, {"i"}) <=> LastPromptIn(out', n + 2, {"i"})
    BY <1>1, <1>3
  <2>2. LastPromptIn(out', Len(out') + 1, {"b"}) <=> LastPromptIn(out', n + 2, {"b"})
    BY <1>1, <1>3
  <2> QED
    BY <1>4, <1>6, <1>7, <2>1, <2>2 DEF Announced, n
<1>9. ASSUME NEW k \in 1 .. n + 1
      PROVE  /\ out'[k] \in Prompts => (out'[k] = "j" <=> LastPromptIn(out', k, {"i"}))
             /\ out'[k] = "b" => ~LastPromptIn(out', k, {"i", "b"})
  <2>1. CASE k \in 1 .. n
    BY <1>3, <1>4, <2>1 DEF StoryInv, PromptsConsistent, n
  <2>2. CASE k = n + 1
    BY <1>3, <1>4, <1>5, <1>6, <1>7, <2>2 DEF Announced, n
  <2>3. k \in 1 .. n \/ k = n + 1
    BY <1>1
  <2> QED
    BY <2>1, <2>2, <2>3
<1>10. PromptsConsistent'
  BY <1>3, <1>9 DEF PromptsConsistent
<1> QED
  BY <1>8, <1>10 DEF StoryInv

LEMMA NextStory == TurnInv /\ StoryInv /\ [Next]_vars => StoryInv'
<1> SUFFICES ASSUME TurnInv, StoryInv, [Next]_vars PROVE StoryInv'
  OBVIOUS
<1> USE DEF loopVars, pipeVars, extVars, Running
<1>1. TypeOK
  BY DEF TurnInv
<1>2. ASSUME UNCHANGED <<out, deviceState>> PROVE StoryInv'
  BY <1>2 DEF StoryInv, PromptsConsistent, Announced
<1>3. ASSUME NEW token \in Answers, Say(token), UNCHANGED deviceState PROVE StoryInv'
  <2>1. token \in Tokens /\ token \notin Prompts
    BY DEF Tokens, Answers, Prompts
  <2> QED
    BY <1>1, <1>3, <2>1, SayStory
<1>4. "i" \in Tokens /\ "j" \in Tokens /\ "b" \in Tokens
  BY DEF Tokens, Prompts
<1>5. "ok" \in Answers /\ "err" \in Answers /\ \A code : ErrorToken(code) \in Answers
  BY DEF Answers, ErrorToken
<1>6. CASE Start
  BY <1>2, <1>3, <1>5, <1>6 DEF Start
<1>7. CASE ReportDisappeared
  BY <1>3, <1>5, <1>7 DEF ReportDisappeared
<1>8. CASE DiscoverFailed
  BY <1>3, <1>5, <1>8 DEF DiscoverFailed
<1>9. CASE Announce
  <2>1. CASE DeviceIsBack
    BY <1>1, <1>4, <1>9, <2>1, SayStory DEF Announce, DeviceIsBack, PrintPrompt
  <2>2. CASE ~DeviceIsBack /\ rc = "nodevice" /\ deviceState # "m"
    BY <1>1, <1>4, <1>9, <2>2, SayStory DEF Announce, PrintPrompt
  <2>3. CASE ~DeviceIsBack /\ ~(rc = "nodevice" /\ deviceState # "m")
    BY <1>2, <1>9, <2>3 DEF Announce, NoPrompt
  <2> QED
    BY <2>1, <2>2, <2>3
<1>10. CASE Judge
  <2>1. CASE rc = "notfinished" /\ deviceState # "b"
    <3>1. deviceState # "m"
      BY <1>10 DEF Judge, TurnInv, InWork
    <3> QED
      BY <1>1, <1>4, <1>10, <2>1, <3>1, SayStory DEF Judge, PrintPrompt
  <2>2. CASE ~(rc = "notfinished" /\ deviceState # "b")
    BY <1>2, <1>10, <2>2 DEF Judge, NoPrompt
  <2> QED
    BY <2>1, <2>2
<1>11. CASE AnswerTimeout \/ AnswerOk
  BY <1>3, <1>5, <1>11 DEF AnswerTimeout, AnswerOk, AnswerAndFree
<1>12. CASE Discover \/ ReadAction \/ ReadEnd \/ KeepAction \/ CallDevice \/ PostponeError
  BY <1>2, <1>12 DEF Discover, ReadAction, ReadEnd, KeepAction, CallDevice, PostponeError
<1>13. CASE PrintNull \/ Die \/ ExtensionWrites \/ ExtensionFollows \/ UNCHANGED vars
  BY <1>2, <1>13 DEF PrintNull, Die, ExtensionWrites, ExtensionFollows, vars
<1> QED
  BY <1>6, <1>7, <1>8, <1>9, <1>10, <1>11, <1>12, <1>13 DEF Next, Main

(* The prompts of one process tell a consistent story, across its actions  *)
(* and retries: what deviceState remembers is the last prompt that was     *)
(* printed (main.c:213-229, 262-266).                                      *)
THEOREM PromptsAreConsistent == Spec => []PromptsConsistent
<1>1. Init => StoryInv
  <2> SUFFICES ASSUME Init PROVE StoryInv
    OBVIOUS
  <2>1. Len(out) = 0 /\ deviceState = "u"
    BY DEF Init
  <2> QED
    BY <2>1 DEF StoryInv, PromptsConsistent, Announced, LastPromptIn
<1>2. StoryInv => PromptsConsistent
  BY DEF StoryInv
<1> QED
  BY <1>1, <1>2, NextStory, TurnHolds, PTL DEF Spec

-----------------------------------------------------------------------------
(***************************************************************************)
(* The table of a JSON object.  Its list is seen as a sequence s of nodes, *)
(* which the links describe (Listed), and its search as a way through all  *)
(* nodes for each key (Searchable); a table is good for s if it is both.   *)
(* Each operation leaves a good table for another sequence, and changes    *)
(* the members, the pairs of key and value in the order of s, as OrderedMap*)
(* says.  What is counted and freed follows from the members alone.        *)
(***************************************************************************)

(* A set of numbers has a least one.                                       *)
LEMMA LeastOf ==
    ASSUME NEW S \in SUBSET Nat, S # {}
    PROVE  \E j \in S : \A m \in S : j <= m
<1>1. \E j \in S : \A m \in S : ~(<<m, j>> \in OpToRel(<, Nat))
  BY WFMin, NatLessThanWellFounded, Zenon
<1>2. PICK j \in S : \A m \in S : ~(<<m, j>> \in OpToRel(<, Nat))
  BY <1>1
<1>3. \A m \in S : ~(m < j)
  BY <1>2 DEF OpToRel
<1> QED
  BY <1>3

(* A doubly linked list through the nodes of U, in the order of s: nx and  *)
(* pv lead from a node to the next and the one before, hd and tl are its   *)
(* ends, and nodes outside of it have no links.                            *)
Listed(N, U, hd, tl, nx, pv, s) ==
    /\ N \in Nat /\ U \subseteq 0 .. N - 1 /\ s \in Seq(0 .. N - 1)
    /\ nx \in [0 .. N - 1 -> Int] /\ pv \in [0 .. N - 1 -> Int]
    /\ \A i \in 1 .. Len(s) : s[i] \in U
    /\ \A i, j \in 1 .. Len(s) : s[i] = s[j] => i = j
    /\ \A m \in U : \E i \in 1 .. Len(s) : s[i] = m
    /\ hd = IF Len(s) = 0 THEN -1 ELSE s[1]
    /\ tl = IF Len(s) = 0 THEN -1 ELSE s[Len(s)]
    /\ \A i \in 1 .. Len(s) : nx[s[i]] = IF i = Len(s) THEN -1 ELSE s[i + 1]
    /\ \A i \in 1 .. Len(s) : pv[s[i]] = IF i = 1 THEN -1 ELSE s[i - 1]
    /\ \A m \in (0 .. N - 1) \ U : nx[m] = -1 /\ pv[m] = -1

(* Where a list begins and ends, and that its nodes are in range.          *)
LEMMA ListEnds ==
    ASSUME NEW N, NEW U, NEW hd, NEW tl, NEW nx, NEW pv, NEW s,
           Listed(N, U, hd, tl, nx, pv, s)
    PROVE  /\ Len(s) \in Nat /\ DOMAIN s = 1 .. Len(s)
           /\ \A i \in 1 .. Len(s) : s[i] \in 0 .. N - 1 /\ s[i] # -1
           /\ hd = -1 <=> Len(s) = 0
           /\ Len(s) = 0 => tl = -1
           /\ Len(s) # 0 => /\ Len(s) \in 1 .. Len(s) /\ 1 \in 1 .. Len(s)
                            /\ hd = s[1] /\ tl = s[Len(s)] /\ tl \in U /\ hd \in U
<1>1. Len(s) \in Nat /\ DOMAIN s = 1 .. Len(s)
  BY LenProperties DEF Listed
<1>2. \A i \in 1 .. Len(s) : s[i] \in 0 .. N - 1 /\ s[i] # -1
  <2>1. \A i \in 1 .. Len(s) : s[i] \in 0 .. N - 1
    BY DEF Listed
  <2>2. N \in Nat
    BY DEF Listed
  <2> QED
    BY <2>1, <2>2
<1>3. Len(s) # 0 => Len(s) \in 1 .. Len(s) /\ 1 \in 1 .. Len(s)
  BY <1>1
<1>4. Len(s) # 0 => hd = s[1] /\ tl = s[Len(s)] /\ tl \in U /\ hd \in U
  BY <1>3 DEF Listed
<1>5. Len(s) = 0 => hd = -1 /\ tl = -1
  BY DEF Listed
<1>6. hd = -1 => Len(s) = 0
  BY <1>2, <1>3, <1>4
<1> QED
  BY <1>1, <1>2, <1>3, <1>4, <1>5, <1>6, Zenon

(* The nodes are as many as the list is long.                              *)
LEMMA ListCount ==
    ASSUME NEW N, NEW U, NEW hd, NEW tl, NEW nx, NEW pv, NEW s,
           Listed(N, U, hd, tl, nx, pv, s)
    PROVE  /\ IsFiniteSet(U) /\ Cardinality(U) = Len(s) /\ Len(s) <= N
           /\ s \in Bijection(1 .. Len(s), U)
<1>1. Len(s) \in Nat /\ DOMAIN s = 1 .. Len(s) /\ N \in Nat
  BY ListEnds DEF Listed
<1>2. s \in [1 .. Len(s) -> U]
  <2>1. s \in [DOMAIN s -> Range(s)] /\ s = [i \in DOMAIN s |-> s[i]]
    BY LenProperties, ElementOfSeq DEF Listed, Range
  <2>2. \A i \in DOMAIN s : s[i] \in U
    BY <1>1 DEF Listed
  <2> QED
    BY <1>1, <2>1, <2>2
<1>3. s \in Injection(1 .. Len(s), U)
  BY <1>2 DEF Listed, Injection, IsInjective
<1>4. s \in Surjection(1 .. Len(s), U)
  BY <1>2 DEF Listed, Surjection
<1>5. s \in Bijection(1 .. Len(s), U)
  BY <1>3, <1>4 DEF Bijection
<1>6. IsFiniteSet(1 .. Len(s)) /\ Cardinality(1 .. Len(s)) = Len(s)
  <2>1. /\ IsFiniteSet(1 .. Len(s))
        /\ Cardinality(1 .. Len(s)) = IF 1 > Len(s) THEN 0 ELSE Len(s) - 1 + 1
    <3>1. 1 \in Int /\ Len(s) \in Int
      BY <1>1
    <3> QED
      BY <3>1, FS_Interval
  <2> QED
    BY <1>1, <2>1
<1>7. IsFiniteSet(0 .. N - 1) /\ Cardinality(0 .. N - 1) = N
  <2>1. /\ IsFiniteSet(0 .. N - 1)
        /\ Cardinality(0 .. N - 1) = IF 0 > N - 1 THEN 0 ELSE N - 1 - 0 + 1
    <3>1. 0 \in Int /\ N - 1 \in Int
      BY <1>1
    <3> QED
      BY <3>1, FS_Interval
  <2> QED
    BY <1>1, <2>1
<1>8. IsFiniteSet(U) /\ Cardinality(U) <= N
  <2>1. U \subseteq 0 .. N - 1
    BY DEF Listed
  <2> QED
    BY <1>7, <2>1, FS_Subset
<1>9. Cardinality(U) = Len(s)
  <2>1. ExistsBijection(1 .. Len(s), U)
    BY <1>5, Zenon DEF ExistsBijection
  <2> QED
    BY <1>6, <2>1, FS_Bijection
<1> QED
  BY <1>5, <1>8, <1>9

(* A node behind the last one.                                             *)
NextMore(N, nx, tl, n) ==
    [m \in 0 .. N - 1 |-> IF m = n THEN -1 ELSE IF m = tl THEN n ELSE nx[m]]
PrevMore(N, pv, tl, n) == [m \in 0 .. N - 1 |-> IF m = n THEN tl ELSE pv[m]]

(* Linking a node behind the tail gives a list that ends with it.          *)
LEMMA ListAppend ==
    ASSUME NEW N, NEW U, NEW hd, NEW tl, NEW nx, NEW pv, NEW s,
           Listed(N, U, hd, tl, nx, pv, s), NEW n \in (0 .. N - 1) \ U
    PROVE  Listed(N, U \cup {n}, IF hd = -1 THEN n ELSE hd, n,
                  NextMore(N, nx, tl, n), PrevMore(N, pv, tl, n), Append(s, n))
<1> SUFFICES ASSUME
           NEW hd2, hd2 = IF hd = -1 THEN n ELSE hd,
           NEW nx2, nx2 = [m \in 0 .. N - 1 |-> IF m = n THEN -1
                                                ELSE IF m = tl THEN n ELSE nx[m]],
           NEW pv2, pv2 = [m \in 0 .. N - 1 |-> IF m = n THEN tl ELSE pv[m]]
    PROVE  Listed(N, U \cup {n}, hd2, n, nx2, pv2, Append(s, n))
  BY Zenon DEF NextMore, PrevMore
<1> DEFINE z == Append(s, n)
           L == Len(s)
<1>1. /\ L \in Nat /\ N \in Nat /\ s \in Seq(0 .. N - 1) /\ U \subseteq 0 .. N - 1
      /\ \A i \in 1 .. L : s[i] \in 0 .. N - 1 /\ s[i] # -1 /\ s[i] \in U /\ s[i] # n
      /\ \A i, j \in 1 .. L : s[i] = s[j] => i = j
      /\ n \in 0 .. N - 1 /\ n \notin U
  <2>1. L \in Nat /\ \A i \in 1 .. L : s[i] \in 0 .. N - 1 /\ s[i] # -1
    BY ListEnds
  <2>2. /\ N \in Nat /\ s \in Seq(0 .. N - 1) /\ U \subseteq 0 .. N - 1
        /\ \A i \in 1 .. L : s[i] \in U
        /\ \A i, j \in 1 .. L : s[i] = s[j] => i = j
    BY DEF Listed
  <2>3. \A i \in 1 .. L : s[i] # n
    BY <2>2
  <2> QED
    BY <2>1, <2>2, <2>3
<1>2. /\ z \in Seq(0 .. N - 1) /\ Len(z) = L + 1 /\ z[L + 1] = n
      /\ \A i \in 1 .. L : z[i] = s[i]
  BY <1>1, AppendProperties
<1>3. /\ L + 1 \in 1 .. L + 1 /\ L + 1 # 0 /\ (L + 1) - 1 = L
      /\ \A i \in 1 .. L + 1 : i \in 1 .. L \/ i = L + 1
      /\ \A i \in 1 .. L : i \in 1 .. L + 1 /\ i # L + 1
  BY <1>1
<1> HIDE DEF z, L
<1>4. \A i \in 1 .. L + 1 : z[i] \in U \cup {n}
  BY <1>1, <1>2, <1>3, Zenon
<1>5. \A i, j \in 1 .. L + 1 : z[i] = z[j] => i = j
  BY <1>1, <1>2, <1>3, Zenon
<1>6. \A m \in U \cup {n} : \E i \in 1 .. L + 1 : z[i] = m
  <2>1. \A m \in U : \E i \in 1 .. L : s[i] = m
    BY DEF Listed, L
  <2> QED
    BY <1>2, <1>3, <2>1, Zenon
<1>7. /\ L = 0 => hd = -1 /\ tl = -1
      /\ L # 0 => /\ L \in 1 .. L /\ 1 \in 1 .. L /\ hd # -1
                  /\ hd = s[1] /\ tl = s[L] /\ tl \in U /\ hd \in U
  <2>1. /\ Len(s) \in Nat /\ (hd = -1 <=> Len(s) = 0) /\ (Len(s) = 0 => tl = -1)
        /\ Len(s) # 0 => /\ Len(s) \in 1 .. Len(s) /\ 1 \in 1 .. Len(s)
                         /\ hd = s[1] /\ tl = s[Len(s)] /\ tl \in U /\ hd \in U
    BY ListEnds
  <2> QED
    BY <2>1 DEF L
<1>8. hd2 = z[1]
  BY <1>2, <1>7
<1>9. ASSUME NEW i \in 1 .. L
      PROVE  nx2[z[i]] = IF i = L + 1 THEN -1 ELSE z[i + 1]
  <2>1. z[i] = s[i] /\ s[i] \in 0 .. N - 1 /\ s[i] # n
    BY <1>1, <1>2
  <2>2. nx2[z[i]] = IF s[i] = tl THEN n ELSE nx[s[i]]
    BY <2>1
  <2>3. L # 0 /\ L \in 1 .. L /\ tl = s[L]
    BY <1>1, <1>7
  <2>4. CASE i = L
    BY <1>2, <2>2, <2>3, <2>4, <1>3
  <2>5. CASE i # L
    <3>1. s[i] # tl
      BY <1>1, <2>3, <2>5
    <3>2. nx[s[i]] = s[i + 1]
      BY <2>5 DEF Listed, L
    <3>3. i + 1 \in 1 .. L
      BY <1>1, <2>5
    <3> QED
      BY <1>2, <1>3, <2>2, <3>1, <3>2, <3>3
  <2> QED
    BY <2>4, <2>5
<1>10. ASSUME NEW i \in 1 .. L
       PROVE  pv2[z[i]] = IF i = 1 THEN -1 ELSE z[i - 1]
  <2>1. z[i] = s[i] /\ s[i] \in 0 .. N - 1 /\ s[i] # n
    BY <1>1, <1>2
  <2>2. pv2[z[i]] = pv[s[i]]
    BY <2>1
  <2>3. pv[s[i]] = IF i = 1 THEN -1 ELSE s[i - 1]
    BY DEF Listed, L
  <2>4. i # 1 => i - 1 \in 1 .. L
    BY <1>1
  <2> QED
    BY <1>2, <2>2, <2>3, <2>4
<1>11. nx2[z[L + 1]] = -1 /\ pv2[z[L + 1]] = tl
  BY <1>1, <1>2
<1>12. tl = IF L + 1 = 1 THEN -1 ELSE z[(L + 1) - 1]
  <2>1. L + 1 = 1 <=> L = 0
    BY <1>1
  <2> QED
    BY <1>2, <1>3, <1>7, <2>1
<1>13. \A i \in 1 .. L + 1 : nx2[z[i]] = IF i = L + 1 THEN -1 ELSE z[i + 1]
  BY <1>3, <1>9, <1>11
<1>14. \A i \in 1 .. L + 1 : pv2[z[i]] = IF i = 1 THEN -1 ELSE z[i - 1]
  BY <1>3, <1>10, <1>11, <1>12
<1>15. \A m \in (0 .. N - 1) \ (U \cup {n}) : nx2[m] = -1 /\ pv2[m] = -1
  <2>1. \A m \in (0 .. N - 1) \ (U \cup {n}) : m # tl
    <3>1. L = 0 => tl \notin 0 .. N - 1
      BY <1>7
    <3> QED
      BY <1>7, <3>1
  <2>2. \A m \in (0 .. N - 1) \ (U \cup {n}) : nx[m] = -1 /\ pv[m] = -1
    BY DEF Listed
  <2> QED
    BY <2>1, <2>2
<1>16. nx2 \in [0 .. N - 1 -> Int] /\ pv2 \in [0 .. N - 1 -> Int]
  <2>1. tl \in Int /\ n \in Int
    BY <1>1, <1>7
  <2> QED
    BY <2>1 DEF Listed
<1>17. n = IF L + 1 = 0 THEN -1 ELSE z[L + 1]
  BY <1>2, <1>3
<1>18. hd2 = IF L + 1 = 0 THEN -1 ELSE z[1]
  BY <1>3, <1>8
<1>19. U \cup {n} \subseteq 0 .. N - 1
  BY <1>1
<1>20. Len(z) = L + 1 /\ z \in Seq(0 .. N - 1) /\ N \in Nat
  BY <1>1, <1>2
<1> HIDE DEF L
<1>21. Listed(N, U \cup {n}, hd2, n, nx2, pv2, z)
  <2>1. /\ \A i \in 1 .. Len(z) : z[i] \in U \cup {n}
        /\ \A i, j \in 1 .. Len(z) : z[i] = z[j] => i = j
        /\ \A m \in U \cup {n} : \E i \in 1 .. Len(z) : z[i] = m
    BY <1>4, <1>5, <1>6, <1>20, Zenon
  <2>2. /\ \A i \in 1 .. Len(z) : nx2[z[i]] = IF i = Len(z) THEN -1 ELSE z[i + 1]
        /\ \A i \in 1 .. Len(z) : pv2[z[i]] = IF i = 1 THEN -1 ELSE z[i - 1]
    BY <1>13, <1>14, <1>20, Zenon
  <2>3. /\ hd2 = IF Len(z) = 0 THEN -1 ELSE z[1]
        /\ n = IF Len(z) = 0 THEN -1 ELSE z[Len(z)]
    BY <1>17, <1>18, <1>20, Zenon
  <2> QED
    BY <1>15, <1>16, <1>19, <1>20, <2>1, <2>2, <2>3, Zenon DEF Listed
<1> QED
  BY <1>21 DEF z

(* RemoveAt of SequencesExt.                                               *)
Without(s, i) == SubSeq(s, 1, i - 1) \o SubSeq(s, i + 1, Len(s))

(* What is left of a sequence when one place is taken out of it.           *)
LEMMA WithoutProperties ==
    ASSUME NEW S, NEW s \in Seq(S), NEW i \in 1 .. Len(s)
    PROVE  /\ Without(s, i) \in Seq(S) /\ Len(Without(s, i)) = Len(s) - 1
           /\ \A j \in 1 .. Len(s) - 1 : Without(s, i)[j] = IF j < i THEN s[j] ELSE s[j + 1]
<1> DEFINE a == SubSeq(s, 1, i - 1)
           b == SubSeq(s, i + 1, Len(s))
<1>1. Len(s) \in Nat /\ i \in Nat
  BY LenProperties
<1>2. /\ a \in Seq(S) /\ Len(a) = i - 1 /\ \A j \in 1 .. i - 1 : a[j] = s[j]
  <2>1. \A m \in 1 .. 1 + (i - 1) : TRUE
    OBVIOUS
  <2>2. 1 \in 1 .. Len(s) + 1 /\ i - 1 \in 1 - 1 .. Len(s)
    BY <1>1
  <2>3. /\ a \in Seq(S) /\ Len(a) = IF 1 <= i - 1 THEN (i - 1) - 1 + 1 ELSE 0
        /\ \A j \in 1 .. (i - 1) - 1 + 1 : a[j] = s[1 + j - 1]
    BY <2>2, SubSeqProperties
  <2>4. (i - 1) - 1 + 1 = i - 1 /\ \A j \in 1 .. i - 1 : 1 + j - 1 = j
    BY <1>1
  <2> QED
    BY <1>1, <2>3, <2>4
<1>3. /\ b \in Seq(S) /\ Len(b) = Len(s) - i
      /\ \A j \in 1 .. Len(s) - i : b[j] = s[i + j]
  <2>2. i + 1 \in 1 .. Len(s) + 1 /\ Len(s) \in (i + 1) - 1 .. Len(s)
    BY <1>1
  <2>3. /\ b \in Seq(S) /\ Len(b) = IF i + 1 <= Len(s) THEN Len(s) - (i + 1) + 1 ELSE 0
        /\ \A j \in 1 .. Len(s) - (i + 1) + 1 : b[j] = s[(i + 1) + j - 1]
    BY <2>2, SubSeqProperties
  <2>4. Len(s) - (i + 1) + 1 = Len(s) - i /\ \A j \in 1 .. Len(s) - i : (i + 1) + j - 1 = i + j
    BY <1>1
  <2>5. Len(b) = Len(s) - i
    BY <1>1, <2>3
  <2>6. \A j \in 1 .. Len(s) - i : b[j] = s[(i + 1) + j - 1]
    BY <2>3, <2>4, Zenon
  <2>7. \A j \in 1 .. Len(s) - i : b[j] = s[i + j]
    BY <2>4, <2>6, Zenon
  <2> QED
    BY <2>3, <2>5, <2>7
<1> HIDE DEF a, b
<1>4. /\ a \o b \in Seq(S) /\ Len(a \o b) = Len(s) - 1
      /\ \A j \in 1 .. Len(s) - 1 : (a \o b)[j] = IF j <= i - 1 THEN a[j] ELSE b[j - (i - 1)]
  <2>1. /\ a \o b \in Seq(S) /\ Len(a \o b) = Len(a) + Len(b)
        /\ \A j \in 1 .. Len(a) + Len(b) :
              (a \o b)[j] = IF j <= Len(a) THEN a[j] ELSE b[j - Len(a)]
    BY <1>2, <1>3, ConcatProperties
  <2>2. Len(a) + Len(b) = Len(s) - 1
    BY <1>1, <1>2, <1>3
  <2> QED
    BY <1>2, <2>1, <2>2
<1>5. ASSUME NEW j \in 1 .. Len(s) - 1
      PROVE  (a \o b)[j] = IF j < i THEN s[j] ELSE s[j + 1]
  <2>1. CASE j < i
    <3>1. j <= i - 1 /\ j \in 1 .. i - 1
      BY <1>1, <2>1
    <3> QED
      BY <1>2, <1>4, <2>1, <3>1
  <2>2. CASE ~(j < i)
    <3>1. ~(j <= i - 1) /\ j - (i - 1) \in 1 .. Len(s) - i /\ i + (j - (i - 1)) = j + 1
      BY <1>1, <2>2
    <3> QED
      BY <1>3, <1>4, <2>2, <3>1
  <2> QED
    BY <2>1, <2>2
<1> QED
  BY <1>4, <1>5 DEF Without, a, b

(* A node taken out; its neighbours lead past it.                          *)
Around(N, links, n) ==
    [m \in 0 .. N - 1 |-> IF m = n THEN -1 ELSE IF links[m] = n THEN links[n] ELSE links[m]]

(* Leading past a node gives the list without it.                          *)
LEMMA ListRemove ==
    ASSUME NEW N, NEW U, NEW hd, NEW tl, NEW nx, NEW pv, NEW s,
           Listed(N, U, hd, tl, nx, pv, s), NEW i \in 1 .. Len(s), NEW n, n = s[i]
    PROVE  Listed(N, U \ {n}, IF hd = n THEN nx[n] ELSE hd, IF tl = n THEN pv[n] ELSE tl,
                  Around(N, nx, n), Around(N, pv, n), Without(s, i))
<1> SUFFICES ASSUME
           NEW hd2, hd2 = IF hd = n THEN nx[n] ELSE hd,
           NEW tl2, tl2 = IF tl = n THEN pv[n] ELSE tl,
           NEW nx2, nx2 = [m \in 0 .. N - 1 |-> IF m = n THEN -1
                                                ELSE IF nx[m] = n THEN nx[n] ELSE nx[m]],
           NEW pv2, pv2 = [m \in 0 .. N - 1 |-> IF m = n THEN -1
                                                ELSE IF pv[m] = n THEN pv[n] ELSE pv[m]]
    PROVE  Listed(N, U \ {n}, hd2, tl2, nx2, pv2, Without(s, i))
  BY Zenon DEF Around
<1> DEFINE z == Without(s, i)
           L == Len(s)
<1>1. /\ L \in Nat /\ N \in Nat /\ s \in Seq(0 .. N - 1) /\ U \subseteq 0 .. N - 1
      /\ \A j \in 1 .. L : s[j] \in 0 .. N - 1 /\ s[j] # -1 /\ s[j] \in U
      /\ \A j, k \in 1 .. L : s[j] = s[k] => j = k
      /\ n \in 0 .. N - 1 /\ n \in U /\ i \in 1 .. L /\ n = s[i] /\ n # -1
  <2>1. L \in Nat /\ \A j \in 1 .. L : s[j] \in 0 .. N - 1 /\ s[j] # -1
    BY ListEnds
  <2>2. /\ N \in Nat /\ s \in Seq(0 .. N - 1) /\ U \subseteq 0 .. N - 1
        /\ \A j \in 1 .. L : s[j] \in U
        /\ \A j, k \in 1 .. L : s[j] = s[k] => j = k
    BY DEF Listed
  <2> QED
    BY <2>1, <2>2
<1>2. /\ z \in Seq(0 .. N - 1) /\ Len(z) = L - 1
      /\ \A j \in 1 .. L - 1 : z[j] = IF j < i THEN s[j] ELSE s[j + 1]
  BY <1>1, WithoutProperties
<1>3. /\ \A j \in 1 .. L : nx[s[j]] = IF j = L THEN -1 ELSE s[j + 1]
      /\ \A j \in 1 .. L : pv[s[j]] = IF j = 1 THEN -1 ELSE s[j - 1]
      /\ nx \in [0 .. N - 1 -> Int] /\ pv \in [0 .. N - 1 -> Int]
  BY DEF Listed
<1>l. /\ hd = s[1] /\ tl = s[L] /\ L # 0 /\ 1 \in 1 .. L /\ L \in 1 .. L
  BY <1>1 DEF Listed
<1> HIDE DEF z, L
<1>4. \A j \in 1 .. L - 1 : j \in 1 .. L /\ j + 1 \in 1 .. L /\ (j # 1 => j - 1 \in 1 .. L - 1)
                            /\ (j # L - 1 => j + 1 \in 1 .. L - 1)
  BY <1>1
<1>5. ASSUME NEW j \in 1 .. L - 1 PROVE z[j] \in U \ {n}
  <2>1. CASE j < i
    <3>1. j # i /\ j \in 1 .. L
      BY <1>1, <2>1
    <3> QED
      BY <1>1, <1>2, <2>1, <3>1
  <2>2. CASE ~(j < i)
    <3>1. j + 1 # i /\ j + 1 \in 1 .. L
      BY <1>1, <2>2
    <3> QED
      BY <1>1, <1>2, <2>2, <3>1
  <2> QED
    BY <2>1, <2>2
<1>6. ASSUME NEW j \in 1 .. L - 1, NEW k \in 1 .. L - 1, z[j] = z[k] PROVE j = k
  <2> DEFINE o(x) == IF x < i THEN x ELSE x + 1
  <2>1. o(j) \in 1 .. L /\ o(k) \in 1 .. L
    BY <1>1
  <2>2. z[j] = s[o(j)] /\ z[k] = s[o(k)]
    BY <1>2
  <2>3. o(j) = o(k)
    BY <1>1, <1>6, <2>1, <2>2
  <2>4. j \in Int /\ k \in Int /\ i \in Int
    BY <1>1
  <2> QED
    BY <2>3, <2>4
<1>7. ASSUME NEW m \in U \ {n} PROVE \E j \in 1 .. L - 1 : z[j] = m
  <2>1. PICK x \in 1 .. L : s[x] = m
    BY DEF Listed, L
  <2>2. x # i
    BY <1>1, <2>1
  <2>3. CASE x < i
    <3>1. x \in 1 .. L - 1
      BY <1>1, <2>3
    <3> QED
      BY <1>2, <2>1, <2>3, <3>1
  <2>4. CASE x > i
    <3>1. x - 1 \in 1 .. L - 1 /\ ~(x - 1 < i) /\ (x - 1) + 1 = x
      BY <1>1, <2>4
    <3> QED
      BY <1>2, <2>1, <3>1
  <2> QED
    BY <1>1, <2>2, <2>3, <2>4
<1>8. \A j \in 1 .. L - 1 : /\ z[j] \in 0 .. N - 1 /\ z[j] # n
                            /\ nx2[z[j]] = IF nx[z[j]] = n THEN nx[n] ELSE nx[z[j]]
                            /\ pv2[z[j]] = IF pv[z[j]] = n THEN pv[n] ELSE pv[z[j]]
  BY <1>1, <1>5
<1>9. \A j \in 1 .. L : j # i => s[j] # n
  BY <1>1
<1>n. /\ nx[n] = IF i = L THEN -1 ELSE s[i + 1]
      /\ pv[n] = IF i = 1 THEN -1 ELSE s[i - 1]
  BY <1>1, <1>3
<1>10. ASSUME NEW j \in 1 .. L - 1
       PROVE  nx2[z[j]] = IF j = L - 1 THEN -1 ELSE z[j + 1]
  <2>1. CASE j < i - 1
    <3>1. j < i /\ j + 1 < i /\ j # L /\ j # L - 1 /\ j \in 1 .. L /\ j + 1 \in 1 .. L - 1
          /\ j + 1 \in 1 .. L /\ j + 1 # i
      BY <1>1, <2>1
    <3>2. z[j] = s[j] /\ z[j + 1] = s[j + 1] /\ nx[s[j]] = s[j + 1] /\ s[j + 1] # n
      BY <1>2, <1>3, <1>9, <3>1
    <3> QED
      BY <1>8, <3>1, <3>2
  <2>2. CASE j = i - 1
    <3>1. j < i /\ j # L /\ j \in 1 .. L /\ j + 1 = i /\ (j = L - 1 <=> i = L)
          /\ (i # L => i \in 1 .. L - 1) /\ ~(i < i)
      BY <1>1, <2>2
    <3>2. z[j] = s[j] /\ nx[s[j]] = n
      BY <1>1, <1>2, <1>3, <3>1
    <3>3. nx2[z[j]] = nx[n]
      BY <1>8, <3>2
    <3>4. i # L => z[i] = s[i + 1]
      BY <1>2, <3>1
    <3> QED
      BY <1>n, <3>1, <3>3, <3>4
  <2>3. CASE j >= i
    <3>1. /\ ~(j < i) /\ j + 1 \in 1 .. L /\ (j = L - 1 <=> j + 1 = L)
          /\ j # L - 1 => /\ j + 1 \in 1 .. L - 1 /\ ~(j + 1 < i) /\ (j + 1) + 1 \in 1 .. L
                          /\ (j + 1) + 1 # i
      BY <1>1, <2>3
    <3>2. z[j] = s[j + 1] /\ nx[s[j + 1]] = IF j + 1 = L THEN -1 ELSE s[(j + 1) + 1]
      BY <1>2, <1>3, <3>1
    <3>3. j # L - 1 => z[j + 1] = s[(j + 1) + 1] /\ s[(j + 1) + 1] # n
      BY <1>2, <1>9, <3>1
    <3>4. CASE j = L - 1
      BY <1>1, <1>8, <3>1, <3>2, <3>4
    <3>5. CASE j # L - 1
      BY <1>8, <3>1, <3>2, <3>3, <3>5
    <3> QED
      BY <3>4, <3>5
  <2> QED
    BY <1>1, <2>1, <2>2, <2>3
<1>11. ASSUME NEW j \in 1 .. L - 1
       PROVE  pv2[z[j]] = IF j = 1 THEN -1 ELSE z[j - 1]
  <2>1. CASE j < i
    <3>1. /\ j \in 1 .. L
          /\ j # 1 => j - 1 \in 1 .. L - 1 /\ j - 1 < i /\ j - 1 \in 1 .. L /\ j - 1 # i
      BY <1>1, <2>1
    <3>2. z[j] = s[j] /\ pv[s[j]] = IF j = 1 THEN -1 ELSE s[j - 1]
      BY <1>2, <1>3, <2>1, <3>1
    <3>3. j # 1 => z[j - 1] = s[j - 1] /\ s[j - 1] # n
      BY <1>2, <1>9, <3>1
    <3>4. CASE j = 1
      BY <1>1, <1>8, <3>2, <3>4
    <3>5. CASE j # 1
      BY <1>8, <3>2, <3>3, <3>5
    <3> QED
      BY <3>4, <3>5
  <2>2. CASE j = i
    <3>1. /\ ~(j < i) /\ j + 1 \in 1 .. L /\ j + 1 # 1 /\ (j + 1) - 1 = i
          /\ i # 1 => i - 1 \in 1 .. L - 1 /\ i - 1 < i
      BY <1>1, <2>2
    <3>2. z[j] = s[j + 1] /\ pv[s[j + 1]] = n
      BY <1>1, <1>2, <1>3, <3>1
    <3>3. pv2[z[j]] = pv[n]
      BY <1>8, <3>2
    <3>4. i # 1 => z[i - 1] = s[i - 1]
      BY <1>2, <3>1
    <3> QED
      BY <1>n, <2>2, <3>3, <3>4
  <2>3. CASE j > i
    <3>1. /\ ~(j < i) /\ j + 1 \in 1 .. L /\ j + 1 # 1 /\ (j + 1) - 1 = j /\ j # 1
          /\ j - 1 \in 1 .. L - 1 /\ ~(j - 1 < i) /\ (j - 1) + 1 = j /\ j \in 1 .. L /\ j # i
      BY <1>1, <2>3
    <3>2. z[j] = s[j + 1] /\ pv[s[j + 1]] = s[j] /\ z[j - 1] = s[j] /\ s[j] # n
      BY <1>2, <1>3, <1>9, <3>1
    <3> QED
      BY <1>8, <3>1, <3>2
  <2> QED
    BY <1>1, <2>1, <2>2, <2>3
<1>12. hd2 = IF L - 1 = 0 THEN -1 ELSE z[1]
  <2>1. hd = n <=> i = 1
    BY <1>1, <1>l
  <2>2. CASE i = 1
    <3>1. L - 1 # 0 => 1 \in 1 .. L - 1 /\ ~(1 < i)
      BY <1>1, <2>2
    <3>2. L - 1 = 0 <=> i = L
      BY <1>1, <2>2
    <3> QED
      BY <1>2, <1>n, <2>1, <2>2, <3>1, <3>2
  <2>3. CASE i # 1
    <3>1. L - 1 # 0 /\ 1 \in 1 .. L - 1 /\ 1 < i
      BY <1>1, <2>3
    <3> QED
      BY <1>2, <1>l, <2>1, <2>3, <3>1
  <2> QED
    BY <2>2, <2>3
<1>13. tl2 = IF L - 1 = 0 THEN -1 ELSE z[L - 1]
  <2>1. tl = n <=> i = L
    BY <1>1, <1>l
  <2>2. CASE i = L
    <3>1. L - 1 # 0 => L - 1 \in 1 .. L - 1 /\ L - 1 < i /\ i - 1 = L - 1
      BY <1>1, <2>2
    <3>2. L - 1 = 0 <=> i = 1
      BY <1>1, <2>2
    <3> QED
      BY <1>2, <1>n, <2>1, <2>2, <3>1, <3>2
  <2>3. CASE i # L
    <3>1. L - 1 # 0 /\ L - 1 \in 1 .. L - 1 /\ ~(L - 1 < i) /\ (L - 1) + 1 = L
      BY <1>1, <2>3
    <3> QED
      BY <1>2, <1>l, <2>1, <2>3, <3>1
  <2> QED
    BY <2>2, <2>3
<1>14. ASSUME NEW m \in (0 .. N - 1) \ (U \ {n})
       PROVE  nx2[m] = -1 /\ pv2[m] = -1
  <2>1. m # n => nx[m] = -1 /\ pv[m] = -1
    BY DEF Listed
  <2> QED
    BY <1>1, <2>1
<1>15. nx2 \in [0 .. N - 1 -> Int] /\ pv2 \in [0 .. N - 1 -> Int]
  <2>1. nx[n] \in Int /\ pv[n] \in Int /\ -1 \in Int
    BY <1>1, <1>3
  <2>2. ASSUME NEW m \in 0 .. N - 1 PROVE nx[m] \in Int /\ pv[m] \in Int
    BY <1>3
  <2> QED
    BY <2>1, <2>2
<1>16. U \ {n} \subseteq 0 .. N - 1
  BY <1>1
<1>17. /\ \A j \in 1 .. Len(z) : z[j] \in U \ {n}
       /\ \A j, k \in 1 .. Len(z) : z[j] = z[k] => j = k
       /\ \A m \in U \ {n} : \E j \in 1 .. Len(z) : z[j] = m
  BY <1>2, <1>5, <1>6, <1>7, Zenon
<1>18. /\ \A j \in 1 .. Len(z) : nx2[z[j]] = IF j = Len(z) THEN -1 ELSE z[j + 1]
       /\ \A j \in 1 .. Len(z) : pv2[z[j]] = IF j = 1 THEN -1 ELSE z[j - 1]
  BY <1>2, <1>10, <1>11, Zenon
<1>19. /\ hd2 = IF Len(z) = 0 THEN -1 ELSE z[1]
       /\ tl2 = IF Len(z) = 0 THEN -1 ELSE z[Len(z)]
  BY <1>2, <1>12, <1>13, Zenon
<1>20. N \in Nat /\ z \in Seq(0 .. N - 1)
  BY <1>1, <1>2
<1>21. Listed(N, U \ {n}, hd2, tl2, nx2, pv2, z)
  BY <1>14, <1>15, <1>16, <1>17, <1>18, <1>19, <1>20, Zenon DEF Listed
<1> QED
  BY <1>21 DEF z

(* Where a link leads.                                                     *)
LEMMA ListSteps ==
    ASSUME NEW N, NEW U, NEW hd, NEW tl, NEW nx, NEW pv, NEW s,
           Listed(N, U, hd, tl, nx, pv, s)
    PROVE  /\ \A m \in 0 .. N - 1 : nx[m] \in -1 .. N - 1 /\ pv[m] \in -1 .. N - 1
           /\ hd \in -1 .. N - 1 /\ tl \in -1 .. N - 1
<1>1. /\ N \in Nat /\ U \subseteq 0 .. N - 1 /\ -1 \in -1 .. N - 1
      /\ \A m \in 0 .. N - 1 : m \in -1 .. N - 1
  BY DEF Listed
<1>2. /\ Len(s) \in Nat /\ \A i \in 1 .. Len(s) : s[i] \in 0 .. N - 1
  BY ListEnds
<1>3. ASSUME NEW i \in 1 .. Len(s)
      PROVE  nx[s[i]] \in -1 .. N - 1 /\ pv[s[i]] \in -1 .. N - 1
  <2>1. /\ nx[s[i]] = IF i = Len(s) THEN -1 ELSE s[i + 1]
        /\ pv[s[i]] = IF i = 1 THEN -1 ELSE s[i - 1]
    BY DEF Listed
  <2>2. (i # Len(s) => i + 1 \in 1 .. Len(s)) /\ (i # 1 => i - 1 \in 1 .. Len(s))
    BY <1>2
  <2> QED
    BY <1>1, <1>2, <2>1, <2>2
<1>4. ASSUME NEW m \in 0 .. N - 1
      PROVE  nx[m] \in -1 .. N - 1 /\ pv[m] \in -1 .. N - 1
  <2>1. CASE m \in U
    <3>1. PICK i \in 1 .. Len(s) : s[i] = m
      BY <2>1 DEF Listed
    <3> QED
      BY <1>3, <3>1
  <2>2. CASE m \notin U
    <3>1. nx[m] = -1 /\ pv[m] = -1
      BY <2>2 DEF Listed
    <3> QED
      BY <1>1, <3>1
  <2> QED
    BY <2>1, <2>2
<1>5. hd \in -1 .. N - 1 /\ tl \in -1 .. N - 1
  <2>1. CASE Len(s) = 0
    BY <1>1, <2>1, ListEnds
  <2>2. CASE Len(s) # 0
    <3>1. hd \in U /\ tl \in U
      BY <2>2, ListEnds
    <3> QED
      BY <1>1, <3>1
  <2> QED
    BY <2>1, <2>2
<1> QED
  BY <1>4, <1>5

(* Following the links from the head gives the nodes in their order.       *)
Follows(f, N, nx) ==
    /\ f = [m \in -1 .. N - 1 |-> f[m]]
    /\ f[-1] = <<>>
    /\ \A m \in 0 .. N - 1 : f[m] = <<m>> \o f[nx[m]]

(* The rest of a sequence begins with its first element.                   *)
LEMMA LastOf ==
    ASSUME NEW S, NEW s \in Seq(S), NEW i \in 1 .. Len(s)
    PROVE  /\ SubSeq(s, i, Len(s)) = <<s[i]>> \o SubSeq(s, i + 1, Len(s))
           /\ i = Len(s) => SubSeq(s, i + 1, Len(s)) = <<>>
<1>1. Len(s) \in Nat /\ i \in 1 .. Len(s) /\ Len(s) \in i .. Len(s)
  BY LenProperties
<1>2. SubSeq(s, i, Len(s)) = <<s[i]>> \o SubSeq(s, i + 1, Len(s))
  BY <1>1, SubSeqRecursiveFirst
<1>3. i = Len(s) => SubSeq(s, i + 1, Len(s)) = <<>>
  <2>1. i = Len(s) => i + 1 > Len(s) /\ i + 1 \in Int /\ Len(s) \in Int
    BY <1>1
  <2> QED
    BY <2>1, SubSeqEmpty
<1> QED
  BY <1>2, <1>3

(* One function, and only one, follows the links to the end: from the head *)
(* it gives the nodes in the order of the list.                            *)
LEMMA ListFollowed ==
    ASSUME NEW N, NEW U, NEW hd, NEW tl, NEW nx, NEW pv, NEW s,
           Listed(N, U, hd, tl, nx, pv, s)
    PROVE  /\ \E f : Follows(f, N, nx)
           /\ \A f : Follows(f, N, nx) => f[hd] = s
<1> DEFINE L == Len(s)
           rest(i) == SubSeq(s, i, L)
<1>1. /\ L \in Nat /\ N \in Nat /\ s \in Seq(0 .. N - 1)
      /\ \A i \in 1 .. L : s[i] \in 0 .. N - 1 /\ s[i] \in U
      /\ \A i, j \in 1 .. L : s[i] = s[j] => i = j
      /\ \A m \in U : \E i \in 1 .. L : s[i] = m
      /\ \A i \in 1 .. L : nx[s[i]] = IF i = L THEN -1 ELSE s[i + 1]
  <2>1. L \in Nat /\ \A i \in 1 .. L : s[i] \in 0 .. N - 1
    BY ListEnds
  <2> QED
    BY <2>1 DEF Listed
<1>2. \A i \in 1 .. L : rest(i) = <<s[i]>> \o rest(i + 1) /\ (i = L => rest(i + 1) = <<>>)
  BY <1>1, LastOf
<1> HIDE DEF L, rest
<1>3. \E f : Follows(f, N, nx)
  <2> DEFINE at(m) == CHOOSE i \in 1 .. L : s[i] = m
             f == [m \in -1 .. N - 1 |->
                     IF m = -1 THEN <<>> ELSE IF m \in U THEN rest(at(m)) ELSE <<m>>]
  <2>1. f = [m \in -1 .. N - 1 |-> f[m]] /\ f[-1] = <<>>
    BY <1>1
  <2>2. \A i \in 1 .. L : at(s[i]) = i
    BY <1>1
  <2> HIDE DEF at
  <2>3. \A i \in 1 .. L : f[s[i]] = rest(i)
    BY <1>1, <2>2
  <2>4. ASSUME NEW m \in 0 .. N - 1 PROVE f[m] = <<m>> \o f[nx[m]]
    <3>1. CASE m \in U
      <4>1. PICK i \in 1 .. L : s[i] = m
        BY <1>1, <3>1
      <4>2. f[m] = <<m>> \o rest(i + 1)
        BY <1>2, <2>3, <4>1
      <4>3. CASE i = L
        BY <1>1, <1>2, <2>1, <4>1, <4>2, <4>3
      <4>4. CASE i # L
        <5>1. i + 1 \in 1 .. L /\ nx[m] = s[i + 1]
          BY <1>1, <4>1, <4>4
        <5> QED
          BY <2>3, <4>2, <5>1
      <4> QED
        BY <4>3, <4>4
    <3>2. CASE m \notin U
      <4>1. nx[m] = -1
        BY <3>2 DEF Listed
      <4>2. f[m] = <<m>>
        BY <1>1, <3>2
      <4>3. <<m>> \in Seq(0 .. N - 1)
        OBVIOUS
      <4>4. <<m>> \o <<>> = <<m>>
        BY <4>3, ConcatEmptySeq
      <4> QED
        BY <2>1, <4>1, <4>2, <4>4
    <3> QED
      BY <3>1, <3>2
  <2> HIDE DEF f
  <2>5. Follows(f, N, nx)
    BY <2>1, <2>4 DEF Follows
  <2> QED
    BY <2>5
<1>4. ASSUME NEW f, Follows(f, N, nx) PROVE f[hd] = s
  <2> DEFINE B == {k \in Nat : k < L /\ f[s[L - k]] # rest(L - k)}
  <2>1. B = {}
    <3> SUFFICES ASSUME B # {} PROVE FALSE
      OBVIOUS
    <3>1. PICK k \in B : \A j \in B : k <= j
      <4>1. B \in SUBSET Nat
        OBVIOUS
      <4> HIDE DEF B
      <4> QED
        BY <4>1, LeastOf
    <3>2. k \in Nat /\ k < L /\ f[s[L - k]] # rest(L - k) /\ L - k \in 1 .. L
      BY <1>1
    <3>3. f[s[L - k]] = <<s[L - k]>> \o f[nx[s[L - k]]]
      <4>1. s[L - k] \in 0 .. N - 1
        BY <1>1, <3>2
      <4>2. \A m \in 0 .. N - 1 : f[m] = <<m>> \o f[nx[m]]
        BY <1>4 DEF Follows
      <4> QED
        BY <4>1, <4>2
    <3>4. CASE k = 0
      <4>1. L - k = L /\ nx[s[L - k]] = -1
        <5>1. L - k = L /\ L \in 1 .. L
          BY <1>1, <3>2, <3>4
        <5>2. nx[s[L]] = -1
          BY <1>1, <5>1
        <5> QED
          BY <5>1, <5>2
      <4> QED
        <5>1. f[-1] = <<>>
          BY <1>4 DEF Follows
        <5>2. rest(L - k) = <<s[L - k]>> \o <<>>
          BY <1>2, <3>2, <4>1
        <5> QED
          BY <3>2, <3>3, <4>1, <5>1, <5>2
    <3>5. CASE k # 0
      <4>1. k - 1 \in Nat /\ k - 1 < L /\ ~(k <= k - 1) /\ L - (k - 1) = (L - k) + 1 /\ L - k # L
        BY <1>1, <3>2, <3>5
      <4>2. k - 1 \notin B
        BY <3>1, <4>1, Zenon
      <4>3. f[s[(L - k) + 1]] = rest((L - k) + 1)
        BY <4>1, <4>2
      <4>4. nx[s[L - k]] = s[(L - k) + 1]
        BY <1>1, <3>2, <4>1
      <4> QED
        BY <1>2, <3>2, <3>3, <4>3, <4>4
    <3> QED
      BY <3>4, <3>5
  <2>2. CASE L = 0
    <3>1. hd = -1 /\ s = <<>>
      BY <1>1, <2>2, ListEnds, EmptySeq DEF L
    <3> QED
      BY <1>4, <3>1 DEF Follows
  <2>3. CASE L # 0
    <3>1. hd = s[1]
      BY <2>3, ListEnds DEF L
    <3>2. L - 1 \in Nat /\ L - 1 < L /\ L - (L - 1) = 1
      BY <1>1, <2>3
    <3>3. f[s[1]] = rest(1)
      <4>1. L - 1 \notin B
        BY <2>1
      <4>2. f[s[L - (L - 1)]] = rest(L - (L - 1))
        BY <3>2, <4>1
      <4> QED
        BY <3>2, <4>2
    <3>4. rest(1) = s
      BY <1>1, SubSeqFull DEF rest, L
    <3> QED
      BY <3>1, <3>3, <3>4
  <2> QED
    BY <2>2, <2>3
<1> QED
  BY <1>3, <1>4

-----------------------------------------------------------------------------
(* How many nodes hold something is told by the list.                      *)
NodesWith(U, val, w) == {m \in U : val[m] = w}
PlacesWith(s, val, w) == {i \in 1 .. Len(s) : val[s[i]] = w}

(* The nodes with a value are as many as their places in the list.         *)
LEMMA CountPlaces ==
    ASSUME NEW N, NEW U, NEW hd, NEW tl, NEW nx, NEW pv, NEW s,
           Listed(N, U, hd, tl, nx, pv, s), NEW val, NEW w
    PROVE  Cardinality(NodesWith(U, val, w)) = Cardinality(PlacesWith(s, val, w))
<1> DEFINE P == {i \in 1 .. Len(s) : val[s[i]] = w}
           Q == {m \in U : val[m] = w}
           f == [i \in P |-> s[i]]
<1>1. /\ \A i \in 1 .. Len(s) : s[i] \in U
      /\ \A i, j \in 1 .. Len(s) : s[i] = s[j] => i = j
      /\ \A m \in U : \E i \in 1 .. Len(s) : s[i] = m
  BY DEF Listed
<1>2. f \in [P -> Q]
  BY <1>1
<1>3. \A i, j \in P : f[i] = f[j] => i = j
  BY <1>1
<1>4. \A m \in Q : \E i \in P : f[i] = m
  BY <1>1
<1>5. IsFiniteSet(P)
  <2>1. Len(s) \in Nat /\ 1 \in Int /\ Len(s) \in Int
    BY ListEnds
  <2>2. IsFiniteSet(1 .. Len(s))
    BY <2>1, FS_Interval
  <2>3. P \subseteq 1 .. Len(s)
    OBVIOUS
  <2> QED
    BY <2>2, <2>3, FS_Subset
<1> HIDE DEF P, Q, f
<1>6. f \in Bijection(P, Q)
  BY <1>2, <1>3, <1>4 DEF Bijection, Injection, IsInjective, Surjection
<1>7. ExistsBijection(P, Q)
  BY <1>6, Zenon DEF ExistsBijection
<1>8. Cardinality(Q) = Cardinality(P)
  BY <1>5, <1>7, FS_Bijection
<1> QED
  BY <1>8 DEF P, Q, NodesWith, PlacesWith

-----------------------------------------------------------------------------
(* The search.  W[k] leads through all nodes from where the hash of k      *)
(* leads; O are the nodes that are not empty, and no node before the one   *)
(* with a key, on the way to it, is empty.                                 *)
Ways(N, W) ==
    /\ N \in Nat \ {0}
    /\ W \in [Keys -> [0 .. N - 1 -> 0 .. N - 1]]
    /\ \A k \in Keys : \A i, j \in 0 .. N - 1 : W[k][i] = W[k][j] => i = j
    /\ \A k \in Keys : \A m \in 0 .. N - 1 : \E j \in 0 .. N - 1 : W[k][j] = m

Named(N, U, key, val) ==
    /\ U \subseteq 0 .. N - 1
    /\ \A m \in U : key[m] \in Keys /\ val[m] \in Values
    /\ \A m, n \in U : key[m] = key[n] => m = n

Reached(N, U, key, O, W) ==
    /\ U \subseteq O
    /\ \A m \in U : \A j \in 0 .. N - 1 : W[key[m]][j] = m =>
          \A i \in 0 .. j - 1 : W[key[m]][i] \in O

(* The first of the nodes of S on the way.                                 *)
First(N, way, S, n) ==
    \/ n = -1 /\ \A j \in 0 .. N - 1 : way[j] \notin S
    \/ \E j \in 0 .. N - 1 :
          n = way[j] /\ way[j] \in S /\ \A i \in 0 .. j - 1 : way[i] \notin S

Searchable(N, U, key, val, O, W) ==
    Ways(N, W) /\ Named(N, U, key, val) /\ Reached(N, U, key, O, W)

(* The search stops at a node with the key, or an empty one.               *)
Stops(N, U, key, O, k, S) ==
    \A m \in 0 .. N - 1 : m \in S <=> (m \in U /\ key[m] = k) \/ m \notin O

Met(N, U, key, O, W, k, n) ==
    \E S : Stops(N, U, key, O, k, S) /\ First(N, W[k], S, n)

(* A search ends at the node with the key; when it ends at an empty node or*)
(* nowhere, no node has the key.                                           *)
LEMMA SearchEnds ==
    ASSUME NEW N, NEW U, NEW key, NEW val, NEW O, NEW W, NEW k \in Keys, NEW n,
           Searchable(N, U, key, val, O, W), Met(N, U, key, O, W, k, n)
    PROVE  \/ n \in U /\ key[n] = k
           \/ /\ n = -1 \/ n \in (0 .. N - 1) \ O
              /\ \A m \in U : key[m] # k
<1>1. /\ N \in Nat \ {0} /\ U \subseteq 0 .. N - 1 /\ U \subseteq O
      /\ \A j \in 0 .. N - 1 : W[k][j] \in 0 .. N - 1
      /\ \A m \in 0 .. N - 1 : \E j \in 0 .. N - 1 : W[k][j] = m
  <2>1. W[k] \in [0 .. N - 1 -> 0 .. N - 1]
    BY DEF Searchable, Ways
  <2>2. \A j \in 0 .. N - 1 : W[k][j] \in 0 .. N - 1
    BY <2>1
  <2>3. N \in Nat \ {0} /\ \A m \in 0 .. N - 1 : \E j \in 0 .. N - 1 : W[k][j] = m
    BY Zenon DEF Searchable, Ways
  <2> QED
    BY <2>2, <2>3 DEF Searchable, Named, Reached
<1>s. PICK S : Stops(N, U, key, O, k, S) /\ First(N, W[k], S, n)
  BY Zenon DEF Met
<1>2. CASE n = -1 /\ \A j \in 0 .. N - 1 : W[k][j] \notin S
  <2>1. ASSUME NEW m \in U, key[m] = k PROVE FALSE
    <3>1. PICK j \in 0 .. N - 1 : W[k][j] = m
      BY <1>1
    <3>2. m \in S
      BY <1>1, <1>s, <2>1 DEF Stops
    <3> QED
      BY <1>2, <3>1, <3>2
  <2> QED
    BY <1>2, <2>1
<1>3. CASE \E j \in 0 .. N - 1 :
              n = W[k][j] /\ W[k][j] \in S /\ \A i \in 0 .. j - 1 : W[k][i] \notin S
  <2>1. PICK j \in 0 .. N - 1 :
              n = W[k][j] /\ n \in S /\ \A i \in 0 .. j - 1 : W[k][i] \notin S
    BY <1>3, Zenon
  <2>2. n \in 0 .. N - 1
    BY <1>1, <2>1
  <2>3. CASE n \in U /\ key[n] = k
    BY <2>3
  <2>4. CASE n \notin O
    <3>1. ASSUME NEW m \in U, key[m] = k PROVE FALSE
      <4>1. PICK l \in 0 .. N - 1 : W[k][l] = m
        BY <1>1
      <4>2. \A i \in 0 .. l - 1 : W[k][i] \in O
        BY <3>1, <4>1 DEF Searchable, Reached
      <4>3. m \in S
        BY <1>1, <1>s, <3>1 DEF Stops
      <4>4. ~(j < l)
        BY <2>1, <2>4, <4>2
      <4>5. ~(l < j)
        BY <2>1, <4>1, <4>3
      <4>6. j = l
        BY <4>4, <4>5
      <4> QED
        BY <1>1, <2>1, <2>4, <4>1, <4>6
    <3> QED
      BY <2>2, <2>4, <3>1
  <2> QED
    BY <1>s, <2>1, <2>2, <2>3, <2>4 DEF Stops
<1> QED
  BY <1>s, <1>2, <1>3 DEF First

(* A new key at the first unused node on its way.                          *)
LEMMA ReachMore ==
    ASSUME NEW N, NEW U, NEW key, NEW val, NEW O, NEW W, NEW k \in Keys, NEW v \in Values, NEW n,
           Searchable(N, U, key, val, O, W),
           DOMAIN key = 0 .. N - 1, DOMAIN val = 0 .. N - 1,
           \A m \in U : key[m] # k, First(N, W[k], (0 .. N - 1) \ U, n), n # -1
    PROVE  /\ n \in (0 .. N - 1) \ U
           /\ Searchable(N, U \cup {n}, [key EXCEPT ![n] = k], [val EXCEPT ![n] = v], O \cup {n}, W)
<1> DEFINE key2 == [key EXCEPT ![n] = k]
           val2 == [val EXCEPT ![n] = v]
<1>1. /\ N \in Nat \ {0} /\ U \subseteq 0 .. N - 1 /\ U \subseteq O
      /\ \A j \in 0 .. N - 1 : W[k][j] \in 0 .. N - 1
      /\ \A i, j \in 0 .. N - 1 : W[k][i] = W[k][j] => i = j
  <2>1. W[k] \in [0 .. N - 1 -> 0 .. N - 1]
    BY DEF Searchable, Ways
  <2>2. \A j \in 0 .. N - 1 : W[k][j] \in 0 .. N - 1
    BY <2>1
  <2>3. N \in Nat \ {0} /\ \A i, j \in 0 .. N - 1 : W[k][i] = W[k][j] => i = j
    BY Zenon DEF Searchable, Ways
  <2> QED
    BY <2>2, <2>3 DEF Searchable, Named, Reached
<1>2. PICK j \in 0 .. N - 1 :
            /\ n = W[k][j] /\ n \in (0 .. N - 1) \ U
            /\ \A i \in 0 .. j - 1 : W[k][i] \notin (0 .. N - 1) \ U
  BY Zenon DEF First
<1>3. /\ n \in (0 .. N - 1) \ U
      /\ key2[n] = k /\ val2[n] = v
      /\ \A m \in U : key2[m] = key[m] /\ val2[m] = val[m]
  BY <1>1, <1>2
<1> HIDE DEF key2, val2
<1>4. Named(N, U \cup {n}, key2, val2)
  BY <1>1, <1>3 DEF Searchable, Named
<1>5. ASSUME NEW m \in U \cup {n}, NEW l \in 0 .. N - 1, W[key2[m]][l] = m,
             NEW i \in 0 .. l - 1
      PROVE  W[key2[m]][i] \in O \cup {n}
  <2>1. CASE m = n
    <3>1. l = j /\ i \in 0 .. j - 1 /\ i \in 0 .. N - 1
      BY <1>1, <1>2, <1>3, <1>5, <2>1
    <3>2. W[k][i] \in U
      BY <1>1, <1>2, <3>1
    <3> QED
      BY <1>1, <1>3, <2>1, <3>2
  <2>2. CASE m # n
    <3>1. m \in U /\ key2[m] = key[m]
      BY <1>3, <2>2
    <3> QED
      BY <1>5, <3>1 DEF Searchable, Reached
  <2> QED
    BY <2>1, <2>2
<1>6. U \cup {n} \subseteq O \cup {n}
  BY <1>1
<1>7. Reached(N, U \cup {n}, key2, O \cup {n}, W)
  BY <1>5, <1>6 DEF Reached
<1> QED
  BY <1>3, <1>4, <1>7 DEF Searchable, key2, val2

(* Fewer keys, nodes that are not empty as they were.                      *)
LEMMA ReachLess ==
    ASSUME NEW N, NEW U, NEW key, NEW val, NEW O, NEW W, NEW U2 \in SUBSET U, NEW key2, NEW val2,
           Searchable(N, U, key, val, O, W),
           \A m \in U2 : key2[m] = key[m] /\ val2[m] \in Values
    PROVE  Searchable(N, U2, key2, val2, O, W)
<1>1. Named(N, U2, key2, val2)
  BY DEF Searchable, Named
<1>2. Reached(N, U2, key2, O, W)
  <2>1. ASSUME NEW m \in U2, NEW l \in 0 .. N - 1, W[key2[m]][l] = m,
               NEW i \in 0 .. l - 1
        PROVE  W[key2[m]][i] \in O
    BY <2>1 DEF Searchable, Reached
  <2>2. U2 \subseteq O
    BY DEF Searchable, Reached
  <2> QED
    BY <2>1, <2>2 DEF Reached
<1> QED
  BY <1>1, <1>2 DEF Searchable

-----------------------------------------------------------------------------
(* Probing meets every entry of a table once.                              *)
LEMMA Probing ==
    ASSUME NEW tab, tab.size \in Nat \ {0}, NEW h \in Nat
    PROVE  /\ \A j \in 0 .. tab.size - 1 : Table!Probed(tab, h, j) \in 0 .. tab.size - 1
           /\ \A i, j \in 0 .. tab.size - 1 :
                 Table!Probed(tab, h, i) = Table!Probed(tab, h, j) => i = j
           /\ \A n \in 0 .. tab.size - 1 :
                 \E j \in 0 .. tab.size - 1 : Table!Probed(tab, h, j) = n
<1> DEFINE N == tab.size
           r == h % N
<1>1. r \in 0 .. N - 1
  OBVIOUS
<1>2. \A j \in 0 .. N - 1 :
         Table!Probed(tab, h, j) = IF r + j < N THEN r + j ELSE r + j - N
  BY <1>1 DEF Table!Probed
<1> HIDE DEF r
<1>3. ASSUME NEW n \in 0 .. N - 1
      PROVE  \E j \in 0 .. N - 1 : n = IF r + j < N THEN r + j ELSE r + j - N
  <2>1. CASE n >= r
    <3>1. n - r \in 0 .. N - 1 /\ r + (n - r) = n
      BY <1>1, <2>1
    <3> QED
      BY <3>1
  <2>2. CASE n < r
    <3>1. /\ n - r + N \in 0 .. N - 1 /\ ~(r + (n - r + N) < N)
          /\ r + (n - r + N) - N = n
      BY <1>1, <2>2
    <3> QED
      BY <3>1
  <2> QED
    BY <1>1, <2>1, <2>2
<1>4. \A j \in 0 .. N - 1 : Table!Probed(tab, h, j) \in 0 .. N - 1
  BY <1>1, <1>2
<1>5. \A i, j \in 0 .. N - 1 :
         Table!Probed(tab, h, i) = Table!Probed(tab, h, j) => i = j
  BY <1>1, <1>2
<1>6. \A n \in 0 .. N - 1 : \E j \in 0 .. N - 1 : Table!Probed(tab, h, j) = n
  BY <1>2, <1>3
<1> QED
  BY <1>4, <1>5, <1>6

(* What Probe finds is the first of S that is met.                         *)
LEMMA ProbeFirst ==
    ASSUME NEW tab, tab.size \in Nat \ {0}, NEW h \in Nat, NEW S
    PROVE  \/ /\ Table!Probe(tab, h, S) = -1
              /\ \A n \in 0 .. tab.size - 1 : n \notin S
           \/ \E j \in 0 .. tab.size - 1 :
                 /\ Table!Probe(tab, h, S) = Table!Probed(tab, h, j)
                 /\ Table!Probed(tab, h, j) \in S
                 /\ \A i \in 0 .. j - 1 : Table!Probed(tab, h, i) \notin S
<1> DEFINE hits == {j \in 0 .. tab.size - 1 : Table!Probed(tab, h, j) \in S}
           first == CHOOSE j \in hits : \A m \in hits : j <= m
<1>1. Table!Probe(tab, h, S) = IF hits = {} THEN -1 ELSE Table!Probed(tab, h, first)
  BY SMTT(20) DEF Table!Probe, Table!NULL
<1>2. CASE hits = {}
  <2>1. \A j \in 0 .. tab.size - 1 : Table!Probed(tab, h, j) \notin S
    BY <1>2
  <2>2. \A n \in 0 .. tab.size - 1 : \E j \in 0 .. tab.size - 1 : Table!Probed(tab, h, j) = n
    BY Probing
  <2> QED
    BY <1>1, <1>2, <2>1, <2>2
<1>3. CASE hits # {}
  <2>1. hits \in SUBSET Nat
    OBVIOUS
  <2>2. first \in hits /\ \A m \in hits : first <= m
    BY <1>3, <2>1, LeastOf
  <2>3. first \in 0 .. tab.size - 1 /\ Table!Probed(tab, h, first) \in S
    BY <2>2
  <2> HIDE DEF first
  <2>4. \A i \in 0 .. first - 1 : i \in 0 .. tab.size - 1 /\ ~(first <= i)
    BY <2>3
  <2>5. \A i \in 0 .. first - 1 : Table!Probed(tab, h, i) \notin S
    BY <2>2, <2>4
  <2> QED
    BY <1>1, <1>3, <2>3, <2>5
<1> QED
  BY <1>2, <1>3

-----------------------------------------------------------------------------
(* A table, and the sequence s of its entries in the order of its list.    *)
Entries(N) ==
    [k : Keys \cup {"empty", "freed"}, v : Values \cup {"none"}, k_is_constant : {FALSE},
     next : -1 .. N - 1, prev : -1 .. N - 1]

(* A table, read off as functions of its entries: the links, what they     *)
(* hold, which of them are used or were once (the marks of deleted         *)
(* entries), and the way a search for each key takes.                      *)
Tables(T) == [size : Nat \ {0}, count : Nat, head : Int, tail : Int, table : T]
TShape(tab) == tab \in Tables([0 .. tab.size - 1 -> Entries(tab.size)])

NextOf(tab) == [m \in 0 .. tab.size - 1 |-> tab.table[m].next]
PrevOf(tab) == [m \in 0 .. tab.size - 1 |-> tab.table[m].prev]
KeyOf(tab) == [m \in 0 .. tab.size - 1 |-> tab.table[m].k]
ValueOf(tab) == [m \in 0 .. tab.size - 1 |-> tab.table[m].v]
UsedOf(tab) == {m \in 0 .. tab.size - 1 : tab.table[m].k \notin {"empty", "freed"}}
HeldOf(tab) == {m \in 0 .. tab.size - 1 : tab.table[m].k # "empty"}
WayOf(tab) == [k \in Keys |-> [j \in 0 .. tab.size - 1 |-> Table!Probed(tab, hash[k], j)]]

(* The table is sound, and its list goes through the entries as s does.    *)
Good(tab, s) ==
    /\ TShape(tab) /\ tab.count = Len(s)
    /\ Listed(tab.size, UsedOf(tab), tab.head, tab.tail, NextOf(tab), PrevOf(tab), s)
    /\ Searchable(tab.size, UsedOf(tab), KeyOf(tab), ValueOf(tab), HeldOf(tab), WayOf(tab))

(* The members, as pairs in the order of the list.                         *)
Zipped(key, val, s) == [i \in 1 .. Len(s) |-> <<key[s[i]], val[s[i]]>>]
MembersBy(tab, s) == Zipped(KeyOf(tab), ValueOf(tab), s)

Hashing == hash \in [Keys -> Nat]

(* The parts of a table have their types.                                  *)
LEMMA ShapeFits ==
    ASSUME NEW tab, TShape(tab)
    PROVE  /\ tab.size \in Nat \ {0} /\ tab.count \in Nat
           /\ tab.head \in Int /\ tab.tail \in Int
           /\ tab.table \in [0 .. tab.size - 1 -> Entries(tab.size)]
           /\ DOMAIN tab.table = 0 .. tab.size - 1
           /\ \A m \in 0 .. tab.size - 1 : tab.table[m] \in Entries(tab.size)
  BY DEF TShape, Tables

(* No key is taken for the mark of an empty or a freed entry.              *)
LEMMA KeysNoMarks == "empty" \notin Keys /\ "freed" \notin Keys
  BY TableAssumption DEF Table!LinkHashAssumption, Table!EMPTY, Table!FREED

(* An entry is in use unless it has one of the marks.                      *)
LEMMA UsedKeys ==
    ASSUME NEW e
    PROVE  Table!Unused(e) <=> e.k \in {"empty", "freed"}
  BY DEF Table!Unused, Table!EMPTY, Table!FREED

(* Probing for any key meets every entry once.                             *)
LEMMA WaysHold ==
    ASSUME Hashing, NEW tab, TShape(tab)
    PROVE  Ways(tab.size, WayOf(tab))
<1>1. tab.size \in Nat \ {0} /\ \A k \in Keys : hash[k] \in Nat
  BY ShapeFits DEF Hashing
<1>2. \A k \in Keys : \A j \in 0 .. tab.size - 1 :
         WayOf(tab)[k][j] = Table!Probed(tab, hash[k], j)
  BY DEF WayOf
<1>3. ASSUME NEW k \in Keys
      PROVE  /\ \A j \in 0 .. tab.size - 1 : WayOf(tab)[k][j] \in 0 .. tab.size - 1
             /\ \A i, j \in 0 .. tab.size - 1 : WayOf(tab)[k][i] = WayOf(tab)[k][j] => i = j
             /\ \A m \in 0 .. tab.size - 1 : \E j \in 0 .. tab.size - 1 : WayOf(tab)[k][j] = m
  <2>1. hash[k] \in Nat
    BY <1>1
  <2>2. /\ \A j \in 0 .. tab.size - 1 : Table!Probed(tab, hash[k], j) \in 0 .. tab.size - 1
        /\ \A i, j \in 0 .. tab.size - 1 :
              Table!Probed(tab, hash[k], i) = Table!Probed(tab, hash[k], j) => i = j
        /\ \A n \in 0 .. tab.size - 1 :
              \E j \in 0 .. tab.size - 1 : Table!Probed(tab, hash[k], j) = n
    BY <1>1, <2>1, Probing
  <2> QED
    BY <1>2, <2>2
<1>4. WayOf(tab) \in [Keys -> [0 .. tab.size - 1 -> 0 .. tab.size - 1]]
  <2>1. ASSUME NEW k \in Keys
        PROVE  [j \in 0 .. tab.size - 1 |-> Table!Probed(tab, hash[k], j)]
                  \in [0 .. tab.size - 1 -> 0 .. tab.size - 1]
    BY <1>2, <1>3
  <2> QED
    BY <2>1 DEF WayOf
<1> QED
  BY <1>1, <1>3, <1>4 DEF Ways

(* Probing finds the first entry of a set on the way of a key.             *)
LEMMA ProbeIsFirst ==
    ASSUME Hashing, NEW tab, TShape(tab), NEW k \in Keys, NEW S
    PROVE  First(tab.size, WayOf(tab)[k], S, Table!Probe(tab, hash[k], S))
<1> DEFINE p(j) == Table!Probed(tab, hash[k], j)
           n == Table!Probe(tab, hash[k], S)
           way == WayOf(tab)[k]
<1>1. tab.size \in Nat \ {0} /\ hash[k] \in Nat
  BY ShapeFits DEF Hashing
<1>2. \A j \in 0 .. tab.size - 1 : way[j] = p(j)
  BY DEF WayOf
<1>3. \/ n = -1 /\ \A m \in 0 .. tab.size - 1 : m \notin S
      \/ \E j \in 0 .. tab.size - 1 :
            n = p(j) /\ p(j) \in S /\ \A i \in 0 .. j - 1 : p(i) \notin S
  BY <1>1, ProbeFirst
<1>4. \A j \in 0 .. tab.size - 1 : p(j) \in 0 .. tab.size - 1
  BY <1>1, Probing
<1> HIDE DEF p, n, way
<1>5. CASE n = -1 /\ \A m \in 0 .. tab.size - 1 : m \notin S
  <2>1. \A j \in 0 .. tab.size - 1 : way[j] \notin S
    BY <1>2, <1>4, <1>5
  <2> QED
    BY <1>5, <2>1 DEF First, n, way
<1>6. CASE \E j \in 0 .. tab.size - 1 :
              n = p(j) /\ p(j) \in S /\ \A i \in 0 .. j - 1 : p(i) \notin S
  <2>1. PICK j \in 0 .. tab.size - 1 :
              n = p(j) /\ p(j) \in S /\ \A i \in 0 .. j - 1 : p(i) \notin S
    BY <1>6
  <2>2. \A i \in 0 .. j - 1 : i \in 0 .. tab.size - 1
    BY <1>1
  <2>3. n = way[j] /\ way[j] \in S /\ \A i \in 0 .. j - 1 : way[i] \notin S
    BY <1>2, <2>1, <2>2
  <2> QED
    BY <2>3 DEF First, n, way
<1> QED
  BY <1>3, <1>5, <1>6

(* An entry with a certain key is found by probing for it, if there is one.*)
LEMMA LookupFinds ==
    ASSUME Hashing, NEW tab, NEW s, Good(tab, s), NEW k \in Keys
    PROVE  \/ Table!Lookup(tab, k) \in UsedOf(tab) /\ KeyOf(tab)[Table!Lookup(tab, k)] = k
           \/ Table!Lookup(tab, k) = -1 /\ \A m \in UsedOf(tab) : KeyOf(tab)[m] # k
<1> DEFINE S == {m \in DOMAIN tab.table : tab.table[m].k = k \/ Table!StopsAt(tab.table[m])}
           n == Table!Probe(tab, hash[k], S)
<1>1. Table!Lookup(tab, k) = IF n # -1 /\ tab.table[n].k = k THEN n ELSE -1
  BY DEF Table!Lookup, Table!NULL
<1>2. TShape(tab) /\ DOMAIN tab.table = 0 .. tab.size - 1 /\ tab.size \in Nat \ {0}
  BY ShapeFits DEF Good
<1>3. \A m \in 0 .. tab.size - 1 : KeyOf(tab)[m] = tab.table[m].k
  BY DEF KeyOf
<1>4. Stops(tab.size, UsedOf(tab), KeyOf(tab), HeldOf(tab), k, S)
  BY <1>2, <1>3, KeysNoMarks DEF Stops, Table!StopsAt, Table!EMPTY, UsedOf, HeldOf
<1>5. First(tab.size, WayOf(tab)[k], S, n)
  BY <1>2, ProbeIsFirst
<1> HIDE DEF S, n
<1>6. /\ Searchable(tab.size, UsedOf(tab), KeyOf(tab), ValueOf(tab), HeldOf(tab), WayOf(tab))
      /\ Met(tab.size, UsedOf(tab), KeyOf(tab), HeldOf(tab), WayOf(tab), k, n)
  BY <1>4, <1>5, Zenon DEF Good, Met
<1>7. \/ n \in UsedOf(tab) /\ KeyOf(tab)[n] = k
      \/ /\ n = -1 \/ n \in (0 .. tab.size - 1) \ HeldOf(tab)
         /\ \A m \in UsedOf(tab) : KeyOf(tab)[m] # k
  BY <1>6, SearchEnds
<1>8. CASE n \in UsedOf(tab) /\ KeyOf(tab)[n] = k
  <2>1. n \in 0 .. tab.size - 1 /\ n # -1 /\ tab.table[n].k = k
    BY <1>3, <1>8 DEF UsedOf
  <2> QED
    BY <1>1, <1>8, <2>1
<1>9. CASE /\ n = -1 \/ n \in (0 .. tab.size - 1) \ HeldOf(tab)
           /\ \A m \in UsedOf(tab) : KeyOf(tab)[m] # k
  <2>1. n # -1 => tab.table[n].k = "empty"
    BY <1>9 DEF HeldOf
  <2> QED
    BY <1>1, <1>9, <2>1, KeysNoMarks
<1> QED
  BY <1>7, <1>8, <1>9

(* An entry with one link changed.                                         *)
LEMMA Relinked ==
    ASSUME NEW N \in Nat, NEW e \in Entries(N), NEW n \in -1 .. N - 1
    PROVE  /\ [e EXCEPT !.next = n] \in Entries(N) /\ [e EXCEPT !.prev = n] \in Entries(N)
           /\ [e EXCEPT !.next = n].k = e.k /\ [e EXCEPT !.prev = n].k = e.k
           /\ [e EXCEPT !.next = n].v = e.v /\ [e EXCEPT !.prev = n].v = e.v
           /\ [e EXCEPT !.next = n].next = n /\ [e EXCEPT !.prev = n].next = e.next
           /\ [e EXCEPT !.next = n].prev = e.prev /\ [e EXCEPT !.prev = n].prev = n
  BY DEF Entries

(* What lh_table_insert_w_hash changes, with n the place it finds.         *)
Placed(tab, new, k, v, n) ==
    /\ TShape(new)
    /\ new.size = tab.size /\ new.count = tab.count + 1
    /\ new.head = (IF tab.head = -1 THEN n ELSE tab.head) /\ new.tail = n
    /\ new.table[n].k = k /\ new.table[n].v = v
    /\ new.table[n].next = -1 /\ new.table[n].prev = tab.tail
    /\ \A m \in 0 .. tab.size - 1 : m # n =>
          /\ new.table[m].k = tab.table[m].k /\ new.table[m].v = tab.table[m].v
          /\ new.table[m].prev = tab.table[m].prev
          /\ new.table[m].next = IF m = tab.tail THEN n ELSE tab.table[m].next

(* lh_table_insert_w_hash changes the place it finds, the entry at the tail*)
(* and the ends of the list.                                               *)
LEMMA PlaceChanges ==
    ASSUME NEW tab, TShape(tab), NEW k \in Keys, NEW v \in Values,
           NEW n \in 0 .. tab.size - 1, tab.tail # n, tab.tail \in -1 .. tab.size - 1,
           tab.head = -1 <=> tab.tail = -1,
           n = Table!Probe(tab, hash[k], {m \in DOMAIN tab.table : Table!Unused(tab.table[m])}),
           NEW new, new = Table!Place(tab, k, v, FALSE)
    PROVE  Placed(tab, new, k, v, n)
<1> DEFINE slot == Table!Slot(k, v, FALSE)
           T == [0 .. tab.size - 1 -> Entries(tab.size)]
           put == [tab.table EXCEPT ![n] = slot]
           filled == [tab EXCEPT !.table[n] = slot, !.count = @ + 1]
           linked == [put EXCEPT ![tab.tail] = [put[tab.tail] EXCEPT !.next = n]]
           both == [linked EXCEPT ![n] = [linked[n] EXCEPT !.prev = tab.tail]]
<1>1. /\ tab \in Tables(T) /\ tab.size \in Nat \ {0} /\ tab.table \in T /\ tab.tail \in Int
      /\ \A m \in 0 .. tab.size - 1 : tab.table[m] \in Entries(tab.size)
      /\ n \in Int
  BY ShapeFits DEF TShape
<1>2. /\ slot = [k |-> k, v |-> v, k_is_constant |-> FALSE, next |-> -1, prev |-> -1]
      /\ slot \in Entries(tab.size)
  BY <1>1 DEF Entries, Table!Slot, Table!NULL
<1> HIDE DEF slot
<1>3. /\ put \in T /\ put[n] = slot
      /\ \A m \in 0 .. tab.size - 1 : m # n => put[m] = tab.table[m]
  BY <1>1, <1>2
<1>f. /\ put = [tab.table EXCEPT ![n] = slot]
      /\ filled = [tab EXCEPT !.table[n] = slot, !.count = @ + 1]
      /\ tab \in Tables(T) /\ put \in T
  BY <1>1, <1>3, Zenon
<1> HIDE DEF put, filled, T
<1>4. /\ filled \in Tables(T)
      /\ filled.size = tab.size /\ filled.count = tab.count + 1
      /\ filled.head = tab.head /\ filled.tail = tab.tail /\ filled.table = put
  <2>1. /\ filled.size = tab.size /\ filled.count = tab.count + 1
        /\ filled.head = tab.head /\ filled.tail = tab.tail /\ filled.table = put
    BY <1>f DEF Tables
  <2>2. tab.count + 1 \in Nat
    BY <1>f DEF Tables
  <2>3. ASSUME NEW count \in Nat,
               filled = [tab EXCEPT !.table[n] = slot, !.count = count]
        PROVE  filled \in Tables(T)
    BY <1>f, <2>3 DEF Tables
  <2> QED
    BY <1>f, <2>1, <2>2, <2>3
<1>n. new = IF tab.head = -1 THEN [filled EXCEPT !.head = n, !.tail = n]
            ELSE Table!LinkLast(filled, n)
  BY Zenon DEF Table!Place, Table!NULL, slot, filled
<1>5. CASE tab.head = -1
  <2>1. tab.tail = -1 /\ \A m \in 0 .. tab.size - 1 : m # tab.tail
    BY <1>1, <1>5
  <2>2. /\ new \in Tables(T) /\ new.size = tab.size /\ new.count = tab.count + 1
        /\ new.head = n /\ new.tail = n /\ new.table = put
    <3>1. new = [filled EXCEPT !.head = n, !.tail = n] /\ n \in Int
      BY <1>1, <1>n, <1>5, Zenon
    <3>2. /\ new \in Tables(T)
          /\ new.size = filled.size /\ new.count = filled.count
          /\ new.head = n /\ new.tail = n /\ new.table = filled.table
      BY <1>4, <3>1 DEF Tables
    <3> QED
      BY <1>4, <3>2, Zenon
  <2>3. /\ new.table[n].k = k /\ new.table[n].v = v
        /\ new.table[n].next = -1 /\ new.table[n].prev = tab.tail
    <3>1. new.table[n] = slot
      BY <1>3, <2>2
    <3>2. slot.k = k /\ slot.v = v /\ slot.next = -1 /\ slot.prev = -1
      BY <1>2
    <3> QED
      BY <2>1, <3>1, <3>2
  <2> QED
    BY <1>3, <1>5, <2>1, <2>2, <2>3 DEF TShape, T, Placed
<1>6. CASE tab.head # -1
  <2>1. tab.tail \in 0 .. tab.size - 1 /\ tab.tail # n
    BY <1>1, <1>6
  <2>r. tab.size \in Nat /\ tab.tail \in -1 .. tab.size - 1 /\ n \in -1 .. tab.size - 1
    BY <1>1, <2>1
  <2>2. /\ linked \in T
        /\ linked[tab.tail] = [put[tab.tail] EXCEPT !.next = n]
        /\ \A m \in 0 .. tab.size - 1 : m # tab.tail => linked[m] = put[m]
    <3>1. [put[tab.tail] EXCEPT !.next = n] \in Entries(tab.size)
      <4>1. put[tab.tail] \in Entries(tab.size)
        BY <1>3, <2>1 DEF T
      <4> QED
        BY <2>r, <4>1, Relinked, Zenon
    <3> QED
      BY <1>3, <2>1, <3>1 DEF T
  <2>3. linked[n] = slot
    BY <1>3, <2>1, <2>2
  <2>4. /\ both \in T
        /\ both[n] = [slot EXCEPT !.prev = tab.tail]
        /\ \A m \in 0 .. tab.size - 1 : m # n => both[m] = linked[m]
    <3>1. [slot EXCEPT !.prev = tab.tail] \in Entries(tab.size)
      BY <1>2, <2>r, Relinked, Zenon
    <3> HIDE DEF linked
    <3> QED
      BY <2>2, <2>3, <3>1 DEF T
  <2>5. both = [[filled.table EXCEPT ![filled.tail] = [filled.table[filled.tail] EXCEPT !.next = n]]
                  EXCEPT ![n].prev = filled.tail]
    BY <1>4, Zenon
  <2> HIDE DEF linked, both
  <2>6. /\ new \in Tables(T) /\ new.size = tab.size /\ new.count = tab.count + 1
        /\ new.head = tab.head /\ new.tail = n /\ new.table = both
    <3>1. new = Table!LinkLast(filled, n) /\ n \in Int
      BY <1>1, <1>n, <1>6, Zenon
    <3>2. /\ new \in Tables(T)
          /\ new.size = filled.size /\ new.count = filled.count
          /\ new.head = filled.head /\ new.tail = n /\ new.table = both
      <4> HIDE <1>1, <1>2, <1>3
      <4>1. new = [filled EXCEPT !.tail = n, !.table[filled.tail].next = n,
                                 !.table[n].prev = filled.tail]
        BY <3>1 DEF Table!LinkLast
      <4>2. /\ new.size = filled.size /\ new.count = filled.count
            /\ new.head = filled.head /\ new.tail = n
        BY <1>4, <4>1 DEF Tables
      <4>3. new.table = both
        BY <1>4, <2>5, <4>1 DEF Tables
      <4>4. new \in Tables(T)
        <5>1. new = [filled EXCEPT !.tail = n, !.table = both]
          BY <1>4, <2>5, <4>1 DEF Tables
        <5>2. [filled EXCEPT !.tail = n, !.table = both] \in Tables(T)
          BY <1>4, <2>4, <3>1 DEF Tables
        <5> QED
          BY <5>1, <5>2
      <4> QED
        BY <4>2, <4>3, <4>4
    <3> QED
      BY <1>4, <3>2, Zenon
  <2>7. both[n].k = k /\ both[n].v = v /\ both[n].next = -1 /\ both[n].prev = tab.tail
    <3> DEFINE e == [slot EXCEPT !.prev = tab.tail]
    <3>1. e.k = slot.k /\ e.v = slot.v /\ e.next = slot.next /\ e.prev = tab.tail
      BY <1>2, <2>r, Relinked, Zenon
    <3>2. slot.k = k /\ slot.v = v /\ slot.next = -1
      BY <1>2
    <3>3. both[n] = e
      BY <2>4
    <3> HIDE DEF e
    <3> QED
      BY <3>1, <3>2, <3>3, Zenon
  <2>8. ASSUME NEW m \in 0 .. tab.size - 1, m # n
        PROVE  /\ both[m].k = tab.table[m].k /\ both[m].v = tab.table[m].v
               /\ both[m].prev = tab.table[m].prev
               /\ both[m].next = IF m = tab.tail THEN n ELSE tab.table[m].next
    <3>1. both[m] = IF m = tab.tail THEN [tab.table[m] EXCEPT !.next = n] ELSE tab.table[m]
      <4>1. put[m] = tab.table[m] /\ both[m] = linked[m]
        BY <1>3, <2>4, <2>8
      <4>2. CASE m = tab.tail
        BY <2>2, <4>1, <4>2
      <4>3. CASE m # tab.tail
        BY <2>2, <4>1, <4>3
      <4> QED
        BY <4>2, <4>3
    <3>2. tab.table[m] \in Entries(tab.size) /\ tab.size \in Nat /\ n \in -1 .. tab.size - 1
      BY <1>1
    <3> QED
      BY <3>1, <3>2, Relinked
  <2> QED
    BY <1>6, <2>6, <2>7, <2>8 DEF TShape, T, Placed
<1> QED
  BY <1>5, <1>6

-----------------------------------------------------------------------------

(* A function on 1 .. L is a sequence of length L.                         *)
LEMMA ASeq ==
    ASSUME NEW L \in Nat, NEW T, NEW f \in [1 .. L -> T]
    PROVE  f \in Seq(T) /\ Len(f) = L
<1>1. [1 .. L -> T] \in {[1 .. n -> T] : n \in Nat}
  BY Zenon
<1>2. f \in Seq(T)
  BY <1>1, SeqDef, Zenon
<1>3. DOMAIN f = 1 .. L /\ DOMAIN f = 1 .. Len(f) /\ Len(f) \in Nat
  BY <1>2, LenProperties
<1>4. ASSUME NEW p \in Nat, NEW q \in Nat, 1 .. p = 1 .. q PROVE p <= q
  <2>1. p \in 1 .. p \/ p = 0
    OBVIOUS
  <2> QED
    BY <1>4, <2>1
<1>5. L <= Len(f) /\ Len(f) <= L
  BY <1>3, <1>4
<1> QED
  BY <1>2, <1>3, <1>5

(* Sequences of one length with the same elements are the same.            *)
LEMMA SameSeqs ==
    ASSUME NEW S, NEW T, NEW s \in Seq(S), NEW z \in Seq(T), Len(s) = Len(z),
           \A i \in 1 .. Len(s) : s[i] = z[i]
    PROVE  s = z
<1>1. s \in [1 .. Len(s) -> S] /\ z \in [1 .. Len(z) -> T]
  BY LenProperties
<1> QED
  BY <1>1

Paired(key, val, s, T) ==
    Len(s) \in Nat /\ \A i \in 1 .. Len(s) : <<key[s[i]], val[s[i]]>> \in T

(* Pairing the keys and values of nodes gives a sequence of pairs.         *)
LEMMA ZippedSeq ==
    ASSUME NEW key, NEW val, NEW s, NEW T, Paired(key, val, s, T)
    PROVE  /\ Zipped(key, val, s) \in Seq(T) /\ Len(Zipped(key, val, s)) = Len(s)
           /\ \A i \in 1 .. Len(s) : Zipped(key, val, s)[i] = <<key[s[i]], val[s[i]]>>
<1>1. PICK L \in Nat : L = Len(s)
  BY DEF Paired
<1> DEFINE f == [i \in 1 .. L |-> <<key[s[i]], val[s[i]]>>]
<1>2. Zipped(key, val, s) = f
  BY <1>1, Zenon DEF Zipped
<1>3. f \in [1 .. L -> T] /\ \A i \in 1 .. L : f[i] = <<key[s[i]], val[s[i]]>>
  BY <1>1 DEF Paired
<1> HIDE DEF f
<1>4. f \in Seq(T) /\ Len(f) = L
  BY <1>3, ASeq
<1> QED
  BY <1>1, <1>2, <1>3, <1>4, Zenon

(* Keys and values are the same but for the one at x.                      *)
Alike(key, val, key2, val2, s, x) ==
    \A i \in 1 .. Len(s) : i # x => key2[s[i]] = key[s[i]] /\ val2[s[i]] = val[s[i]]

(* A further node gives a further pair.                                    *)
LEMMA ZippedAppend ==
    ASSUME NEW S, NEW s \in Seq(S), NEW n \in S, NEW key, NEW val, NEW key2, NEW val2,
           Alike(key, val, key2, val2, s, 0)
    PROVE  Zipped(key2, val2, Append(s, n)) = Append(Zipped(key, val, s), <<key2[n], val2[n]>>)
<1> DEFINE L == Len(s)
           z == Append(s, n)
           e == <<key2[n], val2[n]>>
           T == {<<key[s[i]], val[s[i]]>> : i \in 1 .. L} \cup {e}
           M == Zipped(key, val, s)
           M2 == Zipped(key2, val2, z)
           A == Append(M, e)
<1>1. L \in Nat /\ L + 1 \in Nat
  BY LenProperties
<1>2. /\ z \in Seq(S) /\ Len(z) = L + 1 /\ z[L + 1] = n
      /\ \A i \in 1 .. L : z[i] = s[i]
  BY AppendProperties
<1>3. /\ M \in Seq(T) /\ Len(M) = L
      /\ \A i \in 1 .. L : M[i] = <<key[s[i]], val[s[i]]>>
  <2>1. \A i \in 1 .. L : <<key[s[i]], val[s[i]]>> \in T
    OBVIOUS
  <2> HIDE DEF T
  <2>2. Paired(key, val, s, T)
    BY <1>1, <2>1 DEF Paired
  <2> QED
    BY <2>2, ZippedSeq
<1>4. \A i \in 1 .. L + 1 : i \in 1 .. L \/ i = L + 1
  BY <1>1
<1>5. \A i \in 1 .. L + 1 : <<key2[z[i]], val2[z[i]]>> =
                            IF i = L + 1 THEN e ELSE <<key[s[i]], val[s[i]]>>
  <2>1. \A i \in 1 .. L : i # 0 /\ i # L + 1
    BY <1>1
  <2> QED
    BY <1>1, <1>2, <1>4, <2>1 DEF Alike
<1>6. e \in T /\ \A i \in 1 .. L : <<key[s[i]], val[s[i]]>> \in T
  OBVIOUS
<1> HIDE DEF L, z, e, T, M, M2, A
<1>7. \A i \in 1 .. L + 1 : <<key2[z[i]], val2[z[i]]>> \in T
  BY <1>4, <1>5, <1>6
<1>8. /\ M2 \in Seq(T) /\ Len(M2) = L + 1
      /\ \A i \in 1 .. L + 1 : M2[i] = <<key2[z[i]], val2[z[i]]>>
  <2>1. Paired(key2, val2, z, T)
    BY <1>1, <1>2, <1>7, Zenon DEF Paired
  <2>2. /\ M2 \in Seq(T) /\ Len(M2) = Len(z)
        /\ \A i \in 1 .. Len(z) : M2[i] = <<key2[z[i]], val2[z[i]]>>
    BY <2>1, ZippedSeq DEF M2
  <2> QED
    BY <1>2, <2>2, Zenon
<1>9. /\ A \in Seq(T) /\ Len(A) = L + 1 /\ A[L + 1] = e
      /\ \A i \in 1 .. L : A[i] = M[i]
  BY <1>3, <1>6, AppendProperties DEF A
<1>10. \A i \in 1 .. L + 1 : M2[i] = A[i]
  <2>1. M2[L + 1] = e
    <3>1. L + 1 \in 1 .. L + 1
      BY <1>1
    <3> QED
      BY <1>5, <1>8, <3>1
  <2>2. ASSUME NEW i \in 1 .. L PROVE M2[i] = A[i]
    <3>1. i \in 1 .. L + 1 /\ i # L + 1
      BY <1>1
    <3> QED
      <4>1. M2[i] = <<key[s[i]], val[s[i]]>>
        BY <1>5, <1>8, <3>1
      <4> QED
        BY <1>3, <1>9, <4>1, Zenon
  <2> QED
    BY <1>4, <1>9, <2>1, <2>2
<1>11. M2 = A
  BY <1>8, <1>9, <1>10, SameSeqs
<1> QED
  BY <1>11 DEF M2, A, M, z, e

Extending(key, val, key2, val2, s, n) ==
    (\E S : s \in Seq(S) /\ n \in S) /\ Alike(key, val, key2, val2, s, 0)
Extended(key, val, key2, val2, s, n) ==
    Zipped(key2, val2, Append(s, n)) = Append(Zipped(key, val, s), <<key2[n], val2[n]>>)

(* The same, for keys and values that are functions of tables.             *)
LEMMA ZippedExtended ==
    ASSUME NEW key, NEW val, NEW key2, NEW val2, NEW s, NEW n,
           Extending(key, val, key2, val2, s, n)
    PROVE  Extended(key, val, key2, val2, s, n)
<1>1. PICK S : s \in Seq(S) /\ n \in S
  BY DEF Extending
<1>2. Alike(key, val, key2, val2, s, 0)
  BY DEF Extending
<1> QED
  BY <1>1, <1>2, ZippedAppend DEF Extended

(* A node less gives a pair less.                                          *)
LEMMA ZippedWithout ==
    ASSUME NEW S, NEW s \in Seq(S), NEW x \in 1 .. Len(s), NEW key, NEW val, NEW key2, NEW val2,
           Alike(key, val, key2, val2, s, x)
    PROVE  Zipped(key2, val2, Without(s, x)) = Without(Zipped(key, val, s), x)
<1> DEFINE L == Len(s)
           z == Without(s, x)
           T == {<<key[s[i]], val[s[i]]>> : i \in 1 .. L}
           M == Zipped(key, val, s)
           M2 == Zipped(key2, val2, z)
           A == Without(M, x)
<1>1. L \in Nat /\ L - 1 \in Nat /\ x \in 1 .. L
  BY LenProperties
<1>2. /\ z \in Seq(S) /\ Len(z) = L - 1
      /\ \A i \in 1 .. L - 1 : z[i] = IF i < x THEN s[i] ELSE s[i + 1]
  BY WithoutProperties
<1>3. \A i \in 1 .. L : <<key[s[i]], val[s[i]]>> \in T
  OBVIOUS
<1> HIDE DEF T
<1>4. /\ M \in Seq(T) /\ Len(M) = L
      /\ \A i \in 1 .. L : M[i] = <<key[s[i]], val[s[i]]>>
  <2>1. Paired(key, val, s, T)
    BY <1>1, <1>3 DEF Paired
  <2> QED
    BY <2>1, ZippedSeq
<1> HIDE DEF M
<1>5. /\ A \in Seq(T) /\ Len(A) = L - 1
      /\ \A i \in 1 .. L - 1 : A[i] = IF i < x THEN M[i] ELSE M[i + 1]
  BY <1>1, <1>4, WithoutProperties
<1>6. ASSUME NEW i \in 1 .. L - 1
      PROVE  <<key2[z[i]], val2[z[i]]>> = A[i] /\ A[i] \in T
  <2>1. CASE i < x
    <3>1. i \in 1 .. L /\ i # x
      BY <1>1, <2>1
    <3>2. z[i] = s[i] /\ A[i] = M[i] /\ M[i] = <<key[s[i]], val[s[i]]>>
      BY <1>2, <1>4, <1>5, <2>1, <3>1
    <3> QED
      BY <1>3, <3>1, <3>2 DEF Alike
  <2>2. CASE ~(i < x)
    <3>1. i + 1 \in 1 .. L /\ i + 1 # x
      BY <1>1, <2>2
    <3>2. z[i] = s[i + 1] /\ A[i] = M[i + 1] /\ M[i + 1] = <<key[s[i + 1]], val[s[i + 1]]>>
      BY <1>2, <1>4, <1>5, <2>2, <3>1
    <3> QED
      BY <1>3, <3>1, <3>2 DEF Alike
  <2> QED
    BY <2>1, <2>2
<1> HIDE DEF L, z, A
<1>7. /\ M2 \in Seq(T) /\ Len(M2) = L - 1
      /\ \A i \in 1 .. L - 1 : M2[i] = <<key2[z[i]], val2[z[i]]>>
  <2>1. \A i \in 1 .. L - 1 : <<key2[z[i]], val2[z[i]]>> \in T
    BY <1>6
  <2> QED
    <3>1. Paired(key2, val2, z, T)
      BY <1>1, <1>2, <2>1, Zenon DEF Paired
    <3>2. /\ M2 \in Seq(T) /\ Len(M2) = Len(z)
          /\ \A i \in 1 .. Len(z) : M2[i] = <<key2[z[i]], val2[z[i]]>>
      BY <3>1, ZippedSeq
    <3> QED
      BY <1>2, <3>2, Zenon
<1>8. M2 = A
  <2>1. \A i \in 1 .. Len(M2) : M2[i] = A[i]
    BY <1>6, <1>7
  <2> QED
    BY <1>5, <1>7, <2>1, SameSeqs
<1> QED
  BY <1>8 DEF A, M, z

Dropping(key, val, key2, val2, s, x) ==
    (\E S : s \in Seq(S)) /\ x \in 1 .. Len(s) /\ Alike(key, val, key2, val2, s, x)
Dropped(key, val, key2, val2, s, x) ==
    Zipped(key2, val2, Without(s, x)) = Without(Zipped(key, val, s), x)

(* The same, for keys and values that are functions of tables.             *)
LEMMA ZippedDropped ==
    ASSUME NEW key, NEW val, NEW key2, NEW val2, NEW s, NEW x,
           Dropping(key, val, key2, val2, s, x)
    PROVE  Dropped(key, val, key2, val2, s, x)
<1>1. PICK S : s \in Seq(S)
  BY DEF Dropping
<1>2. x \in 1 .. Len(s) /\ Alike(key, val, key2, val2, s, x)
  BY DEF Dropping
<1> QED
  BY <1>1, <1>2, ZippedWithout DEF Dropped

-----------------------------------------------------------------------------
(* A table that is not full has room for a key.                            *)
LEMMA FreeFound ==
    ASSUME Hashing, NEW tab, NEW s, Good(tab, s), Len(s) < tab.size, NEW k \in Keys, NEW n,
           First(tab.size, WayOf(tab)[k], (0 .. tab.size - 1) \ UsedOf(tab), n)
    PROVE  n # -1
<1> SUFFICES ASSUME n = -1 PROVE FALSE
  OBVIOUS
<1>1. /\ TShape(tab) /\ tab.size \in Nat \ {0} /\ UsedOf(tab) \subseteq 0 .. tab.size - 1
      /\ Listed(tab.size, UsedOf(tab), tab.head, tab.tail, NextOf(tab), PrevOf(tab), s)
  BY ShapeFits DEF Good, UsedOf
<1>2. /\ Cardinality(UsedOf(tab)) = Len(s) /\ IsFiniteSet(UsedOf(tab))
  BY <1>1, ListCount
<1>w. /\ \A j \in 0 .. tab.size - 1 : WayOf(tab)[k][j] \in 0 .. tab.size - 1
      /\ \A m \in 0 .. tab.size - 1 : \E j \in 0 .. tab.size - 1 : WayOf(tab)[k][j] = m
  <2>1. Ways(tab.size, WayOf(tab))
    BY <1>1, WaysHold
  <2>2. WayOf(tab)[k] \in [0 .. tab.size - 1 -> 0 .. tab.size - 1]
    BY <2>1 DEF Ways
  <2> QED
    BY <2>1, <2>2 DEF Ways
<1>3. \A m \in 0 .. tab.size - 1 : m \in UsedOf(tab)
  <2>1. \A j \in 0 .. tab.size - 1 : WayOf(tab)[k][j] \in UsedOf(tab)
    <3>1. \A j \in 0 .. tab.size - 1 :
             WayOf(tab)[k][j] \notin (0 .. tab.size - 1) \ UsedOf(tab)
      <4>1. ASSUME NEW j \in 0 .. tab.size - 1, -1 = WayOf(tab)[k][j] PROVE FALSE
        BY <1>1, <1>w, <4>1
      <4> QED
        BY <4>1 DEF First
    <3> QED
      BY <1>w, <3>1
  <2> QED
    BY <1>w, <2>1
<1>4. UsedOf(tab) = 0 .. tab.size - 1
  BY <1>1, <1>3
<1>5. Cardinality(0 .. tab.size - 1) = tab.size
  <2>1. 0 \in Int /\ tab.size - 1 \in Int
    BY <1>1
  <2>2. Cardinality(0 .. tab.size - 1) =
           IF 0 > tab.size - 1 THEN 0 ELSE tab.size - 1 - 0 + 1
    BY <2>1, FS_Interval
  <2> QED
    BY <1>1, <2>2
<1>6. Len(s) = tab.size
  BY <1>2, <1>4, <1>5, Zenon
<1> QED
  BY <1>1, <1>6

(* A new key comes last, and is found.                                     *)
RoomFor(tab, s, k) ==
    Good(tab, s) /\ Len(s) < tab.size /\ \A m \in UsedOf(tab) : KeyOf(tab)[m] # k
Last(tab, s, new, k, v, n) ==
    /\ n \in (0 .. tab.size - 1) \ UsedOf(tab)
    /\ new.size = tab.size /\ Good(new, Append(s, n))
    /\ MembersBy(new, Append(s, n)) = Append(MembersBy(tab, s), <<k, v>>)
    /\ ValueOf(new) = [ValueOf(tab) EXCEPT ![n] = v]
    /\ KeyOf(new) = [KeyOf(tab) EXCEPT ![n] = k]

(* With room for a new key, lh_table_insert puts it at the end of the list,*)
(* where it is found again.                                                *)
LEMMA PlaceGood ==
    ASSUME Hashing, NEW tab, NEW s, NEW k \in Keys, NEW v \in Values, RoomFor(tab, s, k)
    PROVE  \E n : Last(tab, s, Table!Place(tab, k, v, FALSE), k, v, n)
<1>0. Good(tab, s) /\ Len(s) < tab.size /\ \A m \in UsedOf(tab) : KeyOf(tab)[m] # k
  BY DEF RoomFor
<1> DEFINE new == Table!Place(tab, k, v, FALSE)
<1> DEFINE N == tab.size
           n == Table!Probe(tab, hash[k], {m \in DOMAIN tab.table : Table!Unused(tab.table[m])})
<1>1. /\ TShape(tab) /\ N \in Nat \ {0} /\ DOMAIN tab.table = 0 .. N - 1
      /\ tab.count = Len(s) /\ UsedOf(tab) \subseteq 0 .. N - 1
      /\ Listed(N, UsedOf(tab), tab.head, tab.tail, NextOf(tab), PrevOf(tab), s)
      /\ Searchable(N, UsedOf(tab), KeyOf(tab), ValueOf(tab), HeldOf(tab), WayOf(tab))
  BY <1>0, ShapeFits DEF Good, UsedOf
<1>2. {m \in DOMAIN tab.table : Table!Unused(tab.table[m])} = (0 .. N - 1) \ UsedOf(tab)
  BY <1>1, UsedKeys DEF UsedOf
<1>3. First(N, WayOf(tab)[k], (0 .. N - 1) \ UsedOf(tab), n)
  BY <1>1, <1>2, ProbeIsFirst
<1> HIDE DEF n, new
<1>4. n # -1
  BY <1>0, <1>3, FreeFound
<1>5. /\ n \in (0 .. N - 1) \ UsedOf(tab)
      /\ Searchable(N, UsedOf(tab) \cup {n}, [KeyOf(tab) EXCEPT ![n] = k],
                    [ValueOf(tab) EXCEPT ![n] = v], HeldOf(tab) \cup {n}, WayOf(tab))
  <2>1. DOMAIN KeyOf(tab) = 0 .. N - 1 /\ DOMAIN ValueOf(tab) = 0 .. N - 1
    BY DEF KeyOf, ValueOf
  <2> QED
    BY <1>0, <1>1, <1>3, <1>4, <2>1, ReachMore
<1>6. /\ tab.tail \in -1 .. N - 1 /\ tab.tail # n /\ (tab.head = -1 <=> tab.tail = -1)
  <2>1. tab.tail \in -1 .. N - 1
    BY <1>1, ListSteps
  <2>2. CASE Len(s) = 0
    <3>1. tab.head = -1 /\ tab.tail = -1
      BY <1>1, <2>2, ListEnds
    <3> QED
      BY <1>4, <2>1, <3>1
  <2>3. CASE Len(s) # 0
    <3>1. tab.tail \in UsedOf(tab) /\ tab.head # -1
      BY <1>1, <2>3, ListEnds
    <3> QED
      BY <1>1, <1>5, <2>1, <3>1
  <2> QED
    BY <2>2, <2>3
<1>p. Placed(tab, new, k, v, n)
  <2>1. n \in 0 .. N - 1
    BY <1>5
  <2>2. n = Table!Probe(tab, hash[k], {m \in DOMAIN tab.table : Table!Unused(tab.table[m])})
    BY DEF n
  <2> QED
    BY <1>1, <1>6, <2>1, <2>2, PlaceChanges DEF new
<1>7. /\ TShape(new)
      /\ new.size = N /\ new.count = tab.count + 1
      /\ new.head = (IF tab.head = -1 THEN n ELSE tab.head) /\ new.tail = n
      /\ new.table[n].k = k /\ new.table[n].v = v
      /\ new.table[n].next = -1 /\ new.table[n].prev = tab.tail
      /\ \A m \in 0 .. N - 1 : m # n =>
            /\ new.table[m].k = tab.table[m].k /\ new.table[m].v = tab.table[m].v
            /\ new.table[m].prev = tab.table[m].prev
            /\ new.table[m].next = IF m = tab.tail THEN n ELSE tab.table[m].next
  BY <1>p DEF Placed
<1>8. UsedOf(new) = UsedOf(tab) \cup {n} /\ HeldOf(new) = HeldOf(tab) \cup {n}
  <2>1. n \in 0 .. N - 1 /\ k \notin {"empty", "freed"}
    BY <1>5, KeysNoMarks
  <2>2. \A m \in 0 .. N - 1 : m # n => new.table[m].k = tab.table[m].k
    BY <1>7
  <2>3. new.table[n].k = k /\ new.size = N
    BY <1>7
  <2> QED
    BY <2>1, <2>2, <2>3 DEF UsedOf, HeldOf
<1>9. KeyOf(new) = [KeyOf(tab) EXCEPT ![n] = k] /\ ValueOf(new) = [ValueOf(tab) EXCEPT ![n] = v]
  <2>1. \A m \in 0 .. N - 1 : /\ new.table[m].k = IF m = n THEN k ELSE tab.table[m].k
                              /\ new.table[m].v = IF m = n THEN v ELSE tab.table[m].v
    BY <1>7
  <2>2. new.size = N
    BY <1>7
  <2> QED
    BY <2>1, <2>2 DEF KeyOf, ValueOf
<1>10. NextOf(new) = NextMore(N, NextOf(tab), tab.tail, n)
  <2>1. \A m \in 0 .. N - 1 : new.table[m].next = IF m = n THEN -1
                                   ELSE IF m = tab.tail THEN n ELSE tab.table[m].next
    BY <1>7
  <2>2. new.size = N
    BY <1>7
  <2> QED
    BY <2>1, <2>2 DEF NextOf, NextMore
<1>11. PrevOf(new) = PrevMore(N, PrevOf(tab), tab.tail, n)
  <2>1. \A m \in 0 .. N - 1 : new.table[m].prev = IF m = n THEN tab.tail ELSE tab.table[m].prev
    BY <1>7
  <2>2. new.size = N
    BY <1>7
  <2> QED
    BY <2>1, <2>2 DEF PrevOf, PrevMore
<1>12. WayOf(new) = WayOf(tab)
  BY <1>7 DEF WayOf, Table!Probed
<1>13. Listed(N, UsedOf(new), new.head, new.tail, NextOf(new), PrevOf(new), Append(s, n))
  <2>1. Listed(N, UsedOf(tab) \cup {n}, IF tab.head = -1 THEN n ELSE tab.head, n,
               NextMore(N, NextOf(tab), tab.tail, n), PrevMore(N, PrevOf(tab), tab.tail, n),
               Append(s, n))
    BY <1>1, <1>5, ListAppend
  <2> QED
    BY <1>7, <1>8, <1>10, <1>11, <2>1
<1>14. s \in Seq(0 .. N - 1) /\ n \in 0 .. N - 1 /\ Len(Append(s, n)) = Len(s) + 1
  <2>1. s \in Seq(0 .. N - 1) /\ n \in 0 .. N - 1
    BY <1>1, <1>5 DEF Listed
  <2> QED
    BY <2>1, AppendProperties
<1>15. Good(new, Append(s, n))
  BY <1>1, <1>5, <1>7, <1>8, <1>9, <1>12, <1>13, <1>14 DEF Good
<1>16. MembersBy(new, Append(s, n)) = Append(MembersBy(tab, s), <<k, v>>)
  <2>1. \A i \in 1 .. Len(s) : s[i] # n /\ s[i] \in 0 .. N - 1
    BY <1>1, <1>5, <1>14, ElementOfSeq DEF Listed
  <2>2. \A m \in 0 .. N - 1 : m # n => KeyOf(new)[m] = KeyOf(tab)[m] /\ ValueOf(new)[m] = ValueOf(tab)[m]
    BY <1>9 DEF KeyOf, ValueOf
  <2>3. KeyOf(new)[n] = k /\ ValueOf(new)[n] = v
    BY <1>9, <1>14 DEF KeyOf, ValueOf
  <2>4. \A i \in 1 .. Len(s) : /\ KeyOf(new)[s[i]] = KeyOf(tab)[s[i]]
                               /\ ValueOf(new)[s[i]] = ValueOf(tab)[s[i]]
    BY <2>1, <2>2
  <2>5. Zipped(KeyOf(new), ValueOf(new), Append(s, n)) =
           Append(Zipped(KeyOf(tab), ValueOf(tab), s), <<KeyOf(new)[n], ValueOf(new)[n]>>)
    <3>1. Alike(KeyOf(tab), ValueOf(tab), KeyOf(new), ValueOf(new), s, 0)
      BY <2>4 DEF Alike
    <3>2. Extending(KeyOf(tab), ValueOf(tab), KeyOf(new), ValueOf(new), s, n)
      BY <1>14, <3>1, Zenon DEF Extending
    <3>3. Extended(KeyOf(tab), ValueOf(tab), KeyOf(new), ValueOf(new), s, n)
      BY <3>2, ZippedExtended, Zenon
    <3> QED
      BY <3>3, Zenon DEF Extended
  <2> QED
    BY <2>3, <2>5 DEF MembersBy
<1>17. Last(tab, s, new, k, v, n)
  BY <1>5, <1>7, <1>8, <1>9, <1>15, <1>16 DEF Last
<1> QED
  BY <1>17 DEF new

-----------------------------------------------------------------------------
(* An empty table.                                                         *)
LEMMA NewGood ==
    ASSUME Hashing, NEW size \in Nat \ {0}, NEW new, new = Table!NewTable(size)
    PROVE  /\ Good(new, <<>>) /\ new.size = size
           /\ MembersBy(new, <<>>) = <<>> /\ UsedOf(new) = {}
<1> DEFINE slot == Table!Slot("empty", "none", FALSE)
           T == [0 .. size - 1 -> Entries(size)]
<1>1. /\ slot = [k |-> "empty", v |-> "none", k_is_constant |-> FALSE, next |-> -1, prev |-> -1]
      /\ slot \in Entries(size)
  BY DEF Entries, Table!Slot, Table!NULL
<1>2. new = [size |-> size, count |-> 0, head |-> -1, tail |-> -1,
             table |-> [n \in 0 .. size - 1 |-> slot]]
  BY DEF Table!NewTable, Table!NULL, Table!NoValue, Table!EMPTY
<1> HIDE DEF slot
<1>3. [n \in 0 .. size - 1 |-> slot] \in T
  BY <1>1
<1> HIDE DEF T
<1>4. new \in Tables(T) /\ new.size = size /\ new.count = 0 /\ new.head = -1 /\ new.tail = -1
  BY <1>2, <1>3 DEF Tables
<1>5. \A m \in 0 .. size - 1 : new.table[m] = slot
  BY <1>2
<1>6. TShape(new)
  BY <1>4 DEF TShape, T
<1>7. UsedOf(new) = {} /\ HeldOf(new) = {}
  <2>1. \A m \in 0 .. size - 1 : new.table[m].k = "empty"
    BY <1>1, <1>5
  <2> QED
    BY <1>4, <2>1 DEF UsedOf, HeldOf
<1>8. /\ NextOf(new) \in [0 .. size - 1 -> Int] /\ PrevOf(new) \in [0 .. size - 1 -> Int]
      /\ \A m \in 0 .. size - 1 : NextOf(new)[m] = -1 /\ PrevOf(new)[m] = -1
  <2>1. \A m \in 0 .. size - 1 : new.table[m].next = -1 /\ new.table[m].prev = -1
    BY <1>1, <1>5
  <2> QED
    BY <1>4, <2>1 DEF NextOf, PrevOf
<1>9. Len(<<>>) = 0 /\ <<>> \in Seq(0 .. size - 1)
  BY EmptySeq
<1>10. Listed(new.size, UsedOf(new), new.head, new.tail, NextOf(new), PrevOf(new), <<>>)
  <2>1. \A i \in 1 .. Len(<<>>) : FALSE
    BY <1>9
  <2> QED
    BY <1>4, <1>7, <1>8, <1>9, <2>1 DEF Listed
<1>11. Searchable(new.size, UsedOf(new), KeyOf(new), ValueOf(new), HeldOf(new), WayOf(new))
  <2>1. Ways(new.size, WayOf(new))
    BY <1>6, WaysHold
  <2> QED
    BY <1>7, <2>1 DEF Searchable, Named, Reached
<1>12. MembersBy(new, <<>>) = <<>>
  BY <1>9 DEF MembersBy, Zipped
<1> QED
  BY <1>4, <1>6, <1>7, <1>9, <1>10, <1>11, <1>12 DEF Good

(* EntriesOf gives the entries in their order.                             *)
LEMMA EntriesIs ==
    ASSUME NEW tab, NEW s, Good(tab, s)
    PROVE  Table!EntriesOf(tab) = s
<1> DEFINE Is(f) == f = [n \in -1 .. tab.size - 1 |->
                            IF n = -1 THEN <<>> ELSE <<n>> \o f[tab.table[n].next]]
           from == CHOOSE f : Is(f)
<1>1. /\ tab.size \in Nat \ {0} /\ tab.head \in Int
      /\ Listed(tab.size, UsedOf(tab), tab.head, tab.tail, NextOf(tab), PrevOf(tab), s)
  BY ShapeFits DEF Good
<1>2. \A f : Is(f) <=> Follows(f, tab.size, NextOf(tab))
  <2>1. /\ -1 \in -1 .. tab.size - 1
        /\ \A m \in 0 .. tab.size - 1 : m \in -1 .. tab.size - 1 /\ m # -1
        /\ \A m \in -1 .. tab.size - 1 : m = -1 \/ m \in 0 .. tab.size - 1
    BY <1>1
  <2>2. \A m \in 0 .. tab.size - 1 : NextOf(tab)[m] = tab.table[m].next
    BY DEF NextOf
  <2>3. ASSUME NEW f, Is(f) PROVE Follows(f, tab.size, NextOf(tab))
    BY <2>1, <2>2, <2>3 DEF Follows
  <2>4. ASSUME NEW f, Follows(f, tab.size, NextOf(tab)) PROVE Is(f)
    <3>2. \A n \in -1 .. tab.size - 1 : f[n] = IF n = -1 THEN <<>> ELSE <<n>> \o f[tab.table[n].next]
      BY <2>1, <2>2, <2>4 DEF Follows
    <3> QED
      BY <2>4, <3>2 DEF Follows
  <2> QED
    BY <2>3, <2>4
<1>3. Table!EntriesOf(tab) = from[tab.head]
  BY DEF Table!EntriesOf, Table!NULL
<1> HIDE DEF Is
<1>4. Is(from)
  BY <1>1, <1>2, ListFollowed
<1> HIDE DEF from
<1> QED
  BY <1>1, <1>2, <1>3, <1>4, ListFollowed

-----------------------------------------------------------------------------
(* The tables on the way to a table of another size, up to the i-th entry. *)
Moved(tab, s, x, j) == Table!Place(x, tab.table[s[j]].k, tab.table[s[j]].v, FALSE)
Moves(tab, s, size, f, i) ==
    f = [j \in 0 .. i |-> IF j = 0 THEN Table!NewTable(size) ELSE Moved(tab, s, f[j - 1], j)]

(* The tables on the way are well defined.                                 *)
LEMMA MovesExist ==
    ASSUME NEW tab, NEW s, NEW size, NEW L \in Nat
    PROVE  \E f : Moves(tab, s, size, f, L)
<1> DEFINE Has(i) == \E f : Moves(tab, s, size, f, i)
           S == {i \in Nat : ~Has(i)}
<1>1. Has(0)
  <2> DEFINE f == [j \in 0 .. 0 |-> Table!NewTable(size)]
  <2>1. Moves(tab, s, size, f, 0)
    BY DEF Moves
  <2> QED
    BY <2>1
<1>2. ASSUME NEW i \in Nat, Has(i) PROVE Has(i + 1)
  <2>1. PICK g : Moves(tab, s, size, g, i)
    BY <1>2
  <2> DEFINE f == [j \in 0 .. i + 1 |-> IF j = i + 1 THEN Moved(tab, s, g[i], i + 1) ELSE g[j]]
  <2>2. \A j \in 0 .. i : j \in 0 .. i + 1 /\ j # i + 1 /\ f[j] = g[j]
    OBVIOUS
  <2>3. /\ i \in 0 .. i /\ i + 1 # 0 /\ i + 1 - 1 = i
        /\ \A j \in 0 .. i : j # 0 => j - 1 \in 0 .. i
        /\ \A j \in 0 .. i + 1 : j # i + 1 => j \in 0 .. i
    OBVIOUS
  <2>4. \A j \in 0 .. i :
           g[j] = IF j = 0 THEN Table!NewTable(size) ELSE Moved(tab, s, g[j - 1], j)
    BY <2>1 DEF Moves
  <2>5. \A j \in 0 .. i + 1 :
           f[j] = IF j = 0 THEN Table!NewTable(size) ELSE Moved(tab, s, f[j - 1], j)
    <3>1. f[i + 1] = Moved(tab, s, g[i], i + 1)
      BY <2>3
    <3>2. f = [j \in 0 .. i + 1 |-> f[j]]
      OBVIOUS
    <3> HIDE DEF f
    <3>3. ASSUME NEW j \in 0 .. i
          PROVE  f[j] = IF j = 0 THEN Table!NewTable(size) ELSE Moved(tab, s, f[j - 1], j)
      <4>1. CASE j = 0
        BY <2>2, <2>4, <4>1
      <4>2. CASE j # 0
        <5>1. f[j - 1] = g[j - 1] /\ f[j] = g[j]
          BY <2>2, <2>3, <4>2
        <5> QED
          BY <2>4, <4>2, <5>1
      <4> QED
        BY <4>1, <4>2
    <3>4. f[i + 1] = Moved(tab, s, f[i + 1 - 1], i + 1)
      BY <2>2, <2>3, <3>1
    <3> QED
      BY <2>3, <3>3, <3>4
  <2>6. Moves(tab, s, size, f, i + 1)
    <3>1. f = [j \in 0 .. i + 1 |-> f[j]]
      OBVIOUS
    <3> HIDE DEF f
    <3> QED
      BY <2>5, <3>1 DEF Moves
  <2> QED
    BY <2>6
<1> HIDE DEF Has
<1>3. S = {}
  <2> SUFFICES ASSUME S # {} PROVE FALSE
    OBVIOUS
  <2>1. PICK i \in S : \A m \in S : i <= m
    <3>1. S \in SUBSET Nat
      OBVIOUS
    <3> QED
      BY <3>1, LeastOf
  <2>2. i # 0 /\ i \in Nat
    BY <1>1
  <2>3. i - 1 \in Nat /\ i - 1 \notin S /\ i - 1 + 1 = i
    BY <2>1, <2>2
  <2>4. Has(i - 1)
    BY <2>3
  <2>5. Has(i)
    BY <1>2, <2>3, <2>4
  <2> QED
    BY <2>5
<1> QED
  BY <1>3 DEF Has

(* After i of the entries they are in the new table, in their order.       *)
Taken(tab, s, new, size, z, i) ==
    /\ Good(new, z) /\ new.size = size /\ Len(z) = i
    /\ \A j \in 1 .. i : /\ KeyOf(new)[z[j]] = KeyOf(tab)[s[j]]
                         /\ ValueOf(new)[z[j]] = ValueOf(tab)[s[j]]

(* Each entry taken over comes last in the new table.                      *)
LEMMA TakeOne ==
    ASSUME Hashing, NEW tab, NEW s, Good(tab, s), NEW size \in Nat \ {0}, Len(s) <= size,
           NEW i \in 0 .. Len(s) - 1, NEW x, NEW z, Taken(tab, s, x, size, z, i),
           NEW new, new = Moved(tab, s, x, i + 1)
    PROVE  \E y : Taken(tab, s, new, size, y, i + 1)
<1> DEFINE k == KeyOf(tab)[s[i + 1]]
           v == ValueOf(tab)[s[i + 1]]
<1>1. /\ Len(s) \in Nat /\ i + 1 \in 1 .. Len(s) /\ s[i + 1] \in UsedOf(tab)
      /\ \A j \in 1 .. Len(s) : s[j] \in UsedOf(tab)
      /\ \A j, l \in 1 .. Len(s) : s[j] = s[l] => j = l
  <2>1. Listed(tab.size, UsedOf(tab), tab.head, tab.tail, NextOf(tab), PrevOf(tab), s)
    BY DEF Good
  <2>2. Len(s) \in Nat
    BY <2>1, ListEnds
  <2>3. i + 1 \in 1 .. Len(s)
    BY <2>2
  <2> QED
    BY <2>1, <2>2, <2>3 DEF Listed
<1>2. /\ k \in Keys /\ v \in Values
      /\ \A m, n \in UsedOf(tab) : KeyOf(tab)[m] = KeyOf(tab)[n] => m = n
      /\ s[i + 1] \in 0 .. tab.size - 1
  BY <1>1 DEF Good, Searchable, Named
<1>3. new = Table!Place(x, k, v, FALSE)
  BY <1>2 DEF Moved, KeyOf, ValueOf
<1>4. /\ Good(x, z) /\ x.size = size /\ Len(z) = i
      /\ \A j \in 1 .. i : /\ KeyOf(x)[z[j]] = KeyOf(tab)[s[j]]
                           /\ ValueOf(x)[z[j]] = ValueOf(tab)[s[j]]
  BY DEF Taken
<1>5. Listed(x.size, UsedOf(x), x.head, x.tail, NextOf(x), PrevOf(x), z)
  BY <1>4 DEF Good
<1>6. \A m \in UsedOf(x) : KeyOf(x)[m] # k
  <2> SUFFICES ASSUME NEW m \in UsedOf(x), KeyOf(x)[m] = k PROVE FALSE
    OBVIOUS
  <2>1. PICK j \in 1 .. i : z[j] = m
    BY <1>4, <1>5 DEF Listed
  <2>2. KeyOf(tab)[s[j]] = KeyOf(tab)[s[i + 1]]
    BY <1>4, <2>1
  <2>3. j \in 1 .. Len(s) /\ j # i + 1
    BY <1>1
  <2>4. s[j] = s[i + 1]
    BY <1>1, <1>2, <2>2, <2>3
  <2> QED
    BY <1>1, <2>3, <2>4
<1>7. Len(z) < x.size
  BY <1>1, <1>4
<1> HIDE DEF k, v
<1>8. PICK n \in (0 .. x.size - 1) \ UsedOf(x) :
            /\ new.size = x.size /\ Good(new, Append(z, n))
            /\ ValueOf(new) = [ValueOf(x) EXCEPT ![n] = v]
            /\ KeyOf(new) = [KeyOf(x) EXCEPT ![n] = k]
  <2>1. RoomFor(x, z, k) /\ k \in Keys /\ v \in Values
    BY <1>2, <1>4, <1>6, <1>7 DEF RoomFor
  <2>2. \E n : Last(x, z, new, k, v, n)
    BY <1>3, <2>1, PlaceGood
  <2> QED
    BY <2>2 DEF Last
<1> DEFINE y == Append(z, n)
<1>9. /\ Len(y) = i + 1 /\ y[i + 1] = n
      /\ \A j \in 1 .. i : y[j] = z[j] /\ z[j] \in UsedOf(x)
  <2>1. z \in Seq(0 .. x.size - 1) /\ \A j \in 1 .. i : z[j] \in UsedOf(x)
    BY <1>4, <1>5 DEF Listed
  <2>2. PICK D : z \in Seq(D) /\ n \in D
    BY <1>8, <2>1, Zenon
  <2> QED
    BY <1>4, <2>1, <2>2, AppendProperties
<1> HIDE DEF y
<1>10. \A j \in 1 .. i + 1 : j = i + 1 \/ j \in 1 .. i
  OBVIOUS
<1>11. DOMAIN KeyOf(x) = 0 .. x.size - 1 /\ DOMAIN ValueOf(x) = 0 .. x.size - 1
  BY DEF KeyOf, ValueOf
<1>12. ASSUME NEW j \in 1 .. i + 1
       PROVE  KeyOf(new)[y[j]] = KeyOf(tab)[s[j]] /\ ValueOf(new)[y[j]] = ValueOf(tab)[s[j]]
  <2>1. CASE j = i + 1
    <3>1. KeyOf(new)[n] = k /\ ValueOf(new)[n] = v
      BY <1>8, <1>11
    <3> QED
      BY <1>9, <2>1, <3>1 DEF k, v
  <2>2. CASE j # i + 1
    <3>1. j \in 1 .. i
      BY <1>10, <2>2
    <3>2. y[j] # n /\ y[j] \in 0 .. x.size - 1 /\ y[j] = z[j]
      BY <1>8, <1>9, <3>1 DEF UsedOf
    <3>3. KeyOf(new)[y[j]] = KeyOf(x)[z[j]] /\ ValueOf(new)[y[j]] = ValueOf(x)[z[j]]
      BY <1>8, <1>11, <3>2
    <3> QED
      BY <1>4, <3>1, <3>3
  <2> QED
    BY <2>1, <2>2
<1>13. Taken(tab, s, new, size, y, i + 1)
  BY <1>4, <1>8, <1>9, <1>12 DEF Taken, y
<1> QED
  BY <1>13

(* lh_table_resize keeps the members and their order.                      *)
LEMMA ResizeGood ==
    ASSUME Hashing, NEW tab, NEW s, Good(tab, s), NEW size \in Nat \ {0}, Len(s) <= size,
           NEW new, new = Table!Resize(tab, size)
    PROVE  \E z : /\ Good(new, z) /\ new.size = size /\ Len(z) = Len(s)
                  /\ MembersBy(new, z) = MembersBy(tab, s)
<1> DEFINE L == Len(s)
           Is(f) == f = [i \in 0 .. L |-> IF i = 0 THEN Table!NewTable(size)
                           ELSE Table!Place(f[i - 1], tab.table[s[i]].k, tab.table[s[i]].v, FALSE)]
           moved == CHOOSE f : Is(f)
<1>1. L \in Nat
  BY ListEnds DEF Good
<1>2. new = moved[L]
  <2>1. Table!EntriesOf(tab) = s
    BY EntriesIs
  <2> QED
    BY <2>1 DEF Table!Resize
<1>3. \A f : Is(f) <=> Moves(tab, s, size, f, L)
  BY DEF Moves, Moved
<1> HIDE DEF Is
<1>4. Moves(tab, s, size, moved, L)
  <2>1. \E f : Is(f)
    BY <1>1, <1>3, MovesExist
  <2>2. Is(moved)
    BY <2>1
  <2> HIDE DEF moved
  <2> QED
    BY <1>3, <2>2
<1> HIDE DEF moved
<1>5. /\ moved[0] = Table!NewTable(size)
      /\ \A i \in 0 .. L - 1 : moved[i + 1] = Moved(tab, s, moved[i], i + 1)
  <2>1. \A i \in 0 .. L :
           moved[i] = IF i = 0 THEN Table!NewTable(size) ELSE Moved(tab, s, moved[i - 1], i)
    BY <1>4 DEF Moves
  <2>2. /\ 0 \in 0 .. L
        /\ \A i \in 0 .. L - 1 : i + 1 \in 0 .. L /\ i + 1 # 0 /\ i + 1 - 1 = i
    BY <1>1
  <2> QED
    BY <2>1, <2>2
<1> DEFINE Right(i) == \E z : Taken(tab, s, moved[i], size, z, i)
           S == {i \in 0 .. L : ~Right(i)}
<1>6. Right(0)
  <2>1. Good(moved[0], <<>>) /\ moved[0].size = size
    BY <1>5, NewGood
  <2>2. Len(<<>>) = 0
    OBVIOUS
  <2>3. Taken(tab, s, moved[0], size, <<>>, 0)
    BY <2>1, <2>2 DEF Taken
  <2> QED
    BY <2>3
<1>7. ASSUME NEW i \in 0 .. L - 1, Right(i) PROVE Right(i + 1)
  <2>1. PICK z : Taken(tab, s, moved[i], size, z, i)
    BY <1>7
  <2>2. moved[i + 1] = Moved(tab, s, moved[i], i + 1)
    BY <1>5
  <2>3. \E y : Taken(tab, s, moved[i + 1], size, y, i + 1)
    BY <2>1, <2>2, TakeOne
  <2> QED
    BY <2>3
<1> HIDE DEF Right
<1>8. S = {}
  <2> SUFFICES ASSUME S # {} PROVE FALSE
    OBVIOUS
  <2>1. PICK i \in S : \A m \in S : i <= m
    <3>1. S \in SUBSET Nat
      BY <1>1
    <3> QED
      BY <3>1, LeastOf
  <2>2. i # 0 /\ i \in 0 .. L
    BY <1>6
  <2>3. i - 1 \in 0 .. L - 1 /\ i - 1 \in 0 .. L /\ i - 1 \notin S /\ i - 1 + 1 = i
    BY <1>1, <2>1, <2>2
  <2>4. Right(i - 1)
    BY <2>3
  <2>5. Right(i)
    BY <1>7, <2>3, <2>4
  <2> QED
    BY <2>5
<1>9. Right(L)
  BY <1>1, <1>8
<1>10. PICK z : Taken(tab, s, new, size, z, L)
  BY <1>2, <1>9 DEF Right
<1>11. MembersBy(new, z) = MembersBy(tab, s)
  BY <1>10 DEF Taken, MembersBy, Zipped
<1> QED
  BY <1>10, <1>11 DEF Taken

-----------------------------------------------------------------------------
(* The members are pairs of a key and a value, and their keys those used.  *)
LEMMA MembersFit ==
    ASSUME NEW tab, NEW s, Good(tab, s)
    PROVE  /\ Len(s) \in Nat /\ Len(s) <= tab.size /\ tab.count = Len(s)
           /\ MembersBy(tab, s) \in Seq(Keys \X Values) /\ Len(MembersBy(tab, s)) = Len(s)
           /\ \A i \in 1 .. Len(s) : MembersBy(tab, s)[i] = <<KeyOf(tab)[s[i]], ValueOf(tab)[s[i]]>>
<1>1. Listed(tab.size, UsedOf(tab), tab.head, tab.tail, NextOf(tab), PrevOf(tab), s)
  BY DEF Good
<1>2. Len(s) \in Nat /\ Len(s) <= tab.size
  BY <1>1, ListEnds, ListCount
<1>3. \A i \in 1 .. Len(s) : s[i] \in UsedOf(tab)
  BY <1>1 DEF Listed
<1>4. \A m \in UsedOf(tab) : <<KeyOf(tab)[m], ValueOf(tab)[m]>> \in Keys \X Values
  BY DEF Good, Searchable, Named
<1>5. Paired(KeyOf(tab), ValueOf(tab), s, Keys \X Values)
  BY <1>2, <1>3, <1>4 DEF Paired
<1>6. /\ Zipped(KeyOf(tab), ValueOf(tab), s) \in Seq(Keys \X Values)
      /\ Len(Zipped(KeyOf(tab), ValueOf(tab), s)) = Len(s)
      /\ \A i \in 1 .. Len(s) :
            Zipped(KeyOf(tab), ValueOf(tab), s)[i] = <<KeyOf(tab)[s[i]], ValueOf(tab)[s[i]]>>
  BY <1>5, ZippedSeq
<1> QED
  BY <1>2, <1>6 DEF Good, MembersBy

Unnamed(M, k) == \A i \in 1 .. Len(M) : M[i][1] # k

(* A key is used by an entry exactly if a member has it.                   *)
LEMMA KeysOfMembers ==
    ASSUME NEW tab, NEW s, Good(tab, s), NEW k
    PROVE  (\A m \in UsedOf(tab) : KeyOf(tab)[m] # k) <=> Unnamed(MembersBy(tab, s), k)
<1>1. /\ \A i \in 1 .. Len(s) : s[i] \in UsedOf(tab)
      /\ \A m \in UsedOf(tab) : \E i \in 1 .. Len(s) : s[i] = m
  <2>1. Listed(tab.size, UsedOf(tab), tab.head, tab.tail, NextOf(tab), PrevOf(tab), s)
    BY DEF Good
  <2> QED
    BY <2>1 DEF Listed
<1>2. /\ Len(MembersBy(tab, s)) = Len(s)
      /\ \A i \in 1 .. Len(s) : MembersBy(tab, s)[i][1] = KeyOf(tab)[s[i]]
  BY MembersFit
<1> QED
  BY <1>1, <1>2 DEF Unnamed

(* A key that is not there comes last, whether the table grows or not.     *)
Grown(tab, s, new, k, v, z) ==
    Good(new, z) /\ MembersBy(new, z) = Append(MembersBy(tab, s), <<k, v>>)

(* Whether the table grows or not, lh_table_insert adds a new key as the   *)
(* last member.                                                            *)
LEMMA InsertGood ==
    ASSUME Hashing, NEW tab, NEW s, Good(tab, s), NEW k \in Keys, NEW v \in Values,
           Unnamed(MembersBy(tab, s), k)
    PROVE  \E z : Grown(tab, s, Table!Insert(tab, k, v, FALSE), k, v, z)
<1> DEFINE big == Table!Resize(tab, 2 * tab.size)
<1>1. tab.size \in Nat \ {0} /\ Len(s) \in Nat /\ Len(s) <= tab.size /\ tab.count = Len(s)
  BY ShapeFits, MembersFit DEF Good
<1>2. CASE Table!Full(tab)
  <2>1. 2 * tab.size \in Nat \ {0} /\ Len(s) <= 2 * tab.size /\ Len(s) < 2 * tab.size
    BY <1>1
  <2>2. PICK z : /\ Good(big, z) /\ big.size = 2 * tab.size /\ Len(z) = Len(s)
                 /\ MembersBy(big, z) = MembersBy(tab, s)
    BY <2>1, ResizeGood, SMTT(30)
  <2>3. Table!Insert(tab, k, v, FALSE) = Table!Place(big, k, v, FALSE)
    BY <1>2 DEF Table!Insert
  <2> HIDE DEF big
  <2>4. RoomFor(big, z, k)
    <3>1. \A m \in UsedOf(big) : KeyOf(big)[m] # k
      BY <2>2, KeysOfMembers
    <3> QED
      BY <2>1, <2>2, <3>1 DEF RoomFor
  <2>5. PICK n : Last(big, z, Table!Place(big, k, v, FALSE), k, v, n)
    BY <2>4, PlaceGood
  <2>6. Grown(tab, s, Table!Place(big, k, v, FALSE), k, v, Append(z, n))
    BY <2>2, <2>5 DEF Last, Grown
  <2> QED
    BY <2>3, <2>6
<1>3. CASE ~Table!Full(tab)
  <2>1. Len(s) < tab.size
    BY <1>1, <1>3 DEF Table!Full
  <2>2. Table!Insert(tab, k, v, FALSE) = Table!Place(tab, k, v, FALSE)
    BY <1>3 DEF Table!Insert
  <2>4. RoomFor(tab, s, k)
    <3>1. \A m \in UsedOf(tab) : KeyOf(tab)[m] # k
      BY KeysOfMembers
    <3> QED
      BY <2>1, <3>1 DEF RoomFor
  <2>5. PICK n : Last(tab, s, Table!Place(tab, k, v, FALSE), k, v, n)
    BY <2>4, PlaceGood
  <2>6. Grown(tab, s, Table!Place(tab, k, v, FALSE), k, v, Append(s, n))
    BY <2>5 DEF Last, Grown
  <2> QED
    BY <2>2, <2>6
<1> QED
  BY <1>2, <1>3

(* What lh_table_delete_entry changes.                                     *)
Unlinked(tab, new, n) ==
    /\ TShape(new)
    /\ new.size = tab.size /\ new.count = tab.count - 1
    /\ new.head = (IF tab.head = n THEN tab.table[n].next ELSE tab.head)
    /\ new.tail = (IF tab.tail = n THEN tab.table[n].prev ELSE tab.tail)
    /\ new.table[n].k = "freed" /\ new.table[n].next = -1 /\ new.table[n].prev = -1
    /\ \A m \in 0 .. tab.size - 1 : m # n =>
          /\ new.table[m].k = tab.table[m].k /\ new.table[m].v = tab.table[m].v
          /\ new.table[m].next = (IF tab.table[m].next = n THEN tab.table[n].next
                                                           ELSE tab.table[m].next)
          /\ new.table[m].prev = (IF tab.table[m].prev = n THEN tab.table[n].prev
                                                           ELSE tab.table[m].prev)

Linking(N, e, x, y, e2) ==
    /\ e \in Entries(N) /\ x \in -1 .. N - 1 /\ y \in -1 .. N - 1
    /\ e2 = [e EXCEPT !.next = x, !.prev = y]
BothLinkedTo(N, e, x, y, e2) ==
    e2 \in Entries(N) /\ e2.k = e.k /\ e2.v = e.v /\ e2.next = x /\ e2.prev = y

(* An entry with both of its links changed.                                *)
LEMMA BothLinked ==
    ASSUME NEW N, NEW e, NEW x, NEW y, NEW e2, Linking(N, e, x, y, e2)
    PROVE  BothLinkedTo(N, e, x, y, e2)
  BY DEF Linking, BothLinkedTo, Entries

(* lh_table_delete_entry marks its entry as freed, and leads the links of  *)
(* the others past it.                                                     *)
LEMMA UnlinkChanges ==
    ASSUME NEW tab, TShape(tab), NEW n \in 0 .. tab.size - 1, tab.count # 0
    PROVE  Unlinked(tab, Table!Unlink(tab, n), n)
<1> DEFINE N == tab.size
           T == [0 .. N - 1 -> Entries(N)]
           e == tab.table
           new == Table!Unlink(tab, n)
           next(m) == IF e[m].next = n THEN e[n].next ELSE e[m].next
           prev(m) == IF e[m].prev = n THEN e[n].prev ELSE e[m].prev
           slot == Table!Slot("freed", "none", e[n].k_is_constant)
           put == [m \in 0 .. N - 1 |-> IF m = n THEN slot
                                        ELSE [e[m] EXCEPT !.next = next(m), !.prev = prev(m)]]
           head == IF tab.head = n THEN e[n].next ELSE tab.head
           tail == IF tab.tail = n THEN e[n].prev ELSE tab.tail
<1>1. /\ N \in Nat \ {0} /\ tab.count \in Nat /\ tab.head \in Int /\ tab.tail \in Int
      /\ DOMAIN e = 0 .. N - 1
      /\ \A m \in 0 .. N - 1 : e[m] \in Entries(N)
  BY ShapeFits
<1>2. \A m \in 0 .. N - 1 : e[m].next \in -1 .. N - 1 /\ e[m].prev \in -1 .. N - 1
                            /\ e[m].k_is_constant = FALSE
  BY <1>1 DEF Entries
<1>3. slot \in Entries(N) /\ slot.k = "freed" /\ slot.next = -1 /\ slot.prev = -1
  <2>1. slot = [k |-> "freed", v |-> "none", k_is_constant |-> FALSE, next |-> -1, prev |-> -1]
    BY <1>2 DEF Table!Slot, Table!NULL
  <2>2. -1 \in -1 .. N - 1
    BY <1>1
  <2> HIDE DEF slot, N
  <2> QED
    BY <2>1, <2>2 DEF Entries
<1>4. new = [tab EXCEPT !.count = tab.count - 1, !.head = head, !.tail = tail, !.table = put]
  BY <1>1 DEF Table!Unlink, Table!FREED, Table!NoValue
<1>5. \A m \in 0 .. N - 1 : next(m) \in -1 .. N - 1 /\ prev(m) \in -1 .. N - 1
  BY <1>2
<1>6. head \in Int /\ tail \in Int /\ tab.count - 1 \in Nat
  BY <1>1, <1>2
<1>7. /\ put[n] = slot
      /\ \A m \in 0 .. N - 1 : m # n => put[m] = [e[m] EXCEPT !.next = next(m), !.prev = prev(m)]
  OBVIOUS
<1>h. put = [m \in 0 .. N - 1 |-> put[m]]
  OBVIOUS
<1>i. /\ head = IF tab.head = n THEN e[n].next ELSE tab.head
      /\ tail = IF tab.tail = n THEN e[n].prev ELSE tab.tail
      /\ \A m \in 0 .. N - 1 : /\ next(m) = IF e[m].next = n THEN e[n].next ELSE e[m].next
                               /\ prev(m) = IF e[m].prev = n THEN e[n].prev ELSE e[m].prev
  OBVIOUS
<1> HIDE DEF slot, put, head, tail, next, prev, new
<1>8. ASSUME NEW m \in 0 .. N - 1, m # n
      PROVE  /\ put[m] \in Entries(N) /\ put[m].k = e[m].k /\ put[m].v = e[m].v
             /\ put[m].next = next(m) /\ put[m].prev = prev(m)
  <2>1. Linking(N, e[m], next(m), prev(m), put[m])
    BY <1>1, <1>5, <1>7, <1>8 DEF Linking
  <2> HIDE DEF N, e
  <2>3. BothLinkedTo(N, e[m], next(m), prev(m), put[m])
    BY <2>1, BothLinked, Zenon
  <2> QED
    BY <2>3 DEF BothLinkedTo
<1>9. put \in T
  <2>1. \A m \in 0 .. N - 1 : put[m] \in Entries(N)
    BY <1>3, <1>7, <1>8
  <2> QED
    BY <1>h, <2>1
<1>10. tab \in Tables(T)
  BY DEF TShape
<1> HIDE DEF T, e
<1>11. /\ new \in Tables(T) /\ new.size = N /\ new.count = tab.count - 1
       /\ new.head = head /\ new.tail = tail /\ new.table = put
  <2>1. PICK count \in Nat : count = tab.count - 1
    BY <1>6
  <2> QED
    BY <1>4, <1>6, <1>9, <1>10, <2>1 DEF Tables
<1>12. TShape(new)
  BY <1>11 DEF TShape, T
<1> QED
  BY <1>3, <1>7, <1>8, <1>11, <1>12, <1>i DEF Unlinked, new, e

-----------------------------------------------------------------------------
(* The member at x goes, and the others keep their order.                  *)
Shorter(tab, s, new, x) ==
    /\ Good(new, Without(s, x))
    /\ MembersBy(new, Without(s, x)) = Without(MembersBy(tab, s), x)

(* lh_table_delete_entry takes one member out, and every other key is still*)
(* found, through the mark it leaves.                                      *)
LEMMA UnlinkGood ==
    ASSUME Hashing, NEW tab, NEW s, Good(tab, s), NEW x \in 1 .. Len(s)
    PROVE  Shorter(tab, s, Table!Unlink(tab, s[x]), x)
<1> DEFINE N == tab.size
           U == UsedOf(tab)
           n == s[x]
           new == Table!Unlink(tab, n)
           z == Without(s, x)
<1>1. /\ TShape(tab) /\ N \in Nat \ {0} /\ tab.count = Len(s) /\ Len(s) \in Nat
      /\ Listed(N, U, tab.head, tab.tail, NextOf(tab), PrevOf(tab), s)
      /\ Searchable(N, U, KeyOf(tab), ValueOf(tab), HeldOf(tab), WayOf(tab))
  BY ShapeFits, MembersFit DEF Good
<1>2. /\ s \in Seq(0 .. N - 1) /\ U \subseteq 0 .. N - 1
      /\ \A i \in 1 .. Len(s) : s[i] \in U /\ s[i] \in 0 .. N - 1
      /\ \A i, j \in 1 .. Len(s) : s[i] = s[j] => i = j
  BY <1>1 DEF Listed
<1>3. n \in U /\ n \in 0 .. N - 1 /\ tab.count # 0
  BY <1>1, <1>2
<1> HIDE DEF n
<1>4. Unlinked(tab, new, n)
  BY <1>1, <1>3, UnlinkChanges
<1> HIDE DEF new
<1>5. /\ TShape(new)
      /\ new.size = N /\ new.count = tab.count - 1
      /\ new.head = (IF tab.head = n THEN tab.table[n].next ELSE tab.head)
      /\ new.tail = (IF tab.tail = n THEN tab.table[n].prev ELSE tab.tail)
      /\ new.table[n].k = "freed" /\ new.table[n].next = -1 /\ new.table[n].prev = -1
      /\ \A m \in 0 .. N - 1 : m # n =>
            /\ new.table[m].k = tab.table[m].k /\ new.table[m].v = tab.table[m].v
            /\ new.table[m].next = (IF tab.table[m].next = n THEN tab.table[n].next
                                                             ELSE tab.table[m].next)
            /\ new.table[m].prev = (IF tab.table[m].prev = n THEN tab.table[n].prev
                                                             ELSE tab.table[m].prev)
  BY <1>4 DEF Unlinked
<1>6. UsedOf(new) = U \ {n} /\ HeldOf(new) = HeldOf(tab)
  <2>1. \A m \in 0 .. N - 1 : m # n => new.table[m].k = tab.table[m].k
    BY <1>5
  <2>2. new.table[n].k = "freed" /\ new.size = N
    BY <1>5
  <2>3. tab.table[n].k # "empty"
    BY <1>3 DEF UsedOf
  <2>4. UsedOf(new) = U \ {n}
    BY <2>1, <2>2 DEF UsedOf
  <2>5. HeldOf(new) = HeldOf(tab)
    BY <2>1, <2>2, <2>3 DEF HeldOf
  <2> QED
    BY <2>4, <2>5
<1>7. NextOf(new) = Around(N, NextOf(tab), n)
  <2>1. \A m \in 0 .. N - 1 :
           new.table[m].next = IF m = n THEN -1 ELSE IF tab.table[m].next = n
                               THEN tab.table[n].next ELSE tab.table[m].next
    BY <1>5
  <2>2. new.size = N
    BY <1>5
  <2> QED
    BY <1>3, <2>1, <2>2 DEF NextOf, Around
<1>8. PrevOf(new) = Around(N, PrevOf(tab), n)
  <2>1. \A m \in 0 .. N - 1 :
           new.table[m].prev = IF m = n THEN -1 ELSE IF tab.table[m].prev = n
                               THEN tab.table[n].prev ELSE tab.table[m].prev
    BY <1>5
  <2>2. new.size = N
    BY <1>5
  <2> QED
    BY <1>3, <2>1, <2>2 DEF PrevOf, Around
<1>9. WayOf(new) = WayOf(tab)
  BY <1>5 DEF WayOf, Table!Probed
<1>10. Listed(N, UsedOf(new), new.head, new.tail, NextOf(new), PrevOf(new), z)
  <2>1. Listed(N, U \ {n}, IF tab.head = n THEN NextOf(tab)[n] ELSE tab.head,
               IF tab.tail = n THEN PrevOf(tab)[n] ELSE tab.tail,
               Around(N, NextOf(tab), n), Around(N, PrevOf(tab), n), z)
    <3>1. n = s[x]
      BY DEF n
    <3> QED
      BY <1>1, <3>1, ListRemove
  <2>2. NextOf(tab)[n] = tab.table[n].next /\ PrevOf(tab)[n] = tab.table[n].prev
    BY <1>3 DEF NextOf, PrevOf
  <2> QED
    BY <1>5, <1>6, <1>7, <1>8, <2>1, <2>2
<1>11. \A m \in 0 .. N - 1 : m # n => /\ KeyOf(new)[m] = KeyOf(tab)[m]
                                      /\ ValueOf(new)[m] = ValueOf(tab)[m]
  BY <1>5 DEF KeyOf, ValueOf
<1>12. Searchable(N, UsedOf(new), KeyOf(new), ValueOf(new), HeldOf(new), WayOf(new))
  <2>1. U \ {n} \in SUBSET U
    OBVIOUS
  <2>2. \A m \in U : ValueOf(tab)[m] \in Values
    BY <1>1 DEF Searchable, Named
  <2>3. \A m \in U \ {n} : KeyOf(new)[m] = KeyOf(tab)[m] /\ ValueOf(new)[m] \in Values
    BY <1>2, <1>11, <2>2
  <2>4. Searchable(N, U \ {n}, KeyOf(new), ValueOf(new), HeldOf(tab), WayOf(tab))
    BY <1>1, <2>1, <2>3, ReachLess
  <2> QED
    BY <1>6, <1>9, <2>4
<1>13. Len(z) = Len(s) - 1
  BY <1>2, WithoutProperties
<1>14. Good(new, z)
  BY <1>1, <1>5, <1>10, <1>12, <1>13 DEF Good
<1>15. MembersBy(new, z) = Without(MembersBy(tab, s), x)
  <2>1. \A i \in 1 .. Len(s) : i # x => s[i] # n
    BY <1>2 DEF n
  <2>2. Alike(KeyOf(tab), ValueOf(tab), KeyOf(new), ValueOf(new), s, x)
    BY <1>2, <1>11, <2>1 DEF Alike
  <2>3. Dropping(KeyOf(tab), ValueOf(tab), KeyOf(new), ValueOf(new), s, x)
    BY <1>2, <2>2, Zenon DEF Dropping
  <2>4. Dropped(KeyOf(tab), ValueOf(tab), KeyOf(new), ValueOf(new), s, x)
    BY <2>3, ZippedDropped, Zenon
  <2> QED
    BY <2>4 DEF Dropped, MembersBy
<1> QED
  BY <1>14, <1>15 DEF Shorter, new, n

(* The value of a member is replaced, and nothing else.                    *)
Replacing(tab, s, new, x, v) ==
    /\ Good(new, s)
    /\ MembersBy(new, s) = [MembersBy(tab, s) EXCEPT ![x] = <<MembersBy(tab, s)[x][1], v>>]

(* Putting another value into an entry changes that member only.           *)
LEMMA ReplaceGood ==
    ASSUME Hashing, NEW tab, NEW s, Good(tab, s), NEW x \in 1 .. Len(s), NEW v \in Values
    PROVE  Replacing(tab, s, [tab EXCEPT !.table[s[x]].v = v], x, v)
<1> DEFINE N == tab.size
           U == UsedOf(tab)
           n == s[x]
           T == [0 .. N - 1 -> Entries(N)]
           put == [tab.table EXCEPT ![n] = [tab.table[n] EXCEPT !.v = v]]
           new == [tab EXCEPT !.table[n].v = v]
<1>1. /\ TShape(tab) /\ N \in Nat \ {0} /\ tab.count = Len(s) /\ Len(s) \in Nat
      /\ Listed(N, U, tab.head, tab.tail, NextOf(tab), PrevOf(tab), s)
      /\ Searchable(N, U, KeyOf(tab), ValueOf(tab), HeldOf(tab), WayOf(tab))
  BY ShapeFits, MembersFit DEF Good
<1>2. /\ s \in Seq(0 .. N - 1) /\ U \subseteq 0 .. N - 1
      /\ \A i \in 1 .. Len(s) : s[i] \in U /\ s[i] \in 0 .. N - 1
      /\ \A i, j \in 1 .. Len(s) : s[i] = s[j] => i = j
  BY <1>1 DEF Listed
<1>3. n \in U /\ n \in 0 .. N - 1
  BY <1>2
<1> HIDE DEF n
<1>4. tab.table \in T /\ tab \in Tables(T) /\ tab.table[n] \in Entries(N)
  BY <1>1, <1>3, ShapeFits DEF TShape
<1>5. LET e == [tab.table[n] EXCEPT !.v = v]
      IN  /\ e \in Entries(N) /\ e.k = tab.table[n].k /\ e.v = v
          /\ e.next = tab.table[n].next /\ e.prev = tab.table[n].prev
  BY <1>4 DEF Entries
<1>6. put \in T /\ \A m \in 0 .. N - 1 :
                     /\ put[m].k = tab.table[m].k /\ put[m].v = IF m = n THEN v ELSE tab.table[m].v
                     /\ put[m].next = tab.table[m].next /\ put[m].prev = tab.table[m].prev
  <2>1. put \in T
    BY <1>4, <1>5
  <2>2. put[n] = [tab.table[n] EXCEPT !.v = v]
    BY <1>3, <1>4
  <2>3. \A m \in 0 .. N - 1 : m # n => put[m] = tab.table[m]
    BY <1>4
  <2> HIDE DEF put
  <2> QED
    BY <1>5, <2>1, <2>2, <2>3
<1>7. new = [tab EXCEPT !.table = put]
  BY <1>4 DEF Tables
<1> HIDE DEF put, new, T
<1>8. /\ new \in Tables(T) /\ new.size = N /\ new.count = tab.count
      /\ new.head = tab.head /\ new.tail = tab.tail /\ new.table = put
  BY <1>4, <1>6, <1>7 DEF Tables
<1>9. TShape(new)
  BY <1>8 DEF TShape, T
<1>10. /\ UsedOf(new) = U /\ HeldOf(new) = HeldOf(tab) /\ KeyOf(new) = KeyOf(tab)
       /\ NextOf(new) = NextOf(tab) /\ PrevOf(new) = PrevOf(tab) /\ WayOf(new) = WayOf(tab)
  BY <1>6, <1>8 DEF UsedOf, HeldOf, KeyOf, NextOf, PrevOf, WayOf, Table!Probed
<1>11. \A m \in 0 .. N - 1 : ValueOf(new)[m] = IF m = n THEN v ELSE ValueOf(tab)[m]
  BY <1>6, <1>8 DEF ValueOf
<1>12. Searchable(N, U, KeyOf(new), ValueOf(new), HeldOf(tab), WayOf(tab))
  <2>1. \A m \in U : ValueOf(tab)[m] \in Values
    BY <1>1 DEF Searchable, Named
  <2>2. \A m \in U : KeyOf(new)[m] = KeyOf(tab)[m] /\ ValueOf(new)[m] \in Values
    BY <1>2, <1>10, <1>11, <2>1
  <2>3. U \in SUBSET U
    OBVIOUS
  <2> QED
    BY <1>1, <2>2, <2>3, ReachLess
<1>13. Good(new, s)
  BY <1>1, <1>8, <1>9, <1>10, <1>12 DEF Good
<1>14. MembersBy(new, s) = [MembersBy(tab, s) EXCEPT ![x] = <<MembersBy(tab, s)[x][1], v>>]
  <2>1. \A i \in 1 .. Len(s) : s[i] = n => i = x
    BY <1>2 DEF n
  <2>2. s[x] = n
    BY DEF n
  <2>3. MembersBy(tab, s)[x][1] = KeyOf(tab)[n]
    BY <2>2 DEF MembersBy, Zipped
  <2>4. \A i \in 1 .. Len(s) :
           /\ KeyOf(new)[s[i]] = KeyOf(tab)[s[i]]
           /\ ValueOf(new)[s[i]] = IF i = x THEN v ELSE ValueOf(tab)[s[i]]
    BY <1>2, <1>10, <1>11, <2>1, <2>2
  <2> QED
    BY <2>2, <2>3, <2>4 DEF MembersBy, Zipped
<1> QED
  BY <1>13, <1>14 DEF Replacing, new, n

-----------------------------------------------------------------------------
Holding(M, w) == {i \in 1 .. Len(M) : M[i][2] = w}
CountIn(M, w) == Cardinality(Holding(M, w))

(* A count of members is a number, at most as large as they are many.      *)
LEMMA Counted ==
    ASSUME NEW M, Len(M) \in Nat, NEW w
    PROVE  /\ IsFiniteSet(Holding(M, w)) /\ CountIn(M, w) \in Nat /\ CountIn(M, w) <= Len(M)
<1>1. IsFiniteSet(1 .. Len(M)) /\ Cardinality(1 .. Len(M)) = Len(M)
  <2>1. 1 \in Int /\ Len(M) \in Int
    OBVIOUS
  <2>2. /\ IsFiniteSet(1 .. Len(M))
        /\ Cardinality(1 .. Len(M)) = IF 1 > Len(M) THEN 0 ELSE Len(M) - 1 + 1
    BY <2>1, FS_Interval
  <2> QED
    BY <2>2
<1>2. Holding(M, w) \subseteq 1 .. Len(M)
  BY DEF Holding
<1>3. IsFiniteSet(Holding(M, w)) /\ Cardinality(Holding(M, w)) <= Len(M)
  BY <1>1, <1>2, FS_Subset
<1> QED
  BY <1>3, FS_CardinalityType DEF CountIn

(* No member holds a value in an empty object.                             *)
LEMMA CountNone ==
    ASSUME NEW w
    PROVE  CountIn(<<>>, w) = 0
<1>1. Holding(<<>>, w) = {}
  BY DEF Holding
<1> QED
  BY <1>1, FS_EmptySet DEF CountIn

(* A further member counts for its value.                                  *)
LEMMA CountMore ==
    ASSUME NEW S, NEW M \in Seq(S), NEW e \in S, NEW w
    PROVE  CountIn(Append(M, e), w) = CountIn(M, w) + IF w = e[2] THEN 1 ELSE 0
<1> DEFINE L == Len(M)
           A == Append(M, e)
<1>1. L \in Nat
  BY LenProperties
<1>2. /\ Len(A) = L + 1 /\ A[L + 1] = e
      /\ \A i \in 1 .. L : A[i] = M[i]
  BY AppendProperties
<1>3. /\ \A i \in 1 .. L + 1 : i = L + 1 \/ i \in 1 .. L
      /\ \A i \in 1 .. L : i \in 1 .. L + 1 /\ i # L + 1
      /\ L + 1 \in 1 .. L + 1
  BY <1>1
<1> HIDE DEF A
<1>4. Holding(A, w) = Holding(M, w) \cup (IF w = e[2] THEN {L + 1} ELSE {})
  <2> HIDE DEF L
  <2>1. Holding(M, w) = {i \in 1 .. L : M[i][2] = w}
    BY DEF Holding, L
  <2> QED
    BY <1>2, <1>3, <2>1 DEF Holding
<1>5. L + 1 \notin Holding(M, w)
  BY <1>3 DEF Holding
<1>6. IsFiniteSet(Holding(M, w)) /\ Cardinality(Holding(M, w)) \in Nat
  BY <1>1, Counted DEF CountIn
<1>7. CASE w = e[2]
  <2>1. Cardinality(Holding(M, w) \cup {L + 1}) = Cardinality(Holding(M, w)) + 1
    BY <1>5, <1>6, FS_AddElement
  <2> QED
    BY <1>4, <1>7, <2>1 DEF CountIn, A
<1>8. CASE w # e[2]
  <2>1. Holding(A, w) = Holding(M, w)
    BY <1>4, <1>8
  <2> QED
    BY <1>6, <1>8, <2>1 DEF CountIn, A
<1> QED
  BY <1>7, <1>8

(* A member less counts no more for its value.                             *)
LEMMA CountLess ==
    ASSUME NEW S, NEW M \in Seq(S), NEW x \in 1 .. Len(M), NEW w
    PROVE  CountIn(Without(M, x), w) = CountIn(M, w) - IF w = M[x][2] THEN 1 ELSE 0
<1> DEFINE L == Len(M)
           Z == Without(M, x)
           P == Holding(M, w) \ {x}
           Q == Holding(Z, w)
           f == [i \in Q |-> IF i < x THEN i ELSE i + 1]
<1>1. L \in Nat /\ x \in 1 .. L
  BY LenProperties
<1>2. /\ Len(Z) = L - 1
      /\ \A i \in 1 .. L - 1 : Z[i] = IF i < x THEN M[i] ELSE M[i + 1]
  BY WithoutProperties
<1> HIDE DEF L, Z
<1>3. /\ Q = {i \in 1 .. L - 1 : Z[i][2] = w}
      /\ P = {i \in 1 .. L : i # x /\ M[i][2] = w}
  BY <1>2 DEF Holding, L
<1>4. f \in Bijection(Q, P)
  <2>1. ASSUME NEW i \in Q PROVE f[i] \in P
    <3>1. i \in 1 .. L - 1 /\ Z[i][2] = w
      BY <1>3
    <3>2. CASE i < x
      <4>1. i \in 1 .. L /\ i # x /\ f[i] = i
        BY <1>1, <3>1, <3>2
      <4>2. Z[i] = M[i]
        BY <1>2, <3>1, <3>2
      <4> QED
        BY <1>3, <3>1, <4>1, <4>2
    <3>3. CASE ~(i < x)
      <4>1. i + 1 \in 1 .. L /\ i + 1 # x /\ f[i] = i + 1
        BY <1>1, <3>1, <3>3
      <4>2. Z[i] = M[i + 1]
        BY <1>2, <3>1, <3>3
      <4> QED
        BY <1>3, <3>1, <4>1, <4>2
    <3> QED
      BY <3>2, <3>3
  <2>2. ASSUME NEW i \in Q, NEW j \in Q, f[i] = f[j] PROVE i = j
    <3>1. i \in Int /\ j \in Int
      BY <1>1, <1>3
    <3> QED
      BY <1>1, <2>2, <3>1
  <2>3. ASSUME NEW m \in P PROVE \E i \in Q : f[i] = m
    <3>1. m \in 1 .. L /\ m # x /\ M[m][2] = w
      BY <1>3
    <3>2. CASE m < x
      <4>1. m \in 1 .. L - 1 /\ Z[m] = M[m]
        BY <1>1, <1>2, <3>1, <3>2
      <4>2. m \in Q /\ f[m] = m
        BY <1>3, <3>1, <3>2, <4>1
      <4> QED
        BY <4>2
    <3>3. CASE ~(m < x)
      <4>1. m - 1 \in 1 .. L - 1 /\ ~(m - 1 < x) /\ m - 1 + 1 = m
        BY <1>1, <3>1, <3>3
      <4>2. Z[m - 1] = M[m]
        BY <1>2, <4>1
      <4>3. m - 1 \in Q
        BY <1>3, <3>1, <4>1, <4>2
      <4>4. f[m - 1] = m
        BY <4>1, <4>3
      <4> QED
        BY <4>3, <4>4
    <3> QED
      BY <3>2, <3>3
  <2>4. f = [i \in Q |-> f[i]]
    OBVIOUS
  <2> HIDE DEF f, P, Q
  <2>5. f \in [Q -> P]
    BY <2>1, <2>4
  <2> QED
    BY <2>2, <2>3, <2>5 DEF Bijection, Injection, IsInjective, Surjection
<1>5. IsFiniteSet(Holding(M, w)) /\ Cardinality(Holding(M, w)) \in Nat
  BY <1>1, Counted DEF CountIn, L
<1> HIDE DEF f
<1>6. IsFiniteSet(P) /\ Cardinality(P) = Cardinality(Holding(M, w)) - IF w = M[x][2] THEN 1 ELSE 0
  <2>1. CASE w = M[x][2]
    <3>1. x \in Holding(M, w)
      BY <2>1 DEF Holding
    <3> QED
      BY <1>5, <2>1, <3>1, FS_RemoveElement
  <2>2. CASE w # M[x][2]
    <3>1. P = Holding(M, w)
      BY <2>2 DEF Holding
    <3> HIDE DEF P
    <3>2. IsFiniteSet(P) /\ Cardinality(P) = Cardinality(Holding(M, w))
      BY <1>5, <3>1
    <3>3. Cardinality(Holding(M, w)) = Cardinality(Holding(M, w)) - 0
      BY <1>5
    <3> QED
      BY <2>2, <3>2, <3>3
  <2> QED
    BY <2>1, <2>2
<1>7. IsFiniteSet(Q) /\ Cardinality(Q) = Cardinality(P)
  <2> HIDE DEF P, Q
  <2>1. ExistsBijection(Q, P)
    BY <1>4, Zenon DEF ExistsBijection
  <2>2. IsFiniteSet(Q)
    <3>1. Q \subseteq 1 .. L - 1
      BY <1>3
    <3>2. IsFiniteSet(1 .. L - 1)
      <4>1. 1 \in Int /\ L - 1 \in Int
        BY <1>1
      <4> QED
        BY <4>1, FS_Interval
    <3> QED
      BY <3>1, <3>2, FS_Subset
  <2> QED
    BY <2>1, <2>2, FS_Bijection
<1> QED
  BY <1>6, <1>7 DEF CountIn, Z

(* A member in the place of another counts in its stead.                   *)
LEMMA CountOther ==
    ASSUME NEW S, NEW M \in Seq(S), NEW x \in 1 .. Len(M), NEW e \in S, NEW w
    PROVE  CountIn([M EXCEPT ![x] = e], w) =
           CountIn(M, w) + (IF w = e[2] THEN 1 ELSE 0) - IF w = M[x][2] THEN 1 ELSE 0
<1> DEFINE Z == [M EXCEPT ![x] = e]
           P == Holding(M, w) \ {x}
<1>1. Len(M) \in Nat /\ DOMAIN M = 1 .. Len(M) /\ M \in [1 .. Len(M) -> S]
  BY LenProperties
<1>2. /\ Len(Z) = Len(M) /\ Z[x] = e
      /\ \A i \in 1 .. Len(M) : i # x => Z[i] = M[i]
  <2>1. Z \in [1 .. Len(M) -> S]
    BY <1>1
  <2>2. Len(Z) = Len(M)
    BY <1>1, <2>1, ASeq
  <2> QED
    BY <1>1, <2>2
<1> HIDE DEF Z
<1>3. /\ Holding(Z, w) = P \cup (IF w = e[2] THEN {x} ELSE {})
      /\ Holding(M, w) = P \cup (IF w = M[x][2] THEN {x} ELSE {})
      /\ x \notin P
  BY <1>2 DEF Holding
<1>4. IsFiniteSet(P) /\ Cardinality(P) \in Nat
  <2>1. IsFiniteSet(Holding(M, w))
    BY <1>1, Counted
  <2>2. P \subseteq Holding(M, w)
    OBVIOUS
  <2>3. IsFiniteSet(P)
    BY <2>1, <2>2, FS_Subset
  <2> QED
    BY <2>3, FS_CardinalityType
<1> HIDE DEF P
<1>5. Cardinality(P \cup {x}) = Cardinality(P) + 1 /\ P \cup {} = P
  BY <1>3, <1>4, FS_AddElement
<1>6. CountIn(Z, w) = Cardinality(P) + IF w = e[2] THEN 1 ELSE 0
  <2>1. CASE w = e[2]
    BY <1>3, <1>5, <2>1 DEF CountIn
  <2>2. CASE w # e[2]
    BY <1>3, <1>4, <1>5, <2>2 DEF CountIn
  <2> QED
    BY <2>1, <2>2
<1>7. CountIn(M, w) = Cardinality(P) + IF w = M[x][2] THEN 1 ELSE 0
  <2>1. CASE w = M[x][2]
    BY <1>3, <1>5, <2>1 DEF CountIn
  <2>2. CASE w # M[x][2]
    BY <1>3, <1>4, <1>5, <2>2 DEF CountIn
  <2> QED
    BY <2>1, <2>2
<1> QED
  BY <1>4, <1>6, <1>7 DEF Z

(* The references counted over the nodes.                                  *)
LEMMA CountNodes ==
    ASSUME NEW tab, NEW s, Good(tab, s), NEW w
    PROVE  Cardinality(NodesWith(UsedOf(tab), ValueOf(tab), w)) = CountIn(MembersBy(tab, s), w)
<1>1. Listed(tab.size, UsedOf(tab), tab.head, tab.tail, NextOf(tab), PrevOf(tab), s)
  BY DEF Good
<1>2. Cardinality(NodesWith(UsedOf(tab), ValueOf(tab), w)) =
      Cardinality(PlacesWith(s, ValueOf(tab), w))
  BY <1>1, CountPlaces
<1>3. Holding(MembersBy(tab, s), w) = PlacesWith(s, ValueOf(tab), w)
  BY MembersFit DEF Holding, PlacesWith
<1> QED
  BY <1>2, <1>3 DEF CountIn

-----------------------------------------------------------------------------

(* LinkHash counts as this module does.                                    *)
LEMMA SameCardinality ==
    ASSUME NEW S
    PROVE  Table!Cardinality(S) = Cardinality(S)
  BY DEF Table!Cardinality, Cardinality

(* What the object holds is what its members need.                         *)
KeysIn(M) == {M[i][1] : i \in 1 .. Len(M)}
Holds(M, r, h) == r = [w \in Values |-> CountIn(M, w)] /\ h = KeysIn(M)
Distinct(M) ==
    M \in Seq(Keys \X Values) /\ \A i, j \in 1 .. Len(M) : M[i][1] = M[j][1] => i = j

(* The members of an object have different keys.                           *)
LEMMA MembersDistinct ==
    ASSUME NEW tab, NEW s, Good(tab, s)
    PROVE  Distinct(MembersBy(tab, s))
<1>1. /\ \A i \in 1 .. Len(s) : s[i] \in UsedOf(tab)
      /\ \A i, j \in 1 .. Len(s) : s[i] = s[j] => i = j
  <2>1. Listed(tab.size, UsedOf(tab), tab.head, tab.tail, NextOf(tab), PrevOf(tab), s)
    BY DEF Good
  <2> QED
    BY <2>1 DEF Listed
<1>2. \A m, n \in UsedOf(tab) : KeyOf(tab)[m] = KeyOf(tab)[n] => m = n
  BY DEF Good, Searchable, Named
<1>3. /\ MembersBy(tab, s) \in Seq(Keys \X Values) /\ Len(MembersBy(tab, s)) = Len(s)
      /\ \A i \in 1 .. Len(s) : MembersBy(tab, s)[i][1] = KeyOf(tab)[s[i]]
  BY MembersFit
<1> QED
  BY <1>1, <1>2, <1>3 DEF Distinct

(* An empty object holds nothing.                                          *)
LEMMA HoldNothing == Holds(<<>>, [w \in Values |-> 0], {})
<1>1. KeysIn(<<>>) = {}
  BY DEF KeysIn
<1> QED
  BY <1>1, CountNone DEF Holds

(* An added member is held by one reference and one copy of its key.       *)
LEMMA HoldMore ==
    ASSUME NEW M, NEW r, NEW h, Distinct(M), Holds(M, r, h), NEW k \in Keys, NEW v \in Values
    PROVE  Holds(Append(M, <<k, v>>), [r EXCEPT ![v] = r[v] + 1], h \cup {k})
<1> DEFINE A == Append(M, <<k, v>>)
<1>1. M \in Seq(Keys \X Values) /\ Len(M) \in Nat /\ <<k, v>> \in Keys \X Values
  BY LenProperties DEF Distinct
<1>2. /\ Len(A) = Len(M) + 1 /\ A[Len(M) + 1] = <<k, v>>
      /\ \A i \in 1 .. Len(M) : A[i] = M[i]
  BY <1>1, AppendProperties
<1>3. \A w \in Values : CountIn(A, w) = CountIn(M, w) + IF w = v THEN 1 ELSE 0
  <2>1. <<k, v>>[2] = v
    OBVIOUS
  <2> QED
    BY <1>1, <2>1, CountMore
<1>4. \A w \in Values : r[w] = CountIn(M, w) /\ CountIn(M, w) \in Nat
  BY <1>1, Counted DEF Holds
<1>5. [r EXCEPT ![v] = r[v] + 1] = [w \in Values |-> CountIn(A, w)]
  BY <1>3, <1>4 DEF Holds
<1>6. KeysIn(A) = KeysIn(M) \cup {k}
  <2>1. /\ \A i \in 1 .. Len(M) + 1 : i = Len(M) + 1 \/ i \in 1 .. Len(M)
        /\ \A i \in 1 .. Len(M) : i \in 1 .. Len(M) + 1
        /\ Len(M) + 1 \in 1 .. Len(M) + 1
    BY <1>1
  <2>2. A[Len(M) + 1][1] = k
    BY <1>2
  <2> HIDE DEF A
  <2> QED
    BY <1>2, <2>1, <2>2 DEF KeysIn
<1> QED
  BY <1>5, <1>6 DEF Holds

(* A replaced value is put, and the new one held.                          *)
LEMMA HoldOther ==
    ASSUME NEW M, NEW h, Distinct(M), Holds(M, refs, h), NEW x \in 1 .. Len(M), NEW v \in Values
    PROVE  Holds([M EXCEPT ![x] = <<M[x][1], v>>], Table!Replaced(v, M[x][2]), h)
<1> DEFINE e == <<M[x][1], v>>
           Z == [M EXCEPT ![x] = e]
<1>1. /\ M \in Seq(Keys \X Values) /\ Len(M) \in Nat /\ e \in Keys \X Values /\ e[2] = v
      /\ e[1] = M[x][1]
  BY LenProperties, ElementOfSeq DEF Distinct
<1> HIDE DEF e
<1>2. /\ Len(Z) = Len(M) /\ Z[x] = e
      /\ \A i \in 1 .. Len(M) : i # x => Z[i] = M[i]
  <2>1. M \in [1 .. Len(M) -> Keys \X Values]
    BY <1>1, LenProperties
  <2>2. Z \in [1 .. Len(M) -> Keys \X Values]
    BY <1>1, <2>1
  <2>3. Len(Z) = Len(M)
    BY <1>1, <2>2, ASeq
  <2> QED
    BY <2>1, <2>3
<1>3. \A w \in Values : CountIn(Z, w) = CountIn(M, w) + (IF w = v THEN 1 ELSE 0)
                                                      - (IF w = M[x][2] THEN 1 ELSE 0)
  BY <1>1, CountOther
<1>4. \A w \in Values : refs[w] = CountIn(M, w) /\ CountIn(M, w) \in Nat
  BY <1>1, Counted DEF Holds
<1> HIDE DEF Z
<1>5. Table!Replaced(v, M[x][2]) = [w \in Values |-> CountIn(Z, w)]
  BY <1>3, <1>4 DEF Table!Replaced
<1>6. KeysIn(Z) = KeysIn(M)
  BY <1>1, <1>2 DEF KeysIn
<1> QED
  BY <1>5, <1>6 DEF Holds, Z, e

(* A deleted member is put and its key freed.                              *)
LEMMA HoldLess ==
    ASSUME NEW M, NEW r, NEW h, Distinct(M), Holds(M, r, h), NEW x \in 1 .. Len(M),
           NEW g, \A w \in Values : g[w] = IF w = M[x][2] THEN 1 ELSE 0
    PROVE  Holds(Without(M, x), [w \in Values |-> r[w] - g[w]], h \ {M[x][1]})
<1> DEFINE Z == Without(M, x)
<1>1. M \in Seq(Keys \X Values) /\ Len(M) \in Nat /\ x \in 1 .. Len(M)
  BY LenProperties DEF Distinct
<1>2. /\ Len(Z) = Len(M) - 1
      /\ \A i \in 1 .. Len(M) - 1 : Z[i] = IF i < x THEN M[i] ELSE M[i + 1]
  BY <1>1, WithoutProperties
<1>3. \A w \in Values : CountIn(Z, w) = CountIn(M, w) - IF w = M[x][2] THEN 1 ELSE 0
  BY <1>1, CountLess
<1>4. \A w \in Values : r[w] = CountIn(M, w) /\ CountIn(M, w) \in Nat
  BY <1>1, Counted DEF Holds
<1> HIDE DEF Z
<1>5. [w \in Values |-> r[w] - g[w]] = [w \in Values |-> CountIn(Z, w)]
  BY <1>3, <1>4
<1>6. KeysIn(Z) = KeysIn(M) \ {M[x][1]}
  <2>1. ASSUME NEW i \in 1 .. Len(M) - 1
        PROVE  Z[i][1] \in KeysIn(M) /\ Z[i][1] # M[x][1]
    <3>1. CASE i < x
      <4>1. i \in 1 .. Len(M) /\ i # x /\ Z[i] = M[i]
        BY <1>1, <1>2, <3>1
      <4> QED
        BY <1>1, <4>1 DEF Distinct, KeysIn
    <3>2. CASE ~(i < x)
      <4>1. i + 1 \in 1 .. Len(M) /\ i + 1 # x /\ Z[i] = M[i + 1]
        BY <1>1, <1>2, <3>2
      <4> QED
        BY <1>1, <4>1 DEF Distinct, KeysIn
    <3> QED
      BY <3>1, <3>2
  <2>2. ASSUME NEW j \in 1 .. Len(M), j # x PROVE \E i \in 1 .. Len(M) - 1 : Z[i] = M[j]
    <3>1. CASE j < x
      <4>1. j \in 1 .. Len(M) - 1
        BY <1>1, <3>1
      <4> QED
        BY <1>2, <3>1, <4>1
    <3>2. CASE ~(j < x)
      <4>1. j - 1 \in 1 .. Len(M) - 1 /\ ~(j - 1 < x) /\ j - 1 + 1 = j
        BY <1>1, <2>2, <3>2
      <4> QED
        BY <1>2, <4>1
    <3> QED
      BY <3>1, <3>2
  <2>3. KeysIn(Z) = {Z[i][1] : i \in 1 .. Len(M) - 1}
    BY <1>2 DEF KeysIn
  <2>4. KeysIn(Z) \subseteq KeysIn(M) \ {M[x][1]}
    BY <2>1, <2>3
  <2>5. ASSUME NEW k \in KeysIn(M) \ {M[x][1]} PROVE k \in KeysIn(Z)
    <3>1. PICK j \in 1 .. Len(M) : k = M[j][1]
      BY DEF KeysIn
    <3>2. j # x
      BY <3>1
    <3> QED
      BY <2>2, <2>3, <3>1, <3>2
  <2> QED
    BY <2>4, <2>5
<1> QED
  BY <1>5, <1>6 DEF Holds, Z

-----------------------------------------------------------------------------
(* The inductive invariant: for some order of its entries the table is     *)
(* sound, and the object holds what those entries name.  By that order both*)
(* the list and what is held are followed through a step.                  *)
TableInv ==
    /\ Hashing /\ badFree = FALSE /\ deleted \in BOOLEAN
    /\ \E s : Good(t, s) /\ Holds(MembersBy(t, s), refs, heap)

(* The members of LinkHash are the pairs in the order of the list.         *)
LEMMA MembersAre ==
    ASSUME NEW s, Good(t, s)
    PROVE  Table!Members = MembersBy(t, s)
<1>1. Table!EntriesOf(t) = s
  BY EntriesIs
<1>2. DOMAIN s = 1 .. Len(s) /\ \A i \in 1 .. Len(s) : s[i] \in 0 .. t.size - 1
  <2>1. Listed(t.size, UsedOf(t), t.head, t.tail, NextOf(t), PrevOf(t), s)
    BY DEF Good
  <2> QED
    BY <2>1, ListEnds
<1> QED
  BY <1>1, <1>2 DEF Table!Members, MembersBy, Zipped, KeyOf, ValueOf

(* They are so after a step too.                                           *)
LEMMA MembersWillBe ==
    ASSUME NEW s, Good(t', s)
    PROVE  Table!Members' = MembersBy(t', s)
<1>1. Table!EntriesOf(t') = s
  BY EntriesIs
<1>2. DOMAIN s = 1 .. Len(s) /\ \A i \in 1 .. Len(s) : s[i] \in 0 .. t'.size - 1
  <2>1. Listed(t'.size, UsedOf(t'), t'.head, t'.tail, NextOf(t'), PrevOf(t'), s)
    BY DEF Good
  <2> QED
    BY <2>1, ListEnds
<1> QED
  BY <1>1, <1>2 DEF Table!Members, MembersBy, Zipped, KeyOf, ValueOf

(* The place of an entry in the list.                                      *)
LEMMA PlaceOf ==
    ASSUME NEW tab, NEW s, Good(tab, s), NEW n \in UsedOf(tab)
    PROVE  \E x \in 1 .. Len(s) :
              /\ s[x] = n /\ x \in 1 .. Len(MembersBy(tab, s))
              /\ MembersBy(tab, s)[x][1] = tab.table[n].k
              /\ MembersBy(tab, s)[x][2] = tab.table[n].v
<1>1. PICK x \in 1 .. Len(s) : s[x] = n
  <2>1. Listed(tab.size, UsedOf(tab), tab.head, tab.tail, NextOf(tab), PrevOf(tab), s)
    BY DEF Good
  <2> QED
    BY <2>1 DEF Listed
<1>2. KeyOf(tab)[n] = tab.table[n].k /\ ValueOf(tab)[n] = tab.table[n].v
  BY DEF KeyOf, ValueOf, UsedOf
<1>3. /\ Len(MembersBy(tab, s)) = Len(s)
      /\ MembersBy(tab, s)[x] = <<KeyOf(tab)[s[x]], ValueOf(tab)[s[x]]>>
  BY MembersFit
<1> QED
  BY <1>1, <1>2, <1>3

(* The members M after k was given the value v, as OrderedMap says.        *)
Added(M, k, v) ==
    IF k \in KeysIn(M) THEN [i \in DOMAIN M |-> IF M[i][1] = k THEN <<k, v>> ELSE M[i]]
    ELSE Append(M, <<k, v>>)

(* The members are as M says, after a step.                                *)
Becomes(M, z) == Good(t', z) /\ MembersBy(t', z) = M /\ Holds(M, refs', heap')

(* json_object_object_add_ex replaces the value of a key, or adds a member *)
(* behind the others.                                                      *)
LEMMA AddStep ==
    ASSUME TableInv, NEW k \in Keys, NEW v \in Values, NEW isNew \in BOOLEAN,
           Table!Add(k, v, isNew), NEW s, Good(t, s), Holds(MembersBy(t, s), refs, heap)
    PROVE  \E z : Becomes(Added(MembersBy(t, s), k, v), z)
<1> DEFINE M == MembersBy(t, s)
           n == IF isNew THEN -1 ELSE Table!Lookup(t, k)
<1>1. /\ isNew => Table!Lookup(t, k) = -1
      /\ n = -1 => /\ t' = Table!Insert(t, k, v, k \in {})
                   /\ heap' = heap \cup {k}
                   /\ refs' = [refs EXCEPT ![v] = refs[v] + 1]
      /\ n # -1 => /\ t' = [t EXCEPT !.table[n].v = v]
                   /\ refs' = Table!Replaced(v, t.table[n].v)
                   /\ heap' = heap
  BY DEF Table!Add, Table!NULL
<1>2. n = Table!Lookup(t, k)
  BY <1>1
<1>3. Hashing
  BY DEF TableInv
<1>4. Distinct(M)
  BY MembersDistinct
<1>5. \/ n \in UsedOf(t) /\ KeyOf(t)[n] = k
      \/ n = -1 /\ \A m \in UsedOf(t) : KeyOf(t)[m] # k
  BY <1>2, <1>3, LookupFinds
<1> HIDE DEF n
<1>6. CASE n \in UsedOf(t) /\ KeyOf(t)[n] = k
  <2>1. n # -1 /\ t.table[n].k = k
    BY <1>6 DEF UsedOf, KeyOf
  <2>2. PICK x \in 1 .. Len(s) :
               /\ s[x] = n /\ x \in 1 .. Len(M)
               /\ M[x][1] = t.table[n].k /\ M[x][2] = t.table[n].v
    BY <1>6, PlaceOf
  <2>3. Replacing(t, s, [t EXCEPT !.table[s[x]].v = v], x, v)
    BY <1>3, ReplaceGood
  <2>4. Good(t', s) /\ MembersBy(t', s) = [M EXCEPT ![x] = <<M[x][1], v>>]
    <3>1. t' = [t EXCEPT !.table[s[x]].v = v]
      BY <1>1, <2>1, <2>2
    <3> QED
      BY <2>3, <3>1, Zenon DEF Replacing
  <2> HIDE DEF M
  <2>5. Holds([M EXCEPT ![x] = <<M[x][1], v>>], refs', heap')
    <3>1. Holds(M, refs, heap)
      BY DEF M
    <3>2. Holds([M EXCEPT ![x] = <<M[x][1], v>>], Table!Replaced(v, M[x][2]), heap)
      BY <1>4, <2>2, <3>1, HoldOther
    <3> QED
      BY <1>1, <2>1, <2>2, <3>2
  <2>6. [M EXCEPT ![x] = <<M[x][1], v>>] = Added(M, k, v)
    <3>1. DOMAIN M = 1 .. Len(M)
      BY <1>4, LenProperties DEF Distinct
    <3>2. \A i \in 1 .. Len(M) : M[i][1] = k <=> i = x
      BY <1>4, <2>1, <2>2 DEF Distinct
    <3>3. k \in KeysIn(M) /\ M[x][1] = k
      BY <2>1, <2>2 DEF KeysIn
    <3>4. Added(M, k, v) = [i \in 1 .. Len(M) |-> IF i = x THEN <<k, v>> ELSE M[i]]
      BY <3>1, <3>2, <3>3 DEF Added
    <3> QED
      BY <3>1, <3>3, <3>4
  <2>7. Becomes(Added(M, k, v), s)
    BY <2>4, <2>5, <2>6, Zenon DEF Becomes
  <2> QED
    BY <2>7 DEF M
<1>7. CASE n = -1 /\ \A m \in UsedOf(t) : KeyOf(t)[m] # k
  <2>1. Unnamed(M, k)
    BY <1>7, KeysOfMembers
  <2>2. PICK z : Grown(t, s, Table!Insert(t, k, v, FALSE), k, v, z)
    BY <1>3, <2>1, InsertGood
  <2>3. t' = Table!Insert(t, k, v, FALSE)
    <3>1. (k \in {}) = FALSE
      OBVIOUS
    <3>2. t' = Table!Insert(t, k, v, k \in {})
      BY <1>1, <1>7
    <3> QED
      BY <3>1, <3>2
  <2>4. Good(t', z) /\ MembersBy(t', z) = Append(M, <<k, v>>)
    BY <2>2, <2>3, Zenon DEF Grown
  <2>5. Holds(Append(M, <<k, v>>), refs', heap')
    <3> HIDE DEF M
    <3>1. Holds(M, refs, heap)
      BY DEF M
    <3>2. Holds(Append(M, <<k, v>>), [refs EXCEPT ![v] = refs[v] + 1], heap \cup {k})
      BY <1>4, <3>1, HoldMore
    <3> QED
      BY <1>1, <1>7, <3>2
  <2> HIDE DEF M
  <2>6. Added(M, k, v) = Append(M, <<k, v>>)
    BY <2>1 DEF Unnamed, KeysIn, Added
  <2>7. Becomes(Added(M, k, v), z)
    BY <2>4, <2>5, <2>6, Zenon DEF Becomes
  <2> QED
    BY <2>7 DEF M
<1> QED
  BY <1>5, <1>6, <1>7

-----------------------------------------------------------------------------
(* What freeing entries does, as none of their keys is constant memory.    *)
LEMMA FreeChanges ==
    ASSUME NEW s, Good(t, s), NEW S \in SUBSET UsedOf(t), Table!FreeEntries(S)
    PROVE  /\ heap' = heap \ {t.table[n].k : n \in S}
           /\ badFree' = (badFree \/ ~({t.table[n].k : n \in S} \subseteq heap))
           /\ refs' = [w \in Values |-> refs[w] - Cardinality(NodesWith(S, ValueOf(t), w))]
<1>1. \A m \in S : t.table[m].k_is_constant = FALSE /\ ValueOf(t)[m] = t.table[m].v
  <2>1. TShape(t)
    BY DEF Good
  <2>2. \A m \in 0 .. t.size - 1 : t.table[m] \in Entries(t.size)
    BY <2>1, ShapeFits
  <2> QED
    BY <2>2 DEF Entries, UsedOf, ValueOf
<1>2. {m \in S : ~t.table[m].k_is_constant} = S
  BY <1>1
<1>3. ASSUME NEW w PROVE Table!Given(S, w) = Cardinality(NodesWith(S, ValueOf(t), w))
  <2>1. {n \in S : t.table[n].v = w} = NodesWith(S, ValueOf(t), w)
    BY <1>1 DEF NodesWith
  <2> QED
    BY <2>1, SameCardinality DEF Table!Given
<1> QED
  BY <1>2, <1>3 DEF Table!FreeEntries

(* json_object_object_del takes the member of a key out, and frees a key   *)
(* that it had copied.                                                     *)
LEMMA DelStep ==
    ASSUME TableInv, NEW k \in Keys, Table!Del(k),
           NEW s, Good(t, s), Holds(MembersBy(t, s), refs, heap)
    PROVE  /\ badFree' = FALSE
           /\ \E x \in DOMAIN MembersBy(t, s) :
                 /\ MembersBy(t, s)[x][1] = k
                 /\ \E z : Becomes(Without(MembersBy(t, s), x), z)
<1> DEFINE M == MembersBy(t, s)
           n == Table!Lookup(t, k)
<1>1. n # -1 /\ t' = Table!Unlink(t, n) /\ Table!FreeEntries({n})
  BY DEF Table!Del, Table!NULL
<1>2. Hashing /\ badFree = FALSE
  BY DEF TableInv
<1>3. Distinct(M)
  BY MembersDistinct
<1>4. n \in UsedOf(t) /\ KeyOf(t)[n] = k
  BY <1>1, <1>2, LookupFinds
<1> HIDE DEF n
<1>5. t.table[n].k = k /\ ValueOf(t)[n] = t.table[n].v
  BY <1>4 DEF UsedOf, KeyOf, ValueOf
<1>6. PICK x \in 1 .. Len(s) :
             /\ s[x] = n /\ x \in 1 .. Len(M)
             /\ M[x][1] = t.table[n].k /\ M[x][2] = t.table[n].v
  BY <1>4, PlaceOf
<1>7. Good(t', Without(s, x)) /\ MembersBy(t', Without(s, x)) = Without(M, x)
  <2>1. Shorter(t, s, Table!Unlink(t, s[x]), x)
    BY <1>2, UnlinkGood
  <2>2. t' = Table!Unlink(t, s[x])
    BY <1>1, <1>6
  <2> QED
    BY <2>1, <2>2, Zenon DEF Shorter
<1>8. /\ heap' = heap \ {k}
      /\ badFree' = (badFree \/ ~({k} \subseteq heap))
      /\ refs' = [w \in Values |-> refs[w] - Cardinality(NodesWith({n}, ValueOf(t), w))]
  <2>1. {n} \in SUBSET UsedOf(t)
    BY <1>4
  <2>2. {t.table[m].k : m \in {n}} = {k}
    BY <1>5
  <2> QED
    BY <1>1, <2>1, <2>2, FreeChanges
<1> HIDE DEF M
<1>9. Holds(M, refs, heap)
  BY DEF M
<1>10. k \in heap
  BY <1>5, <1>6, <1>9 DEF Holds, KeysIn
<1>11. Holds(Without(M, x), refs', heap')
  <2> DEFINE g == [w \in Values |-> Cardinality(NodesWith({n}, ValueOf(t), w))]
  <2>1. ASSUME NEW w \in Values PROVE g[w] = IF w = M[x][2] THEN 1 ELSE 0
    <3>1. CASE w = M[x][2]
      <4>1. NodesWith({n}, ValueOf(t), w) = {n}
        BY <1>5, <1>6, <3>1 DEF NodesWith
      <4> QED
        BY <3>1, <4>1, FS_Singleton
    <3>2. CASE w # M[x][2]
      <4>1. NodesWith({n}, ValueOf(t), w) = {}
        BY <1>5, <1>6, <3>2 DEF NodesWith
      <4> QED
        BY <3>2, <4>1, FS_EmptySet
    <3> QED
      BY <3>1, <3>2
  <2>2. refs' = [w \in Values |-> refs[w] - g[w]]
    BY <1>8
  <2> HIDE DEF g
  <2>3. Holds(Without(M, x), [w \in Values |-> refs[w] - g[w]], heap \ {M[x][1]})
    BY <1>3, <1>6, <1>9, <2>1, HoldLess
  <2> QED
    BY <1>5, <1>6, <1>8, <2>2, <2>3
<1>12. Becomes(Without(M, x), Without(s, x))
  BY <1>7, <1>11 DEF Becomes
<1>13. x \in DOMAIN M
  BY <1>3, <1>6, LenProperties DEF Distinct
<1> QED
  BY <1>2, <1>5, <1>6, <1>8, <1>10, <1>12, <1>13 DEF M

(* The keys of the entries in use are those of the members.                *)
LEMMA EntryKeys ==
    ASSUME NEW s, Good(t, s)
    PROVE  {t.table[m].k : m \in UsedOf(t)} = KeysIn(MembersBy(t, s))
<1> DEFINE M == MembersBy(t, s)
           U == UsedOf(t)
<1>1. \A m \in U : t.table[m].k \in KeysIn(M)
  <2> TAKE m \in U
  <2>1. PICK x \in 1 .. Len(s) : x \in 1 .. Len(M) /\ M[x][1] = t.table[m].k
    BY PlaceOf
  <2> HIDE DEF M
  <2> QED
    BY <2>1 DEF KeysIn
<1>2. ASSUME NEW i \in 1 .. Len(M) PROVE \E m \in U : M[i][1] = t.table[m].k
  <2>1. i \in 1 .. Len(s) /\ M[i] = <<KeyOf(t)[s[i]], ValueOf(t)[s[i]]>>
    BY MembersFit
  <2>2. s[i] \in U
    BY <2>1 DEF Good, Listed
  <2> QED
    BY <2>1, <2>2 DEF KeyOf, UsedOf
<1> HIDE DEF M
<1> QED
  BY <1>1, <1>2 DEF KeysIn, M

(* json_object_object_delete gives back all that the object held.          *)
LEMMA DeleteStep ==
    ASSUME TableInv, Table!Delete, NEW s, Good(t, s), Holds(MembersBy(t, s), refs, heap)
    PROVE  badFree' = FALSE /\ Becomes(<<>>, <<>>)
<1> DEFINE M == MembersBy(t, s)
           U == UsedOf(t)
<1>1. /\ t' = Table!NewTable(FirstSize)
      /\ Table!FreeEntries(Table!ToSet(Table!EntriesOf(t)))
  BY DEF Table!Delete
<1>2. Hashing /\ badFree = FALSE
  BY DEF TableInv
<1>3. Distinct(M)
  BY MembersDistinct
<1>4. Table!ToSet(Table!EntriesOf(t)) = U
  <2>1. Listed(t.size, U, t.head, t.tail, NextOf(t), PrevOf(t), s)
    BY DEF Good
  <2>2. DOMAIN s = 1 .. Len(s)
    BY <2>1, ListEnds
  <2>3. Table!EntriesOf(t) = s
    BY EntriesIs
  <2>4. {s[i] : i \in 1 .. Len(s)} = U
    <3>1. /\ \A i \in 1 .. Len(s) : s[i] \in U
          /\ \A m \in U : \E i \in 1 .. Len(s) : s[i] = m
      BY <2>1 DEF Listed
    <3> HIDE DEF U
    <3> QED
      BY <3>1
  <2> QED
    BY <2>2, <2>3, <2>4 DEF Table!ToSet
<1>5. {t.table[m].k : m \in U} = KeysIn(M)
  BY EntryKeys
<1>6. /\ heap' = heap \ KeysIn(M)
      /\ badFree' = (badFree \/ ~(KeysIn(M) \subseteq heap))
      /\ refs' = [w \in Values |-> refs[w] - Cardinality(NodesWith(U, ValueOf(t), w))]
  <2>1. Table!FreeEntries(U) /\ U \in SUBSET U
    BY <1>1, <1>4
  <2>2. /\ heap' = heap \ {t.table[n].k : n \in U}
        /\ badFree' = (badFree \/ ~({t.table[n].k : n \in U} \subseteq heap))
        /\ refs' = [w \in Values |-> refs[w] - Cardinality(NodesWith(U, ValueOf(t), w))]
    BY <2>1, FreeChanges
  <2> QED
    BY <1>5, <2>2
<1>7. \A w : Cardinality(NodesWith(U, ValueOf(t), w)) = CountIn(M, w) /\ CountIn(M, w) \in Nat
  <2>1. Len(M) \in Nat
    BY MembersFit
  <2> QED
    BY <2>1, CountNodes, Counted
<1> HIDE DEF M
<1>8. refs = [w \in Values |-> CountIn(M, w)] /\ heap = KeysIn(M)
  BY DEF Holds, M
<1>9. refs' = [w \in Values |-> 0] /\ heap' = {} /\ badFree' = FALSE
  <2>1. heap' = {}
    BY <1>6, <1>8
  <2>2. badFree' = FALSE
    <3>1. KeysIn(M) \subseteq heap
      BY <1>8
    <3> QED
      BY <1>2, <1>6, <3>1
  <2>3. \A w \in Values : refs[w] - Cardinality(NodesWith(U, ValueOf(t), w)) = 0
    BY <1>7, <1>8
  <2>4. refs' = [w \in Values |-> refs[w] - Cardinality(NodesWith(U, ValueOf(t), w))]
    BY <1>6
  <2> QED
    BY <2>1, <2>2, <2>3, <2>4
<1>10. Good(t', <<>>) /\ MembersBy(t', <<>>) = <<>>
  <2>1. FirstSize \in Nat \ {0}
    BY TableAssumption DEF Table!LinkHashAssumption
  <2> QED
    BY <1>1, <1>2, <2>1, NewGood
<1> QED
  BY <1>9, <1>10, HoldNothing DEF Becomes

-----------------------------------------------------------------------------

(* A new object is empty and holds nothing.                                *)
LEMMA StartInv ==
    ASSUME Table!Init
    PROVE  TableInv /\ Table!Members = <<>>
<1>1. /\ hash \in Hashes /\ t = Table!NewTable(FirstSize) /\ heap = {} /\ badFree = FALSE
      /\ refs = [v \in Values |-> 0] /\ deleted = FALSE
  BY DEF Table!Init
<1>2. Hashing /\ FirstSize \in Nat \ {0}
  BY <1>1, TableAssumption DEF Hashing, Table!LinkHashAssumption
<1>3. Good(t, <<>>) /\ MembersBy(t, <<>>) = <<>>
  BY <1>1, <1>2, NewGood
<1>4. Holds(MembersBy(t, <<>>), refs, heap)
  BY <1>1, <1>3, HoldNothing
<1>5. Table!Members = <<>>
  BY <1>3, MembersAre
<1> QED
  BY <1>1, <1>2, <1>3, <1>4, <1>5, Zenon DEF TableInv

(* What a step makes of the members decides the invariant and the map.     *)
LEMMA InvBecomes ==
    ASSUME Hashing, UNCHANGED hash, badFree' = FALSE, deleted' \in BOOLEAN,
           NEW M, NEW z, Becomes(M, z)
    PROVE  TableInv' /\ Table!Members' = M
<1>1. Good(t', z) /\ MembersBy(t', z) = M /\ Holds(M, refs', heap')
  BY DEF Becomes
<1>2. Good(t, z)'
  BY <1>1 DEF Good, WayOf
<1>3. Holds(MembersBy(t, z), refs, heap)'
  BY <1>1
<1>4. Hashing'
  BY DEF Hashing
<1>5. TableInv'
  BY <1>2, <1>3, <1>4 DEF TableInv
<1> QED
  BY <1>1, <1>5, MembersWillBe

-----------------------------------------------------------------------------
(* A step of the ordered map, or none.                                     *)
MapStep == Table!Map!Next(Keys, Values) \/ UNCHANGED Table!Members

(* Every step keeps the invariant, and is a step of the map or none.       *)
LEMMA StepInv ==
    ASSUME TableInv, [Table!Next]_(Table!vars)
    PROVE  TableInv' /\ MapStep
<1>1. PICK s : Good(t, s) /\ Holds(MembersBy(t, s), refs, heap)
  BY DEF TableInv
<1> DEFINE M == MembersBy(t, s)
<1>2. Table!Members = M
  BY <1>1, MembersAre
<1>3. Hashing /\ badFree = FALSE /\ deleted \in BOOLEAN
  BY DEF TableInv
<1>4. DOMAIN M = 1 .. Len(M)
  BY <1>1, MembersDistinct, LenProperties DEF Distinct
<1> HIDE DEF M
<1>5. CASE \E k \in Keys, v \in Values, isNew \in BOOLEAN : Table!Add(k, v, isNew)
  <2>1. PICK k \in Keys, v \in Values, isNew \in BOOLEAN : Table!Add(k, v, isNew)
    BY <1>5
  <2>2. PICK z : Becomes(Added(M, k, v), z)
    BY <1>1, <2>1, AddStep DEF M
  <2>3. UNCHANGED hash /\ badFree' = FALSE /\ deleted' \in BOOLEAN
    BY <1>3, <2>1 DEF Table!Add
  <2>4. TableInv' /\ Table!Members' = Added(M, k, v)
    BY <1>3, <2>2, <2>3, InvBecomes
  <2>5. Table!Map!Add(k, v)
    BY <1>2, <1>4, <2>4 DEF Table!Map!Add, Table!Map!KeysOf, Added, KeysIn
  <2>6. Table!Map!Next(Keys, Values)
    BY <2>5 DEF Table!Map!Next
  <2> QED
    BY <2>4, <2>6 DEF MapStep
<1>6. CASE \E k \in Keys : Table!Del(k)
  <2>1. PICK k \in Keys : Table!Del(k)
    BY <1>6
  <2>2. /\ badFree' = FALSE
        /\ \E x \in DOMAIN M : M[x][1] = k /\ \E z : Becomes(Without(M, x), z)
    BY <1>1, <2>1, DelStep DEF M
  <2>3. PICK x \in DOMAIN M : M[x][1] = k /\ \E z : Becomes(Without(M, x), z)
    BY <2>2
  <2>4. UNCHANGED hash /\ deleted' \in BOOLEAN
    BY <1>3, <2>1 DEF Table!Del
  <2>5. TableInv' /\ Table!Members' = Without(M, x)
    <3>1. PICK z : Becomes(Without(M, x), z)
      BY <2>3
    <3> QED
      BY <1>3, <2>2, <2>4, <3>1, InvBecomes
  <2>6. Table!Map!Del(k)
    BY <1>2, <2>3, <2>5 DEF Table!Map!Del, Table!Map!RemoveAt, Without
  <2>7. Table!Map!Next(Keys, Values)
    BY <2>6 DEF Table!Map!Next
  <2> QED
    BY <2>5, <2>7 DEF MapStep
<1>7. CASE Table!Delete
  <2>1. badFree' = FALSE /\ Becomes(<<>>, <<>>)
    BY <1>1, <1>7, DeleteStep
  <2>2. UNCHANGED hash /\ deleted' \in BOOLEAN
    BY <1>7 DEF Table!Delete
  <2>3. TableInv' /\ Table!Members' = <<>>
    BY <1>3, <2>1, <2>2, InvBecomes
  <2>4. Table!Map!Next(Keys, Values)
    BY <2>3 DEF Table!Map!Next, Table!Map!Delete
  <2> QED
    BY <2>3, <2>4 DEF MapStep
<1>8. CASE UNCHANGED Table!vars
  <2>1. UNCHANGED <<hash, t, heap, refs, badFree, deleted>>
    BY <1>8 DEF Table!vars
  <2>2. Becomes(M, s)
    BY <1>1, <2>1 DEF Becomes, M
  <2>3. TableInv' /\ Table!Members' = M
    BY <1>3, <2>1, <2>2, InvBecomes
  <2> QED
    BY <1>2, <2>3 DEF MapStep
<1> QED
  BY <1>5, <1>6, <1>7, <1>8 DEF Table!Next

(* What the invariant says of the table.                                   *)
LEMMA UsedNodes == Table!Used = UsedOf(t)
  BY UsedKeys DEF Table!Used, UsedOf

(* The invariant implies the types of LinkHash,                            *)
LEMMA InvTyped ==
    ASSUME TableInv
    PROVE  Table!TypeOK
<1>1. PICK s : Good(t, s) /\ Holds(MembersBy(t, s), refs, heap)
  BY DEF TableInv
<1>2. /\ Len(s) \in Nat /\ Len(s) <= t.size /\ t.count = Len(s)
      /\ MembersBy(t, s) \in Seq(Keys \X Values) /\ Len(MembersBy(t, s)) = Len(s)
  BY <1>1, MembersFit
<1>3. t.size \in Nat \ {0} /\ t.table \in [0 .. t.size - 1 -> Entries(t.size)]
  BY <1>1, ShapeFits DEF Good
<1>4. t.count \in 0 .. t.size
  BY <1>2, <1>3
<1>5. Entries(t.size) \subseteq [k : Keys \cup {"empty", "freed"}, v : Values \cup {"none"},
                                 k_is_constant : BOOLEAN,
                                 next : -1 .. t.size - 1, prev : -1 .. t.size - 1]
  BY DEF Entries
<1>6. refs \in [Values -> 0 .. t.count]
  <2>1. \A w \in Values : CountIn(MembersBy(t, s), w) \in 0 .. t.count
    BY <1>2, Counted
  <2> QED
    BY <1>1, <2>1 DEF Holds
<1>7. heap \subseteq Keys
  <2>1. \A i \in 1 .. Len(MembersBy(t, s)) : MembersBy(t, s)[i] \in Keys \X Values
    BY <1>2, ElementOfSeq
  <2> QED
    BY <1>1, <2>1 DEF Holds, KeysIn
<1>8. t.table \in [0 .. t.size - 1 ->
                      [k : Keys \cup {"empty", "freed"}, v : Values \cup {"none"},
                       k_is_constant : BOOLEAN,
                       next : -1 .. t.size - 1, prev : -1 .. t.size - 1]]
  BY <1>3, <1>5
<1> QED
  BY <1>3, <1>4, <1>6, <1>7, <1>8
  DEF TableInv, Table!TypeOK, Table!EMPTY, Table!FREED, Table!NoValue, Table!NULL

(* that lookups are exact,                                                 *)
LEMMA InvLookup ==
    ASSUME TableInv
    PROVE  Table!LookupExact
<1>1. PICK s : Good(t, s)
  BY DEF TableInv
<1>2. ASSUME NEW k \in Keys
      PROVE  LET n == Table!Lookup(t, k) IN
             IF \E m \in UsedOf(t) : t.table[m].k = k
             THEN n \in UsedOf(t) /\ t.table[n].k = k
             ELSE n = -1
  <2>1. Hashing
    BY DEF TableInv
  <2>2. \/ Table!Lookup(t, k) \in UsedOf(t) /\ KeyOf(t)[Table!Lookup(t, k)] = k
        \/ Table!Lookup(t, k) = -1 /\ \A m \in UsedOf(t) : KeyOf(t)[m] # k
    BY <1>1, <2>1, LookupFinds
  <2>3. \A m \in UsedOf(t) : KeyOf(t)[m] = t.table[m].k
    BY DEF UsedOf, KeyOf
  <2> QED
    BY <2>2, <2>3
<1> QED
  BY <1>2, UsedNodes DEF Table!LookupExact, Table!NULL

(* that the list is linked both ways through all entries,                  *)
LEMMA InvLinked ==
    ASSUME TableInv
    PROVE  Table!Linked
<1>1. PICK s : Good(t, s)
  BY DEF TableInv
<1>2. Listed(t.size, UsedOf(t), t.head, t.tail, NextOf(t), PrevOf(t), s)
  BY <1>1 DEF Good
<1>3. Table!EntriesOf(t) = s
  BY <1>1, EntriesIs
<1>4. DOMAIN s = 1 .. Len(s) /\ Len(s) \in Nat /\ t.count = Len(s)
  BY <1>1, <1>2, ListEnds DEF Good
<1>5. Table!ToSet(s) = UsedOf(t)
  <2>1. /\ \A i \in 1 .. Len(s) : s[i] \in UsedOf(t)
        /\ \A m \in UsedOf(t) : \E i \in 1 .. Len(s) : s[i] = m
    BY <1>2 DEF Listed
  <2> QED
    BY <1>4, <2>1 DEF Table!ToSet
<1>6. Len(s) = Table!Cardinality(UsedOf(t))
  BY <1>2, ListCount, SameCardinality
<1>7. s = <<>> <=> Len(s) = 0
  <2>1. s \in Seq(0 .. t.size - 1)
    BY <1>2 DEF Listed
  <2> QED
    BY <2>1, EmptySeq
<1>8. /\ t.head = IF s = <<>> THEN -1 ELSE s[1]
      /\ t.tail = IF s = <<>> THEN -1 ELSE s[Len(s)]
  BY <1>2, <1>7 DEF Listed
<1>9. \A i \in 1 .. Len(s) : t.table[s[i]].prev = IF i = 1 THEN -1 ELSE s[i - 1]
  <2>1. \A i \in 1 .. Len(s) : /\ PrevOf(t)[s[i]] = IF i = 1 THEN -1 ELSE s[i - 1]
                               /\ s[i] \in 0 .. t.size - 1
    BY <1>2 DEF Listed
  <2> QED
    BY <2>1 DEF PrevOf
<1> QED
  BY <1>3, <1>4, <1>5, <1>6, <1>8, <1>9, UsedNodes DEF Table!Linked, Table!NULL

(* and that each reference and each copied key is accounted for.           *)
LEMMA InvOwned ==
    ASSUME TableInv
    PROVE  Table!Owned
<1>1. PICK s : Good(t, s) /\ Holds(MembersBy(t, s), refs, heap)
  BY DEF TableInv
<1>2. ASSUME NEW w \in Values
      PROVE  refs[w] = Table!Cardinality({n \in UsedOf(t) : t.table[n].v = w})
  <2>1. {n \in UsedOf(t) : t.table[n].v = w} = NodesWith(UsedOf(t), ValueOf(t), w)
    BY DEF NodesWith, UsedOf, ValueOf
  <2>2. refs[w] = CountIn(MembersBy(t, s), w)
    BY <1>1 DEF Holds
  <2> QED
    BY <1>1, <2>1, <2>2, CountNodes, SameCardinality
<1>3. heap = {t.table[n].k : n \in UsedOf(t)}
  BY <1>1, EntryKeys DEF Holds
<1> QED
  BY <1>2, <1>3, UsedNodes DEF TableInv, Table!Owned

-----------------------------------------------------------------------------
(* The invariant of the table holds in every state.                        *)
LEMMA TableInvAlways == Table!Spec => []TableInv
<1>1. Table!Init => TableInv
  BY StartInv
<1>2. TableInv /\ [Table!Next]_(Table!vars) => TableInv'
  BY StepInv
<1> QED
  BY <1>1, <1>2, PTL DEF Table!Spec

(* In every reachable state of the table of a JSON object (linkhash.c      *)
(* under json_object.c), for any hash function, any keys and values and any*)
(* first size above one: a lookup finds the entry of a key exactly if it   *)
(* has one, however keys collide, wrap around the end and were deleted; the*)
(* list goes through all entries both ways; and each key and value the     *)
(* object holds is held once.                                              *)
THEOREM MapExactAlways == Table!Spec => []MapExact
<1>1. TableInv => MapExact
  BY InvTyped, InvLookup, InvLinked, InvOwned DEF MapExact
<1> QED
  BY <1>1, TableInvAlways, PTL

(* The table implements OrderedMap: every addition, replacement, growth and*)
(* deletion changes the members as an ordered map does, and nothing else   *)
(* does.                                                                   *)
THEOREM ImplementsMapAlways == Table!Spec => ImplementsMap
<1>1. Table!Init => Table!Map!Init
  BY StartInv DEF Table!Map!Init
<1>2. TableInv /\ [Table!Next]_(Table!vars) => [Table!Map!Next(Keys, Values)]_(Table!Members)
  BY StepInv DEF MapStep
<1> QED
  BY <1>1, <1>2, TableInvAlways, PTL DEF Table!Spec, ImplementsMap

=============================================================================

-------------------------- MODULE SessionEndsProofs --------------------------
(***************************************************************************)
(* Proofs about MCSessionEnds.  In the setting of one request it takes the *)
(* steps of Session with those constants, for which SessionProofs has the  *)
(* invariant: what its theorem says of every run of Session holds here.    *)
(***************************************************************************)
EXTENDS MCSessionEnds, TLAPS

Alone == INSTANCE SessionProofs WITH
    Requests <- {"r1"}, Workers <- {"w1"}, NoRequest <- "none",
    KindsAsked <- {"sign", "register", "checked"}, MaxPrompts <- 4

(* What the two instances of Session call the same is the same.            *)
LEMMA SameHelper ==
    /\ One!H!InitHelper = Alone!H!InitHelper
    /\ One!H!Answers = Alone!H!Answers /\ One!H!Tokens = Alone!H!Tokens
    /\ One!H!Helpers = Alone!H!Helpers
    /\ \A h : One!H!HelperSteps(h) = Alone!H!HelperSteps(h)
<1>1. /\ One!H!InitHelper = Alone!H!InitHelper
      /\ One!H!Answers = Alone!H!Answers /\ One!H!Tokens = Alone!H!Tokens
      /\ One!H!Messages = Alone!H!Messages /\ One!H!Actions = Alone!H!Actions
      /\ \A op : One!H!AnswersTo(op) = Alone!H!AnswersTo(op)
  BY DEF One!H!InitHelper, Alone!H!InitHelper, One!H!Answers, Alone!H!Answers,
         One!H!Tokens, Alone!H!Tokens, One!H!Prompts, Alone!H!Prompts,
         One!H!Messages, Alone!H!Messages, One!H!Actions, Alone!H!Actions,
         One!H!AnswersTo, Alone!H!AnswersTo
<1>2. One!H!Helpers = Alone!H!Helpers
  BY <1>1
     DEF One!H!Helpers, Alone!H!Helpers, One!H!Actions, Alone!H!Actions,
         One!H!Tokens, Alone!H!Tokens, One!H!Messages, Alone!H!Messages,
         One!H!Prompts, Alone!H!Prompts, One!H!Answers, Alone!H!Answers
<1>3. \A g, s : One!H!When(g, s) = Alone!H!When(g, s)
  BY DEF One!H!When, Alone!H!When
<1>4. \A h : One!H!PromptSteps(h) = Alone!H!PromptSteps(h)
  BY <1>3 DEF One!H!PromptSteps, Alone!H!PromptSteps, One!H!Prompt, Alone!H!Prompt
<1>5. \A h : One!H!TakeSteps(h) = Alone!H!TakeSteps(h)
  BY <1>3 DEF One!H!TakeSteps, Alone!H!TakeSteps
<1>6. \A h : One!H!AnswerSteps(h) = Alone!H!AnswerSteps(h)
  BY <1>1, <1>3 DEF One!H!AnswerSteps, Alone!H!AnswerSteps
<1>7. \A h : /\ One!H!FatalSteps(h) = Alone!H!FatalSteps(h)
             /\ One!H!DeathSteps(h) = Alone!H!DeathSteps(h)
  BY DEF One!H!FatalSteps, Alone!H!FatalSteps, One!H!DeathSteps, Alone!H!DeathSteps
<1>8. \A h : One!H!HelperSteps(h) = Alone!H!HelperSteps(h)
  BY <1>3, <1>4, <1>5, <1>6, <1>7 DEF One!H!HelperSteps, Alone!H!HelperSteps
<1> QED
  BY <1>1, <1>2, <1>8

(* And so is what each step does.                                         *)
LEMMA SameSession == [One!Next]_One!vars => [Alone!Next]_Alone!vars
<1> USE DEF One!reqVars, Alone!reqVars, One!runVars, Alone!runVars,
            One!activeVars, Alone!activeVars, One!histVars, Alone!histVars

<1>1. \A r : One!ExecBin(r) => Alone!ExecBin(r)
  BY DEF One!ExecBin, Alone!ExecBin

<1>2. \A r : One!_ExecBin(r) => Alone!_ExecBin(r)
  BY DEF One!_ExecBin, Alone!_ExecBin, One!FirstInput, Alone!FirstInput,
         One!Running, Alone!Running

<1>3. \A r : One!Reject(r) => Alone!Reject(r)
  BY DEF One!Reject, Alone!Reject

<1>4. \A r : One!Validated(r) => Alone!Validated(r)
  BY <1>2, <1>3 DEF One!Validated, Alone!Validated

<1>5. \A r : One!CheckValidated(r) => Alone!CheckValidated(r)
  BY <1>2, <1>3 DEF One!CheckValidated, Alone!CheckValidated

<1>6. \A r, n : One!Data(r, n) => Alone!Data(r, n)
  <2>1. \A v : /\ One!Unprompted(v) = Alone!Unprompted(v)
               /\ One!NotesAfter(v) = Alone!NotesAfter(v)
               /\ One!Trimmed(v) = Alone!Trimmed(v)
               /\ One!AfterCheck(v) = Alone!AfterCheck(v)
               /\ One!CheckVerdict(v) = Alone!CheckVerdict(v)
    BY DEF One!Unprompted, Alone!Unprompted, One!NotesAfter, Alone!NotesAfter,
           One!AfterI, Alone!AfterI, One!AfterJ, Alone!AfterJ, One!Strip,
           Alone!Strip, One!HeadIs, Alone!HeadIs, One!CleanedNotes,
           Alone!CleanedNotes, One!AfterCheck, Alone!AfterCheck, One!CheckVerdict,
           Alone!CheckVerdict, One!Trimmed, Alone!Trimmed
  <2> SUFFICES ASSUME NEW r, NEW n, One!Data(r, n) PROVE Alone!Data(r, n)
    OBVIOUS
  <2>2. One!H!Answers = Alone!H!Answers
    BY SameHelper
  <2> QED
    BY <2>1, <2>2, Zenon DEF One!Data, Alone!Data, One!Emit, Alone!Emit
<1>7. \A a : One!KillExe(a) => Alone!KillExe(a)
  BY DEF One!KillExe, Alone!KillExe, One!CleanedNotes, Alone!CleanedNotes,
         One!TimersWithoutActive, Alone!TimersWithoutActive, One!KilledWithActive,
         Alone!KilledWithActive

<1>8. \A r : One!SpawnError(r) => Alone!SpawnError(r)
  BY <1>7 DEF One!SpawnError, Alone!SpawnError, One!Emit, Alone!Emit

<1>9. \A r : One!Exit(r) => Alone!Exit(r)
  BY SameHelper
     DEF One!Exit, Alone!Exit, One!NotesAtExit, Alone!NotesAtExit,
         One!CleanedNotes, Alone!CleanedNotes, One!ActiveAfterExit,
         Alone!ActiveAfterExit, One!ExitVerdict, Alone!ExitVerdict

<1>10. \A r : One!Timer(r) => Alone!Timer(r)
  BY <1>7 DEF One!Timer, Alone!Timer

<1>11. \A w : One!Detach(w) => Alone!Detach(w)
  BY <1>7 DEF One!Detach, Alone!Detach, One!ActiveOwned, Alone!ActiveOwned

<1>12. \A r : One!HelperWorks(r) => Alone!HelperWorks(r)
  BY SameHelper DEF One!HelperWorks, Alone!HelperWorks

<1>13. UNCHANGED One!vars => UNCHANGED Alone!vars
  BY DEF One!vars, Alone!vars

<1> QED
  BY <1>1, <1>4, <1>5, <1>6, <1>8, <1>9, <1>10, <1>11, <1>12, <1>13
     DEF One!Next, Alone!Next, One!SomeData, Alone!SomeData

LEMMA SameStart == One!Init => Alone!Init
  BY SameHelper DEF One!Init, Alone!Init

LEMMA AloneStarts == Init /\ setting = "one" => Alone!Init
  BY SameStart DEF Init

LEMMA AloneSteps ==
    [Next]_vars => UNCHANGED setting /\ (setting = "one" => [Alone!Next]_Alone!vars)
<1>1. UNCHANGED sessionVars => UNCHANGED Alone!vars
  BY DEF sessionVars, Alone!vars, Alone!reqVars, Alone!runVars, Alone!activeVars,
         Alone!histVars
<1> QED
  BY <1>1, SameSession DEF Next, vars, InOne, InTwo

(* One request, its helper dying and prompting as it likes: a register     *)
(* waits for its check, and the page hears about its own question.         *)
THEOREM VerdictsFitAlways == FairSpec => []VerdictsFit
<1>1. Alone!AnswersFit => One!TypeOK /\ One!RegisterAfterCheck /\ One!VerdictsFit
  BY SameHelper
     DEF Alone!AnswersFit, One!TypeOK, Alone!TypeOK, One!RegisterAfterCheck,
         Alone!RegisterAfterCheck, One!VerdictsFit, Alone!VerdictsFit, One!Verdicts,
         Alone!Verdicts, One!Kinds, Alone!Kinds
<1>2. Init /\ setting = "one" => Alone!Init
  BY AloneStarts
<1>3. setting = "one" /\ [Next]_vars => (setting = "one")' /\ [Alone!Next]_Alone!vars
  BY AloneSteps
<1>4. ~(setting = "one") /\ [Next]_vars => ~(setting = "one")'
  BY AloneSteps
<1>5. Alone!Spec => []Alone!AnswersFit
  <2>1. Alone!KindsAskedAssumption /\ Alone!NoRequestAssumption /\ Alone!MaxPromptsAssumption
    BY DEF Alone!KindsAskedAssumption, Alone!NoRequestAssumption, Alone!MaxPromptsAssumption,
           Alone!Kinds
  <2> QED
    BY <2>1, Alone!AnswersFitAlways, PTL
<1>6. ~(setting = "one") \/ Alone!AnswersFit => VerdictsFit
  BY <1>1 DEF VerdictsFit
<1> QED
  BY <1>2, <1>3, <1>4, <1>5, <1>6, PTL DEF FairSpec, Alone!Spec

=============================================================================

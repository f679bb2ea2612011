---------------------------- MODULE MCSessionEnds ----------------------------
(***************************************************************************)
(* Model of Session for TLC under fairness, in two settings that the first *)
(* state chooses from: one request of any kind with up to four prompts,    *)
(* and two requests of one page that may overlap.                          *)
(***************************************************************************)
EXTENDS Naturals, Sequences, FiniteSets

VARIABLES
    setting,
    stage, kind, owner, check, helper, value, responded, timers, killed,
    activeRequest, notes, detached, verdicts, overlapped

sessionVars ==
    <<stage, kind, owner, check, helper, value, responded, timers, killed,
      activeRequest, notes, detached, verdicts, overlapped>>
vars == <<setting, sessionVars>>

One == INSTANCE Session WITH
    Requests <- {"r1"}, Workers <- {"w1"}, NoRequest <- "none",
    KindsAsked <- {"sign", "register", "checked"}, MaxPrompts <- 4

Two == INSTANCE Session WITH
    Requests <- {"r1", "r2"}, Workers <- {"w1"}, NoRequest <- "none",
    KindsAsked <- {"sign"}, MaxPrompts <- 0

Init == (setting = "one" /\ One!Init) \/ (setting = "two" /\ Two!Init)

InOne == setting = "one" /\ UNCHANGED setting
InTwo == setting = "two" /\ UNCHANGED setting

Next == (InOne /\ One!Next) \/ (InTwo /\ Two!Next)

(* The fairness of Session, one setting as the other.                      *)
Fairness ==
    /\ WF_vars((InOne /\ One!SomeData("r1")) \/ (InTwo /\ Two!SomeData("r1")))
    /\ WF_vars((InOne /\ One!SpawnError("r1")) \/ (InTwo /\ Two!SpawnError("r1")))
    /\ WF_vars((InOne /\ One!Exit("r1")) \/ (InTwo /\ Two!Exit("r1")))
    /\ WF_vars((InOne /\ One!Timer("r1")) \/ (InTwo /\ Two!Timer("r1")))
    /\ WF_vars((InOne /\ One!HelperDies("r1")) \/ (InTwo /\ Two!HelperDies("r1")))
    /\ WF_vars(InTwo /\ Two!SomeData("r2"))
    /\ WF_vars(InTwo /\ Two!SpawnError("r2"))
    /\ WF_vars(InTwo /\ Two!Exit("r2"))
    /\ WF_vars(InTwo /\ Two!Timer("r2"))
    /\ WF_vars(InTwo /\ Two!HelperDies("r2"))

FairSpec == Init /\ [][Next]_vars /\ Fairness

-----------------------------------------------------------------------------
(* A register never reaches the helper before its check was answered with  *)
(* code 4, and the page hears about its own question, however the prints   *)
(* of the helper are coalesced.                                            *)
VerdictsFit ==
    setting = "one" => One!TypeOK /\ One!RegisterAfterCheck /\ One!VerdictsFit

(* A running request gets a verdict, unless it is killed or others ran     *)
(* beside it - however the helper dies and whatever it leaves unread.      *)
VerdictOrKill ==
    (setting = "one" /\ stage["r1"] = "running")
        ~> (verdicts["r1"] # <<>> \/ "r1" \in killed \/ "r1" \in overlapped)

(* Every helper is reaped, also one that overlapped or lost its page.      *)
EveryHelperReaped ==
    \A r \in {"r1", "r2"} :
        (r \in DOMAIN stage /\ stage[r] \in {"running", "failed"}) ~>
            (r \in DOMAIN stage /\ stage[r] = "gone")

=============================================================================

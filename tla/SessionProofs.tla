--------------------------- MODULE SessionProofs ---------------------------
(***************************************************************************)
(* Proofs about Session, for any number of requests and pages: what the    *)
(* chrome process does to its single activeRequest is right for every      *)
(* request that no other one overlapped (IInv), its variables have their   *)
(* types, no helper is told to register before its check is answered       *)
(* (Waits), and a page is told about its own question (Told).              *)
(***************************************************************************)
EXTENDS Session, TLAPS, SequenceTheorems

(* The types that the argument needs: those of what tells requests apart.  *)
Types ==
    /\ stage \in [Requests -> {"idle", "validating", "checking", "rejected",
                               "running", "failed", "gone"}]
    /\ timers \subseteq Requests
    /\ killed \subseteq Requests
    /\ notes \subseteq Requests
    /\ overlapped \subseteq Requests
    /\ activeRequest \in Requests \cup {NoRequest}

(* Of two requests that run, each has met the other.                       *)
PairsOverlap == \A r, s \in Running : r # s => r \in overlapped

(* Only a request whose helper was spawned is killed, and its timer is     *)
(* disarmed; and only overlap leaves a timer armed behind its helper.      *)
KilledStarted ==
    \A r \in killed : stage[r] \in {"running", "failed", "gone"} /\ r \notin timers
TimersRun == timers \subseteq Running \cup overlapped

IInv ==
    /\ Types
    /\ ActiveRuns
    /\ AloneIsActive
    /\ NotesRemovable
    /\ TimerKillsOwn
    /\ PairsOverlap
    /\ KilledStarted
    /\ TimersRun

-----------------------------------------------------------------------------
(* Nothing runs at first.                                                  *)
LEMMA InitIInv == Init => IInv
  BY DEF Init, IInv, Types, ActiveRuns, AloneIsActive, NotesRemovable, TimerKillsOwn,
         PairsOverlap, KilledStarted, TimersRun, Running

(* Nothing that the invariant is about changes.                            *)
LEMMA SameIInv ==
    ASSUME IInv, UNCHANGED <<stage, activeVars, overlapped>>
    PROVE  IInv'
  BY DEF activeVars, IInv, Types, ActiveRuns, AloneIsActive, NotesRemovable, TimerKillsOwn,
         PairsOverlap, KilledStarted, TimersRun, Running

(* A request that is not running goes on to a stage in which it does not   *)
(* run either.                                                             *)
LEMMA WaitIInv ==
    ASSUME IInv, NEW r \in Requests, stage[r] \in {"idle", "validating", "checking"},
           NEW to \in {"validating", "checking", "rejected"},
           stage' = [stage EXCEPT ![r] = to],
           UNCHANGED <<activeVars, overlapped>>
    PROVE  IInv'
<1>1. Types' /\ Running' = Running
  BY DEF activeVars, IInv, Types, Running
<1>2. r \notin killed
  BY DEF IInv, KilledStarted
<1>3. KilledStarted'
  BY <1>2 DEF activeVars, IInv, Types, KilledStarted
<1> QED
  BY <1>1, <1>3 DEF activeVars, IInv, ActiveRuns, AloneIsActive, NotesRemovable,
                    TimerKillsOwn, PairsOverlap, TimersRun

(* _execBin: whoever runs already is overlapped from now on, so the new    *)
(* request may take activeRequest away.                                    *)
LEMMA ExecIInv ==
    ASSUME IInv, NEW r \in Requests, stage[r] \in {"validating", "checking"}, _ExecBin(r)
    PROVE  IInv'
<1> USE DEF _ExecBin
<1>1. Types' /\ Running' = Running \cup {r} /\ r \notin Running
  BY DEF IInv, Types, Running
<1>2. r \notin killed
  BY DEF IInv, KilledStarted
<1>3. Running # {} => Running \cup {r} \subseteq overlapped'
  OBVIOUS
<1>4. overlapped \subseteq overlapped'
  OBVIOUS
<1>5. ActiveRuns'
  BY <1>1, <1>2 DEF ActiveRuns
<1>6. AloneIsActive'
  BY <1>1, <1>3 DEF AloneIsActive
<1>7. NotesRemovable'
  <2> SUFFICES ASSUME NEW q \in notes, q # r PROVE q \in overlapped'
    BY DEF NotesRemovable
  <2>1. q \in Running \/ q \in overlapped
    BY NoRequestAssumption DEF IInv, Types, NotesRemovable, ActiveRuns
  <2> QED
    BY <2>1, <1>3, <1>4
<1>8. TimerKillsOwn'
  BY <1>3, <1>4 DEF IInv, TimersRun, TimerKillsOwn
<1>9. PairsOverlap'
  BY <1>1, <1>3, <1>4 DEF IInv, PairsOverlap
<1>10. KilledStarted'
  BY <1>2 DEF IInv, Types, KilledStarted
<1>11. TimersRun'
  BY <1>1, <1>4 DEF IInv, TimersRun
<1> QED
  BY <1>1, <1>5, <1>6, <1>7, <1>8, <1>9, <1>10, <1>11 DEF IInv

(* killExe, called with the timers that are left, after which requests may *)
(* no longer run: it leaves no request that is alone.                      *)
LEMMA KillIInv ==
    ASSUME IInv, NEW armed, armed \subseteq timers, KillExe(armed),
           Types', Running' \subseteq Running, UNCHANGED overlapped,
           \A q \in Requests : stage[q] \in {"running", "failed", "gone"} =>
                                   stage'[q] \in {"running", "failed", "gone"},
           \A q \in armed : q \in Running' \/ q = activeRequest \/ q \in overlapped
    PROVE  IInv'
<1> USE DEF KillExe, CleanedNotes, TimersWithoutActive, KilledWithActive
<1>1. ActiveRuns' /\ TimerKillsOwn'
  BY DEF ActiveRuns, TimerKillsOwn
<1>2. AloneIsActive'
  <2> SUFFICES ASSUME NEW q \in Running', q \notin killed', q \notin overlapped PROVE FALSE
    BY DEF AloneIsActive
  <2>1. activeRequest = q
    BY DEF IInv, AloneIsActive
  <2> QED
    BY <2>1, NoRequestAssumption DEF Running
<1>3. NotesRemovable'
  BY DEF IInv, NotesRemovable
<1>4. PairsOverlap'
  BY DEF IInv, PairsOverlap
<1>5. KilledStarted'
  <2>1. activeRequest # NoRequest => stage[activeRequest] \in {"running", "failed", "gone"}
    BY DEF IInv, ActiveRuns, Running
  <2> QED
    BY <2>1 DEF IInv, Types, KilledStarted
<1>6. TimersRun'
  BY DEF IInv, TimersRun
<1> QED
  BY <1>1, <1>2, <1>3, <1>4, <1>5, <1>6 DEF IInv

(* "exit": a request that is alone was the active one, and it is gone.     *)
LEMMA ExitIInv ==
    ASSUME IInv, NEW r \in Requests, Exit(r)
    PROVE  IInv'
<1> USE DEF Exit, NotesAtExit, CleanedNotes, ActiveAfterExit
<1>1. Types' /\ r \in Running /\ Running' = Running \ {r}
  BY DEF IInv, Types, Running
<1>2. ActiveRuns' /\ TimerKillsOwn'
  BY DEF ActiveRuns, TimerKillsOwn
<1>3. AloneIsActive'
  <2> SUFFICES ASSUME NEW q \in Running', q \notin killed, q \notin overlapped PROVE FALSE
    BY DEF AloneIsActive
  <2> QED
    BY <1>1 DEF IInv, PairsOverlap
<1>4. NotesRemovable'
  BY DEF IInv, NotesRemovable
<1>5. PairsOverlap'
  BY <1>1 DEF IInv, PairsOverlap
<1>6. KilledStarted'
  BY DEF IInv, Types, KilledStarted
<1>7. TimersRun'
  BY <1>1 DEF IInv, TimersRun
<1> QED
  BY <1>1, <1>2, <1>3, <1>4, <1>5, <1>6, <1>7 DEF IInv

(* "data": a prompt shows or removes the notification of activeRequest.    *)
LEMMA DataIInv ==
    ASSUME IInv, NEW r \in Requests, NEW n, Data(r, n)
    PROVE  IInv'
<1>1. UNCHANGED <<stage, timers, killed, activeRequest, overlapped>>
  BY DEF Data
<1>2. notes' \subseteq notes \cup ({activeRequest} \ {NoRequest})
  <2>1. ASSUME NEW v
        PROVE  NotesAfter(v) \subseteq notes \cup ({activeRequest} \ {NoRequest})
    BY Zenon DEF NotesAfter, CleanedNotes
  <2>2. notes' = NotesAfter(value[r] \o SubSeq(helper[r].out, 1, n))
    BY DEF Data
  <2> QED
    BY <2>1, <2>2
<1>3. Types' /\ NotesRemovable'
  BY <1>1, <1>2 DEF IInv, Types, NotesRemovable
<1> QED
  BY <1>1, <1>3 DEF IInv, ActiveRuns, AloneIsActive, TimerKillsOwn, PairsOverlap,
                    KilledStarted, TimersRun, Running

-----------------------------------------------------------------------------
(* Every event keeps the invariant.                                        *)
LEMMA NextIInv == IInv /\ [Next]_vars => IInv'
<1> SUFFICES ASSUME IInv, [Next]_vars PROVE IInv'
  OBVIOUS
<1>1. ASSUME NEW r \in Requests, ExecBin(r) PROVE IInv'
  BY <1>1, WaitIInv DEF ExecBin, histVars
<1>2. ASSUME NEW r \in Requests, Validated(r) PROVE IInv'
  BY <1>2, WaitIInv, ExecIInv DEF Validated, Reject, histVars
<1>3. ASSUME NEW r \in Requests, CheckValidated(r) PROVE IInv'
  BY <1>3, WaitIInv, ExecIInv DEF CheckValidated, Reject, histVars
<1>4. ASSUME NEW r \in Requests, SomeData(r) PROVE IInv'
  BY <1>4, DataIInv DEF SomeData
<1>5. ASSUME NEW r \in Requests, SpawnError(r) PROVE IInv'
  <2>1. Types' /\ r \in Running /\ Running' = Running \ {r}
    BY <1>5, NoRequestAssumption
       DEF SpawnError, KillExe, CleanedNotes, TimersWithoutActive, KilledWithActive,
           IInv, Types, Running
  <2>2. r = activeRequest \/ r \in overlapped \/ r \in killed
    BY <2>1 DEF IInv, AloneIsActive
  <2> QED
    BY <1>5, <2>1, <2>2, KillIInv DEF SpawnError, IInv, Types, KilledStarted, TimersRun
<1>6. ASSUME NEW r \in Requests, Exit(r) PROVE IInv'
  BY <1>6, ExitIInv
<1>7. ASSUME NEW r \in Requests, Timer(r) PROVE IInv'
  <2>1. Types' /\ Running' = Running
    BY <1>7 DEF Timer, KillExe, CleanedNotes, TimersWithoutActive, KilledWithActive,
                reqVars, histVars, IInv, Types, Running
  <2> QED
    BY <1>7, <2>1, KillIInv DEF Timer, reqVars, histVars, IInv, TimersRun
<1>8. ASSUME NEW r \in Requests, HelperWorks(r) PROVE IInv'
  BY <1>8, SameIInv DEF HelperWorks, reqVars, histVars
<1>9. ASSUME NEW w \in Workers, Detach(w) PROVE IInv'
  <2>1. CASE ~ActiveOwned(w)
    BY <1>9, <2>1, SameIInv DEF Detach, reqVars, histVars
  <2>2. CASE ActiveOwned(w)
    <3>1. Types' /\ Running' = Running
      BY <1>9, <2>2 DEF Detach, KillExe, CleanedNotes, TimersWithoutActive, KilledWithActive,
                        reqVars, histVars, IInv, Types, Running
    <3> QED
      BY <1>9, <2>2, <3>1, KillIInv DEF Detach, reqVars, histVars, IInv, TimersRun
  <2> QED
    BY <2>1, <2>2
<1>10. CASE UNCHANGED vars
  BY <1>10, SameIInv DEF vars, reqVars, histVars
<1> QED
  BY <1>1, <1>2, <1>3, <1>4, <1>5, <1>6, <1>7, <1>8, <1>9, <1>10 DEF Next

LEMMA IInvHolds == Spec => []IInv
  BY InitIInv, NextIInv, PTL DEF Spec

-----------------------------------------------------------------------------
(* activeRequest is a request that runs and was not killed, and a request  *)
(* that runs without having met another one is activeRequest               *)
(* (index.js:122, 189-196, 215).                                           *)
THEOREM ActiveFitsAlways == Spec => []ActiveFits
<1>1. IInv => ActiveFits
  BY DEF IInv, ActiveFits
<1> QED
  BY <1>1, IInvHolds, PTL

(* A notification is that of the active request, so that it is removed in  *)
(* the end, unless requests overlapped.                                    *)
THEOREM NotesAreRemovable == Spec => []NotesRemovable
<1>1. IInv => NotesRemovable
  BY DEF IInv
<1> QED
  BY <1>1, IInvHolds, PTL

(* The timer of a request kills that request or none, unless they          *)
(* overlapped.                                                             *)
THEOREM TimersKillOwn == Spec => []TimerKillsOwn
<1>1. IInv => TimerKillsOwn
  BY DEF IInv
<1> QED
  BY <1>1, IInvHolds, PTL

(* A page that goes away takes the helper along that it has running alone. *)
THEOREM DetachKillsOwn == Spec => DetachKills
<1> DEFINE Taken == \A w \in detached' \ detached : \A r \in Running \ overlapped :
                        owner[r] = w => r \in killed'
<1>1. IInv /\ [Next]_vars => [Taken]_vars
  <2> SUFFICES ASSUME IInv, Next PROVE Taken
    OBVIOUS
  <2>1. ASSUME NEW w \in Workers, Detach(w) PROVE Taken
    <3> SUFFICES ASSUME NEW r \in Running \ overlapped, owner[r] = w PROVE r \in killed'
      BY <2>1 DEF Detach
    <3>1. CASE r \in killed
      BY <2>1, <3>1 DEF Detach, KillExe, KilledWithActive, activeVars
    <3>2. CASE r \notin killed
      <4>1. activeRequest = r /\ r # NoRequest
        BY <3>2, NoRequestAssumption DEF IInv, AloneIsActive, Running
      <4> QED
        BY <2>1, <4>1 DEF Detach, ActiveOwned, KillExe, KilledWithActive
    <3> QED
      BY <3>1, <3>2
  <2>2. (\E w \in Workers : Detach(w)) \/ detached' = detached
    BY ZenonT(20) DEF Next, ExecBin, Validated, CheckValidated, Reject, _ExecBin, SomeData, Data,
           SpawnError, Exit, Timer, HelperWorks
  <2> QED
    BY <2>1, <2>2
<1> QED
  BY <1>1, IInvHolds, PTL DEF Spec, DetachKills

-----------------------------------------------------------------------------
(* Types, and what the helper of a request under check may still be told.  *)
NoRegister == {"s", "end"}

Waits ==
    \A r \in check : helper[r].op # "r" /\ helper[r].inp \in Seq(NoRegister)

IdleBefore ==
    \A r \in Requests :
        stage[r] \in {"idle", "validating", "checking"} =>
            helper[r] = H!InitHelper /\ r \notin check

Typed == TypeOK /\ Waits /\ IdleBefore

(* The steps of a helper keep its type, and take the actions they are told.*)
LEMMA HelperStepTyped ==
    ASSUME NEW h \in H!Helpers, NEW g \in H!HelperSteps(h)
    PROVE  /\ g \in H!Helpers
           /\ h.op # "r" /\ h.inp \in Seq(NoRegister) =>
                 g.op # "r" /\ g.inp \in Seq(NoRegister)
<1> USE DEF H!Helpers, H!When
<1>0. ASSUME NEW token \in H!Tokens
      PROVE  Append(h.out, token) \in Seq(H!Tokens)
  BY AppendProperties
<1>1. CASE g \in H!PromptSteps(h)
  <2>1. h.prompts < MaxPrompts
    BY <1>1 DEF H!PromptSteps
  <2>2. PICK token \in H!Prompts, state \in {"m", "p", "b"} : g = H!Prompt(h, token, state)
    BY <1>1, <2>1 DEF H!PromptSteps, H!Prompts
  <2>3. Append(h.out, token) \in Seq(H!Tokens)
    BY <1>0 DEF H!Tokens
  <2>4. h.prompts + 1 \in 0 .. MaxPrompts
    BY <2>1, MaxPromptsAssumption
  <2> QED
    BY <2>2, <2>3, <2>4 DEF H!Prompt
<1>2. CASE g \in H!TakeSteps(h)
  <2>1. h.op = "idle" /\ h.inp # <<>>
    BY <1>2 DEF H!TakeSteps
  <2>2. Head(h.inp) \in H!Messages /\ Tail(h.inp) \in Seq(H!Messages)
    BY <2>1, HeadTailProperties
  <2>3. h.inp \in Seq(NoRegister) => Head(h.inp) \in NoRegister /\ Tail(h.inp) \in Seq(NoRegister)
    BY <2>1, HeadTailProperties
  <2>4. CASE Head(h.inp) = "end"
    BY <1>2, <2>1, <2>4 DEF H!TakeSteps
  <2>5. CASE Head(h.inp) # "end"
    <3>1. g = [h EXCEPT !.op = Head(h.inp), !.inp = Tail(h.inp)]
      BY <1>2, <2>1, <2>5 DEF H!TakeSteps
    <3> QED
      BY <3>1, <2>2, <2>3, <2>5 DEF NoRegister, H!Messages
  <2> QED
    BY <2>4, <2>5
<1>3. CASE g \in H!AnswerSteps(h)
  <2>1. PICK a \in H!Answers : g = [h EXCEPT !.op = "idle", !.out = Append(h.out, a)]
    BY <1>3 DEF H!AnswerSteps, H!AnswersTo, H!Answers
  <2>2. Append(h.out, a) \in Seq(H!Tokens)
    BY <1>0 DEF H!Tokens
  <2> QED
    BY <2>1, <2>2
<1>4. CASE g \in H!FatalSteps(h)
  <2>1. Append(h.out, "err") \in Seq(H!Tokens)
    BY <1>0 DEF H!Tokens, H!Answers
  <2> QED
    BY <1>4, <2>1 DEF H!FatalSteps
<1>5. CASE g \in H!DeathSteps(h)
  BY <1>5 DEF H!DeathSteps
<1> QED
  BY <1>1, <1>2, <1>3, <1>4, <1>5 DEF H!HelperSteps

(* Nothing has been told or printed.                                       *)
LEMMA InitTyped == Init => Typed
<1>1. H!InitHelper \in H!Helpers
  BY MaxPromptsAssumption, EmptySeq DEF H!InitHelper, H!Helpers
<1> QED
  BY <1>1, EmptySeq DEF Init, Typed, TypeOK, Waits, IdleBefore, Kinds

(* A new helper is told of the check first.                                *)
LEMMA ExecTyped ==
    ASSUME Typed, NEW r \in Requests, stage[r] \in {"validating", "checking"}, _ExecBin(r)
    PROVE  Typed'
<1> USE DEF _ExecBin
<1>1. FirstInput(r) \in Seq(H!Messages)
  <2>1. kind[r] \in Kinds
    BY DEF Typed, TypeOK
  <2>2. "s" \in H!Messages /\ "r" \in H!Messages /\ "end" \in H!Messages
    BY DEF H!Messages, H!Actions
  <2> QED
    BY <2>1, <2>2 DEF FirstInput, Kinds
<1>2. kind[r] = "checked" => FirstInput(r) \in Seq(NoRegister)
  BY DEF FirstInput, NoRegister
<1>3. r \in check' => kind[r] = "checked"
  BY DEF Typed, TypeOK
<1>4. helper[r] = H!InitHelper /\ H!InitHelper.op # "r"
  BY DEF Typed, IdleBefore, H!InitHelper
<1>5. helper' \in [Requests -> H!Helpers]
  <2>1. ASSUME NEW h \in H!Helpers PROVE [h EXCEPT !.inp = FirstInput(r)] \in H!Helpers
    BY <1>1 DEF H!Helpers
  <2> QED
    BY <2>1 DEF Typed, TypeOK
<1>6. TypeOK'
  <2>1. overlapped' \subseteq Requests
    BY DEF Typed, TypeOK, Running
  <2>2. check' \subseteq {q \in Requests : kind[q] = "checked"}
    BY <1>3 DEF Typed, TypeOK
  <2> QED
    BY <1>5, <2>1, <2>2 DEF Typed, TypeOK
<1>7. Waits'
  BY <1>2, <1>3, <1>4 DEF Typed, TypeOK, Waits, H!Helpers
<1>8. IdleBefore'
  BY DEF Typed, TypeOK, IdleBefore
<1> QED
  BY <1>6, <1>7, <1>8 DEF Typed

(* A request that waits goes on without a helper.                          *)
LEMMA WaitTyped ==
    ASSUME Typed, NEW r \in Requests, stage[r] \in {"idle", "validating", "checking"},
           NEW to \in {"validating", "checking", "rejected"},
           stage' = [stage EXCEPT ![r] = to],
           NEW k \in Kinds, kind' = [kind EXCEPT ![r] = k],
           r \in check => k = "checked",
           UNCHANGED <<owner, check, runVars, activeVars, detached, histVars>>
    PROVE  Typed'
  BY DEF runVars, activeVars, histVars, Typed, TypeOK, Waits, IdleBefore

(* A kill only ends a helper, and one that was started.                    *)
LEMMA KillTyped ==
    ASSUME Typed, IInv, NEW armed, armed \subseteq timers, KillExe(armed)
    PROVE  /\ helper' \in [Requests -> H!Helpers]
           /\ \A q \in Requests : helper'[q].op = helper[q].op /\ helper'[q].inp = helper[q].inp
           /\ \A q \in Requests : stage[q] \in {"idle", "validating", "checking"} =>
                                      helper'[q] = H!InitHelper
           /\ timers' \subseteq Requests /\ killed' \subseteq Requests
           /\ notes' \subseteq Requests /\ activeRequest' = NoRequest
<1> USE DEF KillExe
<1>1. ASSUME NEW q \in Requests
      PROVE  /\ helper'[q] \in H!Helpers
             /\ helper'[q].op = helper[q].op /\ helper'[q].inp = helper[q].inp
             /\ q # activeRequest => helper'[q] = helper[q]
  <2>1. helper[q] \in H!Helpers
    BY DEF Typed, TypeOK
  <2>2. helper'[q] = IF q = activeRequest /\ helper[q].exit = "none"
                     THEN [helper[q] EXCEPT !.exit = "signal"] ELSE helper[q]
    OBVIOUS
  <2> QED
    BY <2>1, <2>2 DEF H!Helpers
<1>2. helper' \in [Requests -> H!Helpers]
  BY <1>1
<1>3. ASSUME NEW q \in Requests, stage[q] \in {"idle", "validating", "checking"}
      PROVE  helper'[q] = H!InitHelper
  <2>1. q # activeRequest
    BY <1>3, NoRequestAssumption DEF IInv, ActiveRuns, Running
  <2> QED
    BY <1>1, <1>3, <2>1 DEF Typed, IdleBefore
<1> QED
  BY <1>1, <1>2, <1>3 DEF CleanedNotes, TimersWithoutActive, KilledWithActive, Typed, TypeOK

-----------------------------------------------------------------------------
(* The handlers and the rest of the chrome process.                        *)
LEMMA StripTyped ==
    ASSUME NEW S, NEW v \in Seq(S), NEW token
    PROVE  Strip(v, token) \in Seq(S)
  BY HeadTailProperties DEF Strip, HeadIs

(* What is left of the buffer are tokens, and what the helper is told      *)
(* after an answer to the check is to register only if the check is over.  *)
LEMMA DataTyped ==
    ASSUME Typed, NEW r \in Requests, NEW n, Data(r, n)
    PROVE  Typed'
<1> DEFINE read == value[r] \o SubSeq(helper[r].out, 1, n)
           v == Unprompted(read)
           rest == SubSeq(helper[r].out, n + 1, Len(helper[r].out))
           written == IF r \in check THEN AfterCheck(v[1]) ELSE <<>>
           understood == ~(v = <<>> \/ v[1] \notin H!Answers)
<1>1. helper[r] \in H!Helpers /\ value[r] \in Seq(H!Tokens) /\ n \in 1 .. Len(helper[r].out)
  BY DEF Typed, TypeOK, Data
<1>2. helper[r].out \in Seq(H!Tokens) /\ helper[r].inp \in Seq(H!Messages)
  BY <1>1 DEF H!Helpers
<1>3. rest \in Seq(H!Tokens) /\ SubSeq(helper[r].out, 1, n) \in Seq(H!Tokens)
  <2> DEFINE out == helper[r].out
  <2>1. out \in Seq(H!Tokens) /\ n \in 1 .. Len(out)
    BY <1>1, <1>2
  <2> HIDE DEF out
  <2>2. Len(out) \in Nat /\ \A i \in 1 .. Len(out) : out[i] \in H!Tokens
    BY <2>1, LenProperties, ElementOfSeq
  <2>3. SubSeq(out, 1, n) \in Seq(H!Tokens)
    BY <2>1, <2>2, SubSeqProperties
  <2>4. SubSeq(out, n + 1, Len(out)) \in Seq(H!Tokens)
    BY <2>1, <2>2, SubSeqProperties
  <2> QED
    BY <2>3, <2>4 DEF out
<1>4. v \in Seq(H!Tokens)
  <2>1. read \in Seq(H!Tokens)
    BY <1>1, <1>3, ConcatProperties
  <2> HIDE DEF read
  <2>2. AfterJ(read) \in Seq(H!Tokens) /\ Strip(AfterJ(read), "b") \in Seq(H!Tokens)
    BY <2>1, StripTyped DEF AfterI, AfterJ
  <2> QED
    BY <2>1, <2>2, Zenon DEF Unprompted
<1>5. understood => Trimmed(v) \in Seq(H!Tokens)
  BY <1>4, HeadTailProperties DEF Trimmed
<1>6. written \in Seq(H!Messages)
  <2>1. "r" \in H!Messages /\ "end" \in H!Messages
    BY DEF H!Messages, H!Actions
  <2> QED
    BY <2>1 DEF AfterCheck
<1>7. helper[r].inp \o written \in Seq(H!Messages)
  BY <1>2, <1>6, ConcatProperties
<1>8. UNCHANGED <<stage, kind, owner, timers, killed, activeRequest, detached, overlapped>>
  BY DEF Data
<1>9. notes' \subseteq Requests
  <2>1. ASSUME NEW u PROVE NotesAfter(u) \subseteq notes \cup ({activeRequest} \ {NoRequest})
    BY Zenon DEF NotesAfter, CleanedNotes
  <2>2. notes' = NotesAfter(read)
    BY DEF Data
  <2> QED
    BY <2>1, <2>2 DEF Typed, TypeOK
<1> HIDE DEF read, v, rest, written
<1>10. CASE ~understood
  <2>1. /\ value' = [value EXCEPT ![r] = v]
        /\ helper' = [helper EXCEPT ![r].out = rest]
        /\ UNCHANGED <<check, responded, verdicts>>
    BY <1>10 DEF Data, read, v, rest
  <2>2. ASSUME NEW h \in H!Helpers
        PROVE  [h EXCEPT !.out = rest] \in H!Helpers
    BY <1>3 DEF H!Helpers
  <2>3. helper' \in [Requests -> H!Helpers] /\ value' \in [Requests -> Seq(H!Tokens)]
    BY <2>1, <2>2, <1>4 DEF Typed, TypeOK
  <2>4. TypeOK'
    BY <1>8, <1>9, <2>1, <2>3 DEF Typed, TypeOK
  <2>5. stage[r] = "running"
    BY DEF Data
  <2>6. Waits' /\ IdleBefore'
    BY <1>8, <2>1, <2>5 DEF Typed, TypeOK, Waits, IdleBefore, H!Helpers
  <2> QED
    BY <2>4, <2>6 DEF Typed
<1>11. CASE understood
  <2>1. /\ value' = [value EXCEPT ![r] = Trimmed(v)]
        /\ helper' = [helper EXCEPT ![r].out = rest, ![r].inp = @ \o written]
        /\ check' = IF v[1] = "err4" THEN check \ {r} ELSE check
        /\ responded' = IF r \in check THEN responded ELSE responded \cup {r}
        /\ IF r \notin check THEN Emit(r, v[1])
           ELSE IF v[1] = "err4" THEN UNCHANGED verdicts
           ELSE Emit(r, CheckVerdict(v[1]))
    BY <1>11 DEF Data, read, v, rest, written
  <2>2. helper' = [helper EXCEPT ![r] = [helper[r] EXCEPT !.out = rest,
                                                         !.inp = helper[r].inp \o written]]
    BY <2>1, <1>1 DEF Typed, TypeOK, H!Helpers
  <2>3. [helper[r] EXCEPT !.out = rest, !.inp = helper[r].inp \o written] \in H!Helpers
    <3>1. ASSUME NEW h \in H!Helpers, NEW i \in Seq(H!Messages)
          PROVE  [h EXCEPT !.out = rest, !.inp = i] \in H!Helpers
      BY <1>3 DEF H!Helpers
    <3> QED
      BY <1>1, <1>7, <3>1
  <2>4. helper' \in [Requests -> H!Helpers] /\ value' \in [Requests -> Seq(H!Tokens)]
    BY <2>1, <2>2, <2>3, <1>5, <1>11 DEF Typed, TypeOK
  <2>5. verdicts' \in [Requests -> Seq(Verdicts)]
    <3>1. v[1] \in Verdicts /\ CheckVerdict(v[1]) \in Verdicts
      BY <1>11 DEF Verdicts, CheckVerdict
    <3>2. ASSUME NEW a \in Verdicts, Emit(r, a) PROVE verdicts' \in [Requests -> Seq(Verdicts)]
      <4>1. Append(verdicts[r], a) \in Seq(Verdicts)
        BY AppendProperties DEF Typed, TypeOK
      <4> QED
        BY <3>2, <4>1 DEF Emit, Typed, TypeOK
    <3> QED
      BY <2>1, <3>1, <3>2 DEF Typed, TypeOK
  <2>6. TypeOK'
    BY <1>8, <1>9, <2>1, <2>4, <2>5 DEF Typed, TypeOK
  <2>7. stage[r] = "running"
    BY DEF Data
  <2>8. IdleBefore'
    BY <1>8, <2>1, <2>2, <2>7 DEF Typed, TypeOK, IdleBefore
  <2>9. r \in check' => helper'[r].op # "r" /\ helper'[r].inp \in Seq(NoRegister)
    <3> SUFFICES ASSUME r \in check'
                 PROVE  helper'[r].op # "r" /\ helper'[r].inp \in Seq(NoRegister)
      OBVIOUS
    <3>1. r \in check /\ v[1] # "err4"
      BY <2>1
    <3>2. written = <<"end">>
      BY <3>1 DEF written, AfterCheck
    <3>3. written \in Seq(NoRegister)
      BY <3>2 DEF NoRegister
    <3>4. helper[r].inp \in Seq(NoRegister) /\ helper[r].op # "r"
      BY <3>1 DEF Typed, Waits
    <3>5. helper[r].inp \o written \in Seq(NoRegister)
      BY <3>3, <3>4, ConcatProperties
    <3>6. helper'[r].op = helper[r].op /\ helper'[r].inp = helper[r].inp \o written
      BY <2>2, <1>1 DEF Typed, TypeOK, H!Helpers
    <3> QED
      BY <3>4, <3>5, <3>6
  <2>10. Waits'
    BY <2>1, <2>2, <2>9 DEF Typed, TypeOK, Waits
  <2> QED
    BY <2>6, <2>8, <2>10 DEF Typed
<1> QED
  BY <1>10, <1>11

(* A spawn that failed is told, and its request is over.                   *)
LEMMA SpawnErrorTyped ==
    ASSUME Typed, IInv, NEW r \in Requests, SpawnError(r)
    PROVE  Typed'
<1> USE DEF SpawnError
<1>1. /\ helper' \in [Requests -> H!Helpers]
      /\ \A q \in Requests : helper'[q].op = helper[q].op /\ helper'[q].inp = helper[q].inp
      /\ \A q \in Requests : stage[q] \in {"idle", "validating", "checking"} =>
                                 helper'[q] = H!InitHelper
      /\ timers' \subseteq Requests /\ killed' \subseteq Requests
      /\ notes' \subseteq Requests /\ activeRequest' = NoRequest
  BY KillTyped
<1>2. verdicts' \in [Requests -> Seq(Verdicts)]
  <2>1. Append(verdicts[r], "nospawn") \in Seq(Verdicts)
    BY AppendProperties DEF Typed, TypeOK, Verdicts
  <2> QED
    BY <2>1 DEF Emit, Typed, TypeOK
<1>3. TypeOK'
  BY <1>1, <1>2 DEF Typed, TypeOK
<1>4. Waits' /\ IdleBefore'
  BY <1>1 DEF Typed, TypeOK, Waits, IdleBefore
<1> QED
  BY <1>3, <1>4 DEF Typed

(* A helper that has ended is forgotten.                                   *)
LEMMA ExitTyped ==
    ASSUME Typed, NEW r \in Requests, Exit(r)
    PROVE  Typed'
<1> USE DEF Exit
<1>1. H!InitHelper \in H!Helpers /\ H!InitHelper.op # "r" /\ H!InitHelper.inp \in Seq(NoRegister)
  BY MaxPromptsAssumption, EmptySeq DEF H!InitHelper, H!Helpers
<1>2. verdicts' \in [Requests -> Seq(Verdicts)]
  <2>1. ExitVerdict(r) \in Seq(Verdicts)
    <3>1. "nospawn" \in Verdicts /\ "noresponse" \in Verdicts
      BY DEF Verdicts
    <3> QED
      BY <3>1 DEF ExitVerdict
  <2>2. verdicts[r] \o ExitVerdict(r) \in Seq(Verdicts)
    BY <2>1, ConcatProperties DEF Typed, TypeOK
  <2> QED
    BY <2>2 DEF Typed, TypeOK
<1>3. value' \in [Requests -> Seq(H!Tokens)] /\ helper' \in [Requests -> H!Helpers]
  BY <1>1, EmptySeq DEF Typed, TypeOK
<1>4. TypeOK'
  BY <1>2, <1>3 DEF NotesAtExit, CleanedNotes, ActiveAfterExit, Typed, TypeOK
<1>5. Waits' /\ IdleBefore'
  BY <1>1 DEF Typed, TypeOK, Waits, IdleBefore
<1> QED
  BY <1>4, <1>5 DEF Typed

(* A helper that works was started, and keeps what it may be told.         *)
LEMMA HelperTyped ==
    ASSUME Typed, NEW r \in Requests, stage[r] = "running",
           NEW g \in H!Helpers,
           helper[r].op # "r" /\ helper[r].inp \in Seq(NoRegister) =>
               g.op # "r" /\ g.inp \in Seq(NoRegister),
           helper' = [helper EXCEPT ![r] = g],
           UNCHANGED <<reqVars, value, responded, activeVars, detached, histVars>>
    PROVE  Typed'
<1>1. TypeOK'
  BY DEF reqVars, activeVars, histVars, Typed, TypeOK
<1>2. Waits' /\ IdleBefore'
  BY DEF reqVars, Typed, TypeOK, Waits, IdleBefore
<1> QED
  BY <1>1, <1>2 DEF Typed

-----------------------------------------------------------------------------
(* Every event keeps the types.                                            *)
LEMMA NextTyped == Typed /\ IInv /\ [Next]_vars => Typed'
<1> SUFFICES ASSUME Typed, IInv, [Next]_vars PROVE Typed'
  OBVIOUS
<1> USE DEF reqVars, activeVars, histVars, runVars
<1>1. ASSUME NEW r \in Requests, ExecBin(r) PROVE Typed'
  <2>1. PICK k \in KindsAsked : kind' = [kind EXCEPT ![r] = k]
    BY <1>1 DEF ExecBin
  <2>2. k \in Kinds
    BY KindsAskedAssumption
  <2>3. r \notin check
    BY <1>1 DEF ExecBin, Typed, IdleBefore
  <2> QED
    BY <1>1, <2>1, <2>2, <2>3, WaitTyped DEF ExecBin
<1>2. ASSUME NEW r \in Requests, stage[r] \in {"validating", "checking"},
             NEW to \in {"checking", "rejected"}, stage' = [stage EXCEPT ![r] = to],
             UNCHANGED <<kind, owner, check, runVars, activeVars, detached, histVars>>
      PROVE  Typed'
  <2>1. kind[r] \in Kinds /\ kind' = [kind EXCEPT ![r] = kind[r]]
    BY <1>2 DEF Typed, TypeOK
  <2>2. r \in check => kind[r] = "checked"
    BY DEF Typed, TypeOK
  <2> QED
    BY <1>2, <2>1, <2>2, WaitTyped
<1>3. ASSUME NEW r \in Requests, Validated(r) PROVE Typed'
  BY <1>2, <1>3, ExecTyped DEF Validated, Reject
<1>4. ASSUME NEW r \in Requests, CheckValidated(r) PROVE Typed'
  BY <1>2, <1>4, ExecTyped DEF CheckValidated, Reject
<1>5. ASSUME NEW r \in Requests, SomeData(r) PROVE Typed'
  BY <1>5, DataTyped DEF SomeData
<1>6. ASSUME NEW r \in Requests, SpawnError(r) \/ Exit(r) PROVE Typed'
  BY <1>6, SpawnErrorTyped, ExitTyped
<1>7. ASSUME NEW armed, armed \subseteq timers, KillExe(armed),
             UNCHANGED <<reqVars, value, responded, histVars>>, detached' \subseteq Workers
      PROVE  Typed'
  <2>1. TypeOK'
    BY <1>7, KillTyped DEF Typed, TypeOK
  <2>2. Waits' /\ IdleBefore'
    BY <1>7, KillTyped DEF Typed, TypeOK, Waits, IdleBefore
  <2> QED
    BY <2>1, <2>2 DEF Typed
<1>8. ASSUME NEW r \in Requests, Timer(r) PROVE Typed'
  BY <1>7, <1>8 DEF Timer, Typed, TypeOK
<1>9. ASSUME UNCHANGED <<reqVars, runVars, activeVars, histVars>>, detached' \subseteq Workers
      PROVE  Typed'
  BY <1>9 DEF Typed, TypeOK, Waits, IdleBefore
<1>10. ASSUME NEW w \in Workers, Detach(w) PROVE Typed'
  <2>1. detached' \subseteq Workers
    BY <1>10 DEF Detach, Typed, TypeOK
  <2> QED
    BY <1>7, <1>9, <1>10, <2>1 DEF Detach
<1>11. ASSUME NEW r \in Requests, HelperWorks(r) PROVE Typed'
  <2>1. PICK g \in H!HelperSteps(helper[r]) : helper' = [helper EXCEPT ![r] = g]
    BY <1>11 DEF HelperWorks
  <2>2. helper[r] \in H!Helpers
    BY DEF Typed, TypeOK
  <2> QED
    BY <1>11, <2>1, <2>2, HelperStepTyped, HelperTyped DEF HelperWorks
<1>12. CASE UNCHANGED vars
  BY <1>9, <1>12 DEF vars, Typed, TypeOK
<1> QED
  BY <1>1, <1>3, <1>4, <1>5, <1>6, <1>8, <1>10, <1>11, <1>12 DEF Next

LEMMA TypedHolds == Spec => []Typed
  BY InitTyped, NextTyped, IInvHolds, PTL DEF Spec

(* The variables have their types.                                         *)
THEOREM TypeCorrect == Spec => []TypeOK
<1>1. Typed => TypeOK
  BY DEF Typed
<1> QED
  BY <1>1, TypedHolds, PTL

(* A register that comes with a check is not given to the helper, nor is   *)
(* it on its way there, before the check was answered with code 4, however *)
(* what the helper prints is divided (index.js:149-165).                   *)
THEOREM RegisterWaits == Spec => []RegisterAfterCheck
<1>1. Typed => RegisterAfterCheck
  <2> SUFFICES ASSUME Typed, NEW r \in check
               PROVE  /\ helper[r].op # "r"
                      /\ \A k \in DOMAIN helper[r].inp : helper[r].inp[k] # "r"
    BY DEF RegisterAfterCheck
  <2>1. helper[r].op # "r" /\ helper[r].inp \in Seq(NoRegister)
    BY DEF Typed, Waits
  <2> QED
    BY <2>1, LenProperties DEF NoRegister
<1> QED
  BY <1>1, TypedHolds, PTL

-----------------------------------------------------------------------------
(* What a helper and the page of its request may still say to each other.  *)
(* The verdicts that must not be misplaced come from these answers.        *)
Results == {"ok", "err4"}

(* An action is at the helper or on its way there.                         *)
Pending(h) == h.op # "idle" \/ \E k \in 1 .. Len(h.inp) : h.inp[k] # "end"

(* There is at most one.                                                   *)
OneAsked(h) ==
    /\ \A j, k \in 1 .. Len(h.inp) : j < k /\ h.inp[j] # "end" => h.inp[k] = "end"
    /\ h.op # "idle" => \A k \in 1 .. Len(h.inp) : h.inp[k] = "end"

(* s, what was printed and not yet understood, has one of S in it; and     *)
(* none of S stands behind an answer.                                      *)
Holds(s, S) == \E k \in 1 .. Len(s) : s[k] \in S

NoneAfter(s, S) ==
    \A j, k \in 1 .. Len(s) : j < k /\ s[j] \in H!Answers => s[k] \notin S

(* The answer to an action that was asked is the first thing that is told. *)
(* A living helper owes an answer only while none was told or is on its    *)
(* way; a dead one may have left an error of its own behind the answer.    *)
Fits(h, s, told) ==
    /\ OneAsked(h)
    /\ NoneAfter(s, Results)
    /\ Holds(s, Results) => told = <<>> /\ ~Pending(h)
    /\ h.exit = "none" =>
          /\ NoneAfter(s, H!Answers)
          /\ Holds(s, H!Answers) => told = <<>> /\ ~Pending(h)
          /\ Pending(h) => told = <<>>

(* There is no sign challenge to answer with code 4.                       *)
NoSign(h, s) ==
    /\ h.op # "s"
    /\ \A k \in 1 .. Len(h.inp) : h.inp[k] # "s"
    /\ ~Holds(s, {"err4"})

Unread(r) == value[r] \o helper[r].out

(* A helper that runs keeps to this, and one that was told to register     *)
(* only, or whose check is over, has no sign to answer.                    *)
Dialogue(r) ==
    stage[r] = "running" =>
        /\ Fits(helper[r], Unread(r), verdicts[r])
        /\ kind[r] = "sign" \/ r \in check \/ NoSign(helper[r], Unread(r))

(* Before the helper runs, nothing was said.                               *)
Untold(r) ==
    stage[r] \in {"idle", "validating", "checking"} => value[r] = <<>> /\ verdicts[r] = <<>>

(* VerdictsFit, for one request.                                           *)
OwnVerdicts(r) ==
    \A k \in 1 .. Len(verdicts[r]) :
        /\ verdicts[r][k] = "err4" => kind[r] = "sign"
        /\ verdicts[r][k] = "registered" => kind[r] = "checked"
        /\ verdicts[r][k] \in {"ok", "registered"} => k = 1

Told == \A r \in Requests : Dialogue(r) /\ Untold(r) /\ OwnVerdicts(r)

-----------------------------------------------------------------------------
(* A sequence and another one behind it, place by place.                   *)
LEMMA Joined ==
    ASSUME NEW S, NEW s \in Seq(S), NEW t \in Seq(S)
    PROVE  /\ s \o t \in Seq(S)
           /\ Len(s) \in Nat /\ Len(t) \in Nat /\ Len(s \o t) = Len(s) + Len(t)
           /\ \A k \in 1 .. Len(s) : (s \o t)[k] = s[k]
           /\ \A k \in 1 .. Len(t) : (s \o t)[Len(s) + k] = t[k]
<1>1. Len(s) \in Nat /\ Len(t) \in Nat
  BY LenProperties
<1>2. /\ s \o t \in Seq(S)
      /\ Len(s \o t) = Len(s) + Len(t)
      /\ \A k \in 1 .. Len(s) + Len(t) :
            (s \o t)[k] = IF k <= Len(s) THEN s[k] ELSE t[k - Len(s)]
  BY ConcatProperties
<1>3. ASSUME NEW k \in 1 .. Len(s) PROVE (s \o t)[k] = s[k]
  BY <1>1, <1>2
<1>4. ASSUME NEW k \in 1 .. Len(t) PROVE (s \o t)[Len(s) + k] = t[k]
  <2>1. Len(s) + k \in 1 .. Len(s) + Len(t) /\ ~(Len(s) + k <= Len(s)) /\ (Len(s) + k) - Len(s) = k
    BY <1>1
  <2> QED
    BY <1>2, <2>1
<1> QED
  BY <1>1, <1>2, <1>3, <1>4

(* One more thing is printed.                                              *)
LEMMA OneMore ==
    ASSUME NEW s \in Seq(H!Tokens), NEW token \in H!Tokens, NEW S
    PROVE  /\ Holds(Append(s, token), S) <=> Holds(s, S) \/ token \in S
           /\ NoneAfter(s, S) /\ (token \in S => ~Holds(s, H!Answers)) =>
                 NoneAfter(Append(s, token), S)
<1> DEFINE t == Append(s, token)
<1>1. Len(s) \in Nat /\ Len(t) = Len(s) + 1
  BY AppendProperties, LenProperties
<1>2. t[Len(s) + 1] = token /\ \A k \in 1 .. Len(s) : t[k] = s[k]
  BY AppendProperties
<1> HIDE DEF t
<1>3. Holds(t, S) <=> Holds(s, S) \/ token \in S
  BY <1>1, <1>2 DEF Holds
<1>4. NoneAfter(s, S) /\ (token \in S => ~Holds(s, H!Answers)) => NoneAfter(t, S)
  BY <1>1, <1>2 DEF Holds, NoneAfter
<1> QED
  BY <1>3, <1>4 DEF t

(* It comes behind what the extension has read already.                    *)
LEMMA SamePrinted ==
    ASSUME NEW v \in Seq(H!Tokens), NEW out \in Seq(H!Tokens), NEW token \in H!Tokens
    PROVE  v \o Append(out, token) = Append(v \o out, token)
  OBVIOUS

(* The helper takes an action: nothing but the end is left to be read.     *)
LEMMA Taken ==
    ASSUME NEW h \in H!Helpers, OneAsked(h), h.op = "idle", h.inp # <<>>,
           Head(h.inp) # "end",
           NEW g \in H!Helpers, g.op = Head(h.inp), g.inp = Tail(h.inp)
    PROVE  /\ OneAsked(g) /\ Pending(h)
           /\ (\A k \in 1 .. Len(h.inp) : h.inp[k] # "s") =>
                  g.op # "s" /\ \A k \in 1 .. Len(g.inp) : g.inp[k] # "s"
<1> DEFINE i == h.inp
           t == Tail(i)
<1>1. i \in Seq(H!Messages)
  BY DEF H!Helpers
<1>2. i # <<>> /\ g.inp = t /\ g.op = Head(i) /\ Head(i) # "end"
  OBVIOUS
<1>3. \A j, k \in 1 .. Len(i) : j < k /\ i[j] # "end" => i[k] = "end"
  BY DEF OneAsked
<1> HIDE DEF i
<1>4. Len(i) \in Nat \ {0} /\ Head(i) = i[1] /\ Len(t) = Len(i) - 1
  BY <1>1, <1>2, LenProperties, EmptySeq, HeadTailProperties
<1>5. \A k \in 1 .. Len(t) : t[k] = i[k + 1]
  BY <1>1, <1>2, HeadTailProperties
<1> HIDE DEF t
<1>6. \A k \in 1 .. Len(t) : t[k] = "end"
  BY <1>2, <1>3, <1>4, <1>5
<1>7. OneAsked(g)
  BY <1>2, <1>6 DEF OneAsked
<1>8. Pending(h)
  BY <1>2, <1>4 DEF Pending, i
<1>9. (\A k \in 1 .. Len(i) : i[k] # "s") => g.op # "s" /\ \A k \in 1 .. Len(t) : t[k] # "s"
  BY <1>2, <1>4, <1>6
<1> QED
  BY <1>2, <1>7, <1>8, <1>9 DEF i

(* Every step of a helper keeps to the dialogue, whatever was told.        *)
LEMMA HelperStepFits ==
    ASSUME NEW h \in H!Helpers, NEW g \in H!HelperSteps(h), NEW v \in Seq(H!Tokens), NEW told,
           Fits(h, v \o h.out, told)
    PROVE  /\ Fits(g, v \o g.out, told)
           /\ NoSign(h, v \o h.out) => NoSign(g, v \o g.out)
<1> DEFINE s == v \o h.out
<1> USE DEF H!When
<1>a. h.exit = "none"
  BY DEF H!HelperSteps
<1>b. g \in H!Helpers
  BY HelperStepTyped
<1>c. s \in Seq(H!Tokens) /\ h.out \in Seq(H!Tokens)
  BY ConcatProperties DEF H!Helpers
<1>d. ASSUME NEW token \in H!Tokens, g.out = Append(h.out, token)
      PROVE  v \o g.out = Append(s, token)
  BY <1>c, <1>d, SamePrinted
<1>e. Fits(h, s, told)
  OBVIOUS
<1> HIDE DEF s
<1>1. CASE g \in H!PromptSteps(h)
  <2>1. h.prompts < MaxPrompts
    BY <1>1 DEF H!PromptSteps
  <2>2. PICK token \in H!Prompts, state \in {"m", "p", "b"} : g = H!Prompt(h, token, state)
    BY <1>1, <2>1 DEF H!PromptSteps, H!Prompts
  <2>3. g.exit = h.exit /\ g.op = h.op /\ g.inp = h.inp /\ g.out = Append(h.out, token)
    BY <2>2 DEF H!Prompt, H!Helpers
  <2>4. token \in H!Tokens /\ token \notin H!Answers /\ token \notin Results
    BY DEF H!Tokens, H!Prompts, H!Answers, Results
  <2>5. v \o g.out = Append(s, token)
    BY <1>d, <2>3, <2>4
  <2>6. Fits(g, Append(s, token), told)
    BY <1>c, <1>e, <2>3, <2>4, OneMore DEF Fits, OneAsked, Pending
  <2>7. NoSign(h, s) => NoSign(g, Append(s, token))
    BY <1>c, <2>3, <2>4, OneMore DEF NoSign, H!Answers
  <2> QED
    BY <2>5, <2>6, <2>7 DEF s
<1>2. CASE g \in H!TakeSteps(h)
  <2>1. h.op = "idle" /\ h.inp # <<>>
    BY <1>2 DEF H!TakeSteps
  <2>2. CASE Head(h.inp) = "end"
    <3>1. g.op = h.op /\ g.inp = h.inp /\ g.out = h.out /\ g.exit # "none"
      BY <1>2, <2>1, <2>2 DEF H!TakeSteps, H!Helpers
    <3> QED
      BY <3>1, <1>e DEF s, Fits, NoSign, OneAsked, Pending
  <2>3. CASE Head(h.inp) # "end"
    <3>1. g = [h EXCEPT !.op = Head(h.inp), !.inp = Tail(h.inp)]
      BY <1>2, <2>1, <2>3 DEF H!TakeSteps
    <3>2. g.op = Head(h.inp) /\ g.inp = Tail(h.inp) /\ g.out = h.out /\ g.exit = h.exit
      BY <3>1 DEF H!Helpers
    <3>3. OneAsked(h)
      BY <1>e DEF Fits
    <3>4. /\ OneAsked(g) /\ Pending(h)
          /\ (\A k \in 1 .. Len(h.inp) : h.inp[k] # "s") =>
                  g.op # "s" /\ \A k \in 1 .. Len(g.inp) : g.inp[k] # "s"
      BY <3>2, <3>3, <1>b, <2>1, <2>3, Taken
    <3>5. ~Holds(s, Results) /\ ~Holds(s, H!Answers) /\ told = <<>>
      BY <1>a, <1>e, <3>4 DEF Fits
    <3> QED
      BY <1>a, <1>e, <3>2, <3>4, <3>5 DEF s, Fits, NoSign
  <2> QED
    BY <2>2, <2>3
<1>3. CASE g \in H!AnswerSteps(h)
  <2>1. h.op # "idle"
    BY <1>3 DEF H!AnswerSteps
  <2>2. PICK a \in H!AnswersTo(h.op) : g = [h EXCEPT !.op = "idle", !.out = Append(h.out, a)]
    BY <1>3 DEF H!AnswerSteps
  <2>3. a \in H!Answers /\ a \in H!Tokens /\ (h.op # "s" => a # "err4")
    BY <2>1 DEF H!AnswersTo, H!Answers, H!Tokens, H!Helpers, H!Actions
  <2>4. g.exit = h.exit /\ g.op = "idle" /\ g.inp = h.inp /\ g.out = Append(h.out, a)
    BY <2>2 DEF H!Helpers
  <2>5. v \o g.out = Append(s, a)
    BY <1>d, <2>3, <2>4
  <2>6. Pending(h)
    BY <2>1 DEF Pending
  <2>7. ~Holds(s, Results) /\ ~Holds(s, H!Answers) /\ told = <<>>
    BY <1>a, <1>e, <2>6 DEF Fits
  <2>8. OneAsked(g) /\ ~Pending(g)
    BY <1>e, <2>1, <2>4 DEF Fits, OneAsked, Pending
  <2>9. Fits(g, Append(s, a), told)
    BY <1>a, <1>c, <1>e, <2>3, <2>7, <2>8, OneMore DEF Fits
  <2>10. NoSign(h, s) => NoSign(g, Append(s, a))
    BY <1>c, <2>3, <2>4, OneMore DEF NoSign
  <2> QED
    BY <2>5, <2>9, <2>10 DEF s
<1>4. CASE g \in H!FatalSteps(h)
  <2>1. g.exit # "none" /\ g.op = h.op /\ g.inp = h.inp /\ g.out = Append(h.out, "err")
    BY <1>4 DEF H!FatalSteps, H!Helpers
  <2>2. "err" \in H!Tokens /\ "err" \notin Results /\ "err" # "err4"
    BY DEF H!Tokens, H!Answers, Results
  <2>3. v \o g.out = Append(s, "err")
    BY <1>d, <2>1, <2>2
  <2>4. Fits(g, Append(s, "err"), told)
    BY <1>c, <1>e, <2>1, <2>2, OneMore DEF Fits, OneAsked, Pending
  <2>5. NoSign(h, s) => NoSign(g, Append(s, "err"))
    BY <1>c, <2>1, <2>2, OneMore DEF NoSign
  <2> QED
    BY <2>3, <2>4, <2>5 DEF s
<1>5. CASE g \in H!DeathSteps(h)
  <2>1. g.op = h.op /\ g.inp = h.inp /\ g.out = h.out /\ g.exit # "none"
    BY <1>5 DEF H!DeathSteps, H!Helpers
  <2> QED
    BY <2>1, <1>e DEF s, Fits, NoSign, OneAsked, Pending
<1> QED
  BY <1>1, <1>2, <1>3, <1>4, <1>5 DEF H!HelperSteps

(* t is what is left of s when some things at its front are gone.          *)
Rest(t, s) ==
    /\ Len(t) <= Len(s)
    /\ \A k \in 1 .. Len(t) : t[k] = s[k + (Len(s) - Len(t))]

(* Nothing is added by taking things away at the front.                    *)
LEMMA RestFits ==
    ASSUME NEW s \in Seq(H!Tokens), NEW t \in Seq(H!Tokens), Rest(t, s), NEW S
    PROVE  /\ NoneAfter(s, S) => NoneAfter(t, S)
           /\ Holds(t, S) => Holds(s, S)
<1>1. Len(t) \in Nat /\ Len(s) \in Nat /\ Len(t) <= Len(s)
  BY LenProperties DEF Rest
<1> DEFINE d == Len(s) - Len(t)
<1>2. d \in Nat
  BY <1>1
<1>3. \A k \in 1 .. Len(t) : k + d \in 1 .. Len(s) /\ t[k] = s[k + d]
  BY <1>1 DEF Rest
<1> HIDE DEF d
<1>4. \A j, k \in 1 .. Len(t) : j < k => j + d < k + d
  BY <1>1, <1>2
<1>5. NoneAfter(s, S) => NoneAfter(t, S)
  BY <1>3, <1>4 DEF NoneAfter
<1>6. Holds(t, S) => Holds(s, S)
  BY <1>3 DEF Holds
<1> QED
  BY <1>5, <1>6

LEMMA RestAgain ==
    ASSUME NEW s \in Seq(H!Tokens), NEW t \in Seq(H!Tokens), NEW u \in Seq(H!Tokens),
           Rest(t, s), Rest(u, t)
    PROVE  Rest(u, s)
<1>1. Len(t) \in Nat /\ Len(s) \in Nat /\ Len(u) \in Nat
  BY LenProperties
<1>2. Len(u) <= Len(s)
  BY <1>1 DEF Rest
<1>3. ASSUME NEW k \in 1 .. Len(u) PROVE u[k] = s[k + (Len(s) - Len(u))]
  <2> DEFINE j == k + (Len(t) - Len(u))
  <2>1. j \in 1 .. Len(t) /\ j + (Len(s) - Len(t)) = k + (Len(s) - Len(u))
    BY <1>1 DEF Rest
  <2>2. u[k] = t[j]
    BY DEF Rest
  <2> HIDE DEF j
  <2>3. t[j] = s[j + (Len(s) - Len(t))]
    BY <2>1 DEF Rest
  <2> QED
    BY <2>1, <2>2, <2>3
<1> QED
  BY <1>2, <1>3 DEF Rest

LEMMA TailRest ==
    ASSUME NEW s \in Seq(H!Tokens), s # <<>>
    PROVE  Tail(s) \in Seq(H!Tokens) /\ Rest(Tail(s), s) /\ Len(Tail(s)) = Len(s) - 1
<1>1. Tail(s) \in Seq(H!Tokens) /\ Len(Tail(s)) = Len(s) - 1
  BY HeadTailProperties
<1>2. Len(s) \in Nat /\ \A k \in 1 .. Len(Tail(s)) : Tail(s)[k] = s[k + 1]
  BY HeadTailProperties, LenProperties
<1> QED
  BY <1>1, <1>2 DEF Rest

(* The prompt tests take away at the front only.                           *)
LEMMA UnpromptedRest ==
    ASSUME NEW s \in Seq(H!Tokens)
    PROVE  Unprompted(s) \in Seq(H!Tokens) /\ Rest(Unprompted(s), s)
<1>1. ASSUME NEW u \in Seq(H!Tokens), Rest(u, s), NEW token
      PROVE  Strip(u, token) \in Seq(H!Tokens) /\ Rest(Strip(u, token), s)
  <2>1. CASE HeadIs(u, token)
    BY <1>1, <2>1, TailRest, RestAgain DEF Strip, HeadIs
  <2>2. CASE ~HeadIs(u, token)
    BY <1>1, <2>2 DEF Strip
  <2> QED
    BY <2>1, <2>2
<1>2. Rest(s, s)
  BY LenProperties DEF Rest
<1>3. AfterI(s) \in Seq(H!Tokens) /\ Rest(AfterI(s), s)
  BY <1>1, <1>2 DEF AfterI
<1>4. AfterJ(s) \in Seq(H!Tokens) /\ Rest(AfterJ(s), s)
  BY <1>1, <1>3 DEF AfterJ
<1>5. Strip(AfterJ(s), "b") \in Seq(H!Tokens) /\ Rest(Strip(AfterJ(s), "b"), s)
  BY <1>1, <1>4
<1> QED
  BY <1>2, <1>4, <1>5, Zenon DEF Unprompted

(* What is printed behind it stays.                                        *)
LEMMA RestConcat ==
    ASSUME NEW s \in Seq(H!Tokens), NEW t \in Seq(H!Tokens), NEW u \in Seq(H!Tokens),
           Rest(t, s)
    PROVE  Rest(t \o u, s \o u)
<1>1. Len(t) \in Nat /\ Len(s) \in Nat /\ Len(u) \in Nat /\ Len(t) <= Len(s)
  BY LenProperties DEF Rest
<1>2. /\ Len(t \o u) = Len(t) + Len(u) /\ Len(s \o u) = Len(s) + Len(u)
      /\ \A k \in 1 .. Len(t) + Len(u) :
            (t \o u)[k] = IF k <= Len(t) THEN t[k] ELSE u[k - Len(t)]
      /\ \A k \in 1 .. Len(s) + Len(u) :
            (s \o u)[k] = IF k <= Len(s) THEN s[k] ELSE u[k - Len(s)]
  BY ConcatProperties
<1> DEFINE a == t \o u
           b == s \o u
           d == Len(s) - Len(t)
<1>3. Len(a) <= Len(b) /\ Len(b) - Len(a) = d /\ d \in Nat
  BY <1>1, <1>2
<1>4. ASSUME NEW k \in 1 .. Len(a)
      PROVE  a[k] = b[k + d]
  <2>1. k \in 1 .. Len(t) + Len(u) /\ k + d \in 1 .. Len(s) + Len(u)
    BY <1>1, <1>2
  <2>2. CASE k <= Len(t)
    <3>1. a[k] = t[k] /\ b[k + d] = s[k + d]
      BY <2>1, <2>2, <1>1, <1>2
    <3>2. t[k] = s[k + d]
      BY <2>1, <2>2, <1>1 DEF Rest
    <3> QED
      BY <3>1, <3>2
  <2>3. CASE k > Len(t)
    <3>1. a[k] = u[k - Len(t)] /\ b[k + d] = u[(k + d) - Len(s)]
      BY <2>1, <2>3, <1>1, <1>2
    <3>2. (k + d) - Len(s) = k - Len(t)
      BY <2>1, <1>1
    <3> QED
      BY <3>1, <3>2
  <2> QED
    BY <2>1, <2>2, <2>3, <1>1
<1> HIDE DEF a, b, d
<1>5. Rest(a, b)
  BY <1>3, <1>4 DEF Rest
<1> QED
  BY <1>5 DEF a, b

(* What a "data" event reads and what it leaves is what was printed.       *)
LEMMA CutConcat ==
    ASSUME NEW v \in Seq(H!Tokens), NEW out \in Seq(H!Tokens), NEW n \in 1 .. Len(out)
    PROVE  /\ SubSeq(out, 1, n) \in Seq(H!Tokens)
           /\ SubSeq(out, n + 1, Len(out)) \in Seq(H!Tokens)
           /\ (v \o SubSeq(out, 1, n)) \o SubSeq(out, n + 1, Len(out)) = v \o out
<1>1. Len(out) \in Nat /\ \A i \in 1 .. Len(out) : out[i] \in H!Tokens
  BY LenProperties, ElementOfSeq
<1> DEFINE a == SubSeq(out, 1, n)
           b == SubSeq(out, n + 1, Len(out))
<1>2. a \in Seq(H!Tokens) /\ Len(a) = n /\ \A k \in 1 .. n : a[k] = out[k]
  BY <1>1, SubSeqProperties
<1>3. b \in Seq(H!Tokens) /\ Len(b) = Len(out) - n
      /\ \A k \in 1 .. Len(out) - n : b[k] = out[k + n]
  BY <1>1, SubSeqProperties
<1> HIDE DEF a, b
<1> DEFINE c == v \o a
<1>4. /\ c \in Seq(H!Tokens) /\ Len(c) = Len(v) + n /\ Len(v) \in Nat
      /\ \A k \in 1 .. Len(v) + n : c[k] = IF k <= Len(v) THEN v[k] ELSE a[k - Len(v)]
  BY <1>2, LenProperties, ConcatProperties
<1> HIDE DEF c
<1> DEFINE l == c \o b
           m == v \o out
<1>5. /\ l \in Seq(H!Tokens) /\ Len(l) = Len(c) + Len(b)
      /\ \A k \in 1 .. Len(c) + Len(b) : l[k] = IF k <= Len(c) THEN c[k] ELSE b[k - Len(c)]
  BY <1>3, <1>4, ConcatProperties
<1>6. /\ m \in Seq(H!Tokens) /\ Len(m) = Len(v) + Len(out)
      /\ \A k \in 1 .. Len(v) + Len(out) : m[k] = IF k <= Len(v) THEN v[k] ELSE out[k - Len(v)]
  BY ConcatProperties
<1> HIDE DEF l, m
<1>7. Len(l) = Len(m)
  BY <1>1, <1>3, <1>4, <1>5, <1>6
<1>8. ASSUME NEW k \in 1 .. Len(m) PROVE l[k] = m[k]
  <2>1. m[k] = IF k <= Len(v) THEN v[k] ELSE out[k - Len(v)]
    BY <1>6
  <2>2. l[k] = IF k <= Len(v) + n THEN c[k] ELSE b[k - (Len(v) + n)]
    BY <1>3, <1>4, <1>5, <1>7
  <2>3. CASE k <= Len(v)
    BY <2>1, <2>2, <2>3, <1>1, <1>4, <1>6
  <2>4. CASE k > Len(v) /\ k <= Len(v) + n
    <3>1. l[k] = a[k - Len(v)] /\ k - Len(v) \in 1 .. n
      BY <2>2, <2>4, <1>1, <1>4, <1>6
    <3>2. a[k - Len(v)] = out[k - Len(v)]
      BY <3>1, <1>2
    <3>3. m[k] = out[k - Len(v)]
      BY <2>1, <2>4, <1>4, <1>6, <1>1
    <3> QED
      BY <3>1, <3>2, <3>3
  <2>5. CASE k > Len(v) + n
    <3>1. k - (Len(v) + n) \in 1 .. Len(out) - n /\ (k - (Len(v) + n)) + n = k - Len(v)
      BY <2>5, <1>1, <1>4, <1>6
    <3>2. b[k - (Len(v) + n)] = out[k - Len(v)]
      BY <3>1, <1>3
    <3>3. l[k] = b[k - (Len(v) + n)]
      BY <2>2, <2>5, <1>1, <1>4, <1>6
    <3>4. m[k] = out[k - Len(v)]
      BY <2>1, <2>5, <1>1, <1>4, <1>6
    <3> QED
      BY <3>2, <3>3, <3>4
  <2> QED
    BY <2>3, <2>4, <2>5, <1>1, <1>4, <1>6
<1>9. l = m
  BY <1>5, <1>6, <1>7, <1>8, SeqEqual
<1> QED
  BY <1>2, <1>3, <1>9 DEF a, b, c, l, m

(* The end of stdin asks nothing.                                          *)
LEMMA EndWritten ==
    ASSUME NEW h \in H!Helpers, OneAsked(h),
           NEW g \in H!Helpers, g.op = h.op, g.inp = h.inp \o <<"end">>
    PROVE  OneAsked(g) /\ (Pending(g) => Pending(h))
<1> DEFINE i == h.inp
           e == <<"end">>
           j == i \o e
<1>1. i \in Seq(H!Messages) /\ e \in Seq(H!Messages) /\ Len(e) = 1 /\ e[1] = "end"
  BY DEF H!Helpers, H!Messages
<1> HIDE DEF i, e
<1>2. /\ Len(i) \in Nat /\ Len(j) = Len(i) + Len(e)
      /\ \A k \in 1 .. Len(i) : j[k] = i[k]
      /\ \A k \in 1 .. Len(e) : j[Len(i) + k] = e[k]
  BY <1>1, Joined
<1> HIDE DEF j
<1>3. /\ \A k \in 1 .. Len(i) : j[k] = i[k]
      /\ j[Len(i) + 1] = "end"
  BY <1>1, <1>2
<1>4. g.inp = j /\ h.inp = i
  BY DEF i, j, e
<1> QED
  BY <1>2, <1>3, <1>4 DEF OneAsked, Pending

(* After the answer to the check the register is the one thing asked.      *)
LEMMA RegisterWritten ==
    ASSUME NEW h \in H!Helpers, OneAsked(h), ~Pending(h),
           NEW g \in H!Helpers, g.op = h.op, g.inp = h.inp \o <<"r", "end">>
    PROVE  OneAsked(g) /\ g.op # "s" /\ \A k \in 1 .. Len(g.inp) : g.inp[k] # "s"
<1> DEFINE i == h.inp
           e == <<"r", "end">>
           j == i \o e
<1>0. i \in Seq(H!Messages) /\ e \in Seq(H!Messages)
  BY DEF H!Helpers, H!Messages, H!Actions
<1>1. Len(e) = 2 /\ e[1] = "r" /\ e[2] = "end"
  OBVIOUS
<1> HIDE DEF i, e
<1>2. /\ Len(i) \in Nat /\ Len(j) = Len(i) + Len(e)
      /\ \A k \in 1 .. Len(i) : j[k] = i[k]
      /\ \A k \in 1 .. Len(e) : j[Len(i) + k] = e[k]
  BY <1>0, Joined
<1> HIDE DEF j
<1>3. /\ \A k \in 1 .. Len(i) : j[k] = i[k]
      /\ j[Len(i) + 1] = "r" /\ j[Len(i) + 2] = "end"
  <2>1. 1 \in 1 .. Len(e) /\ 2 \in 1 .. Len(e)
    BY <1>1
  <2> QED
    BY <1>1, <1>2, <2>1
<1>4. g.inp = j /\ h.inp = i
  BY DEF i, j, e
<1>5. g.op = "idle" /\ \A k \in 1 .. Len(i) : j[k] = "end"
  BY <1>3, <1>4 DEF Pending
<1> QED
  BY <1>2, <1>3, <1>4, <1>5 DEF OneAsked

(* The first answer is taken: none follows it but an error of a dead       *)
(* helper, so whatever is told of it, or the register that is asked        *)
(* instead, fits.                                                          *)
LEMMA AnswerFits ==
    ASSUME NEW h \in H!Helpers, NEW w \in Seq(H!Tokens), w # <<>>, w[1] \in H!Answers,
           NEW told, Fits(h, w, told),
           NEW x \in Seq(H!Tokens), Rest(x, w), Len(x) < Len(w),
           NEW g \in H!Helpers, g.op = h.op, g.exit = h.exit
    PROVE  /\ g.inp = h.inp \/ g.inp = h.inp \o <<"end">> => \A t : Fits(g, x, t)
           /\ w[1] = "err4" /\ g.inp = h.inp \o <<"r", "end">> => Fits(g, x, told) /\ NoSign(g, x)
           /\ g.inp = h.inp /\ NoSign(h, w) => NoSign(g, x)
<1>1. Len(x) \in Nat /\ Len(w) \in Nat /\ 1 \in 1 .. Len(w)
  BY LenProperties, EmptySeq
<1>2. ASSUME NEW S, NoneAfter(w, S) PROVE ~Holds(x, S) /\ NoneAfter(x, S)
  <2>1. ASSUME NEW k \in 1 .. Len(x) PROVE x[k] \notin S
    <3> DEFINE j == k + (Len(w) - Len(x))
    <3>1. j \in 1 .. Len(w) /\ 1 < j /\ x[k] = w[j]
      BY <1>1 DEF Rest
    <3> HIDE DEF j
    <3> QED
      BY <1>1, <1>2, <3>1 DEF NoneAfter
  <2> QED
    BY <2>1 DEF Holds, NoneAfter
<1>3. OneAsked(h) /\ NoneAfter(w, Results)
  BY DEF Fits
<1>4. ~Holds(x, Results) /\ NoneAfter(x, Results)
  BY <1>2, <1>3
<1>5. Holds(w, H!Answers)
  BY <1>1 DEF Holds
<1>6. h.exit = "none" => ~Holds(x, H!Answers) /\ NoneAfter(x, H!Answers) /\ told = <<>> /\ ~Pending(h)
  BY <1>2, <1>5 DEF Fits
<1>7. ASSUME g.inp = h.inp \/ g.inp = h.inp \o <<"end">>, NEW t PROVE Fits(g, x, t)
  <2>1. OneAsked(g) /\ (Pending(g) => Pending(h))
    <3>1. CASE g.inp = h.inp
      BY <3>1, <1>3 DEF OneAsked, Pending
    <3>2. CASE g.inp = h.inp \o <<"end">>
      BY <3>2, <1>3, EndWritten
    <3> QED
      BY <1>7, <3>1, <3>2
  <2> QED
    BY <2>1, <1>4, <1>6 DEF Fits
<1>8. ASSUME w[1] = "err4", g.inp = h.inp \o <<"r", "end">> PROVE Fits(g, x, told) /\ NoSign(g, x)
  <2>1. Holds(w, Results)
    BY <1>1, <1>8 DEF Holds, Results
  <2>2. told = <<>> /\ ~Pending(h)
    BY <2>1 DEF Fits
  <2>3. OneAsked(g) /\ g.op # "s" /\ \A k \in 1 .. Len(g.inp) : g.inp[k] # "s"
    BY <1>3, <1>8, <2>2, RegisterWritten
  <2>4. Fits(g, x, told)
    BY <2>2, <2>3, <1>4, <1>6 DEF Fits
  <2>5. ~Holds(x, {"err4"})
    BY <1>4 DEF Holds, Results
  <2> QED
    BY <2>3, <2>4, <2>5 DEF NoSign
<1>9. g.inp = h.inp /\ NoSign(h, w) => NoSign(g, x)
  BY RestFits DEF NoSign
<1> QED
  BY <1>7, <1>8, <1>9

(* That a helper ends takes nothing away.                                  *)
LEMMA DeadFits ==
    ASSUME NEW h, NEW g, g.op = h.op, g.inp = h.inp, g.exit = h.exit \/ g.exit # "none", NEW s, NEW told
    PROVE  /\ Fits(h, s, told) => Fits(g, s, told)
           /\ NoSign(h, s) => NoSign(g, s)
  BY DEF Fits, NoSign, OneAsked, Pending

(* Nor does what the prompt tests take away.                               *)
LEMMA FitsOfRest ==
    ASSUME NEW h, NEW g, g.op = h.op, g.inp = h.inp, g.exit = h.exit, NEW told,
           NEW s \in Seq(H!Tokens), NEW t \in Seq(H!Tokens), Rest(t, s)
    PROVE  /\ Fits(h, s, told) => Fits(g, t, told)
           /\ NoSign(h, s) => NoSign(g, t)
<1>1. ASSUME NEW S
      PROVE  (NoneAfter(s, S) => NoneAfter(t, S)) /\ (Holds(t, S) => Holds(s, S))
  BY RestFits
<1>2. NoneAfter(s, Results) => NoneAfter(t, Results)
  BY <1>1
<1>3. NoneAfter(s, H!Answers) => NoneAfter(t, H!Answers)
  BY <1>1
<1>4. Holds(t, Results) => Holds(s, Results)
  BY <1>1
<1>5. Holds(t, H!Answers) => Holds(s, H!Answers)
  BY <1>1
<1>6. Holds(t, {"err4"}) => Holds(s, {"err4"})
  BY <1>1
<1>7. (OneAsked(h) <=> OneAsked(g)) /\ (Pending(h) <=> Pending(g))
  BY DEF OneAsked, Pending
<1>8. Fits(h, s, told) => Fits(g, t, told)
  BY <1>2, <1>3, <1>4, <1>5, <1>7 DEF Fits
<1>9. NoSign(h, s) => NoSign(g, t)
  BY <1>6 DEF NoSign
<1> QED
  BY <1>8, <1>9

(* Nothing of a request changes, or its helper is gone.                    *)
LEMMA SameTold ==
    ASSUME Told, NEW q \in Requests,
           stage'[q] = stage[q]
              \/ stage'[q] \notin {"running", "idle", "validating", "checking"},
           kind'[q] = kind[q], q \in check' <=> q \in check,
           helper'[q] = helper[q], value'[q] = value[q], verdicts'[q] = verdicts[q]
    PROVE  Dialogue(q)' /\ Untold(q)' /\ OwnVerdicts(q)'
  BY DEF Told, Dialogue, Untold, OwnVerdicts, Unread

(* A verdict that fits its request is told.                                *)
LEMMA Tells ==
    ASSUME Typed, NEW r \in Requests, OwnVerdicts(r), NEW a \in Verdicts,
           kind'[r] = kind[r], Emit(r, a),
           a = "err4" => kind[r] = "sign",
           a = "registered" => kind[r] = "checked",
           a \in {"ok", "registered"} => verdicts[r] = <<>>
    PROVE  /\ OwnVerdicts(r)' /\ verdicts'[r] = Append(verdicts[r], a)
           /\ \A q \in Requests \ {r} : verdicts'[q] = verdicts[q]
<1> DEFINE old == verdicts[r]
           new == verdicts'[r]
<1>1. old \in Seq(Verdicts) /\ new = Append(old, a)
      /\ \A q \in Requests \ {r} : verdicts'[q] = verdicts[q]
  BY DEF Typed, TypeOK, Emit
<1>2. \A k \in 1 .. Len(old) :
        /\ old[k] = "err4" => kind[r] = "sign"
        /\ old[k] = "registered" => kind[r] = "checked"
        /\ old[k] \in {"ok", "registered"} => k = 1
  BY DEF OwnVerdicts
<1>3. a \in {"ok", "registered"} => old = <<>>
  OBVIOUS
<1> HIDE DEF old, new
<1>4. /\ Len(old) \in Nat /\ Len(new) = Len(old) + 1 /\ new[Len(old) + 1] = a
      /\ \A k \in 1 .. Len(old) : new[k] = old[k]
  BY <1>1, AppendProperties, LenProperties
<1>5. old = <<>> => Len(old) = 0
  BY EmptySeq
<1>6. \A k \in 1 .. Len(new) :
        /\ new[k] = "err4" => kind[r] = "sign"
        /\ new[k] = "registered" => kind[r] = "checked"
        /\ new[k] \in {"ok", "registered"} => k = 1
  BY <1>2, <1>3, <1>4, <1>5
<1> QED
  BY <1>1, <1>6 DEF OwnVerdicts, old, new

(* _execBin asks a new helper one thing, and has told nothing.             *)
LEMMA ExecTold ==
    ASSUME Told, Typed, NEW r \in Requests, stage[r] \in {"validating", "checking"}, _ExecBin(r)
    PROVE  Told'
<1> USE DEF _ExecBin
<1>1. ASSUME NEW q \in Requests, q # r PROVE Dialogue(q)' /\ Untold(q)' /\ OwnVerdicts(q)'
  <2>1. stage'[q] = stage[q] /\ helper'[q] = helper[q] /\ (q \in check' <=> q \in check)
    BY <1>1 DEF Typed, TypeOK
  <2> QED
    BY <2>1, SameTold
<1>2. value[r] = <<>> /\ verdicts[r] = <<>> /\ helper[r] = H!InitHelper
  BY DEF Told, Untold, Typed, IdleBefore
<1>3. stage'[r] \in {"running", "failed"}
  BY DEF Typed, TypeOK
<1>4. helper'[r] = [H!InitHelper EXCEPT !.inp = FirstInput(r)]
  BY <1>2 DEF Typed, TypeOK
<1>5. helper'[r].op = "idle" /\ helper'[r].inp = FirstInput(r) /\ helper'[r].out = <<>>
  BY <1>4 DEF H!InitHelper
<1>6. Len(Unread(r)') = 0
  BY <1>2, <1>5 DEF Unread
<1>7. NoneAfter(Unread(r)', Results) /\ NoneAfter(Unread(r)', H!Answers)
      /\ ~Holds(Unread(r)', Results) /\ ~Holds(Unread(r)', H!Answers)
      /\ ~Holds(Unread(r)', {"err4"})
  BY <1>6 DEF NoneAfter, Holds
<1>8. kind[r] \in {"sign", "register", "checked"}
  BY DEF Typed, TypeOK, Kinds
<1>9. OneAsked(helper'[r])
  <2> DEFINE i == FirstInput(r)
  <2>1. \/ i = <<"s", "end">>
        \/ i = <<"r", "end">>
        \/ i = <<"s">>
    BY <1>8 DEF FirstInput
  <2>2. \A j, k \in 1 .. Len(i) : j < k => i[k] = "end"
    BY <2>1
  <2> QED
    BY <1>5, <2>2 DEF OneAsked
<1>10. Fits(helper'[r], Unread(r)', verdicts'[r])
  BY <1>2, <1>7, <1>9 DEF Fits
<1>11. kind[r] = "register" => NoSign(helper'[r], Unread(r)')
  <2> SUFFICES ASSUME kind[r] = "register" PROVE \A k \in 1 .. Len(FirstInput(r)) : FirstInput(r)[k] # "s"
    BY <1>5, <1>7 DEF NoSign
  <2>1. FirstInput(r) = <<"r", "end">>
    BY DEF FirstInput
  <2> QED
    BY <2>1
<1>12. Dialogue(r)'
  BY <1>8, <1>10, <1>11 DEF Dialogue
<1>13. Untold(r)' /\ OwnVerdicts(r)'
  BY <1>2, <1>3 DEF Untold, OwnVerdicts
<1> QED
  BY <1>1, <1>12, <1>13 DEF Told

(* A kill changes nothing but how a helper ended.                          *)
LEMMA KillOnlyEnds ==
    ASSUME Typed, NEW armed, KillExe(armed), NEW q \in Requests
    PROVE  /\ helper'[q].op = helper[q].op /\ helper'[q].inp = helper[q].inp
           /\ helper'[q].out = helper[q].out
           /\ helper'[q].exit = helper[q].exit \/ helper'[q].exit # "none"
<1>1. helper[q] \in H!Helpers
  BY DEF Typed, TypeOK
<1>2. helper'[q] = IF q = activeRequest /\ helper[q].exit = "none"
                   THEN [helper[q] EXCEPT !.exit = "signal"] ELSE helper[q]
  BY DEF KillExe
<1> QED
  BY <1>1, <1>2 DEF H!Helpers

(* A kill leaves every dialogue as it is.                                  *)
LEMMA KillTold ==
    ASSUME Told, Typed, NEW armed, KillExe(armed), NEW q \in Requests,
           stage'[q] = stage[q], kind'[q] = kind[q], q \in check' <=> q \in check,
           value'[q] = value[q], verdicts'[q] = verdicts[q]
    PROVE  Dialogue(q)' /\ Untold(q)' /\ OwnVerdicts(q)'
<1>1. Untold(q)' /\ OwnVerdicts(q)'
  BY DEF Told, Untold, OwnVerdicts
<1>2. /\ helper'[q].op = helper[q].op /\ helper'[q].inp = helper[q].inp
      /\ helper'[q].out = helper[q].out
      /\ helper'[q].exit = helper[q].exit \/ helper'[q].exit # "none"
  BY KillOnlyEnds
<1>3. Unread(q)' = Unread(q)
  BY <1>2 DEF Unread
<1>4. /\ Fits(helper[q], Unread(q), verdicts[q]) => Fits(helper'[q], Unread(q), verdicts[q])
      /\ NoSign(helper[q], Unread(q)) => NoSign(helper'[q], Unread(q))
  BY <1>2, DeadFits
<1>5. Dialogue(q)
  BY DEF Told
<1>6. Dialogue(q)'
  BY <1>3, <1>4, <1>5 DEF Dialogue
<1> QED
  BY <1>1, <1>6

(* The other handlers, one by one.                                         *)
LEMMA SpawnErrorTold ==
    ASSUME Told, Typed, NEW r \in Requests, SpawnError(r)
    PROVE  Told'
<1> USE DEF SpawnError
<1>1. "nospawn" \in Verdicts
  BY DEF Verdicts
<1>2. OwnVerdicts(r)' /\ \A q \in Requests \ {r} : verdicts'[q] = verdicts[q]
  BY <1>1, Tells DEF Told
<1>3. Dialogue(r)' /\ Untold(r)'
  BY DEF Dialogue, Untold, Typed, TypeOK
<1>4. ASSUME NEW q \in Requests, q # r PROVE Dialogue(q)' /\ Untold(q)' /\ OwnVerdicts(q)'
  BY <1>2, <1>4, KillTold DEF Typed, TypeOK
<1> QED
  BY <1>2, <1>3, <1>4 DEF Told

LEMMA ExitTold ==
    ASSUME Told, Typed, NEW r \in Requests, Exit(r)
    PROVE  Told'
<1> USE DEF Exit
<1>1. ExitVerdict(r) = <<>> \/ ExitVerdict(r) = <<"nospawn">> \/ ExitVerdict(r) = <<"noresponse">>
  BY DEF ExitVerdict
<1>2. verdicts[r] \in Seq(Verdicts) /\ verdicts'[r] = verdicts[r] \o ExitVerdict(r)
      /\ \A q \in Requests \ {r} : verdicts'[q] = verdicts[q]
  BY DEF Typed, TypeOK
<1>3. OwnVerdicts(r)'
  <2> DEFINE old == verdicts[r]
             more == ExitVerdict(r)
             new == old \o more
  <2>1. more \in Seq(Verdicts) /\ old \in Seq(Verdicts)
    <3>1. "nospawn" \in Verdicts /\ "noresponse" \in Verdicts
      BY DEF Verdicts
    <3>2. more \in Seq(Verdicts)
      BY <3>1 DEF ExitVerdict
    <3> QED
      BY <1>2, <3>2
  <2>2. \A k \in 1 .. Len(more) : more[k] \in {"nospawn", "noresponse"}
    BY <1>1
  <2> HIDE DEF old, more
  <2>3. /\ Len(old) \in Nat /\ Len(more) \in Nat /\ Len(new) = Len(old) + Len(more)
        /\ \A k \in 1 .. Len(old) : new[k] = old[k]
        /\ \A k \in 1 .. Len(more) : new[Len(old) + k] = more[k]
    BY <2>1, Joined
  <2> HIDE DEF new
  <2>4. ASSUME NEW k \in 1 .. Len(new)
        PROVE  (k \in 1 .. Len(old) /\ new[k] = old[k]) \/ new[k] \in {"nospawn", "noresponse"}
    <3>1. CASE k <= Len(old)
      BY <2>3, <3>1
    <3>2. CASE k > Len(old)
      <4>1. k - Len(old) \in 1 .. Len(more) /\ Len(old) + (k - Len(old)) = k
        BY <2>3, <3>2
      <4> QED
        BY <2>2, <2>3, <4>1
    <3> QED
      BY <2>3, <3>1, <3>2
  <2>5. verdicts'[r] = new /\ verdicts[r] = old
    BY <1>2 DEF new, old, more
  <2>6. OwnVerdicts(r)
    BY DEF Told
  <2> QED
    BY <2>4, <2>5, <2>6 DEF OwnVerdicts
<1>4. Dialogue(r)' /\ Untold(r)'
  BY DEF Dialogue, Untold, Typed, TypeOK
<1>5. ASSUME NEW q \in Requests, q # r PROVE Dialogue(q)' /\ Untold(q)' /\ OwnVerdicts(q)'
  BY <1>2, <1>5, SameTold DEF Typed, TypeOK
<1> QED
  BY <1>3, <1>4, <1>5 DEF Told

LEMMA HelperTold ==
    ASSUME Told, Typed, NEW r \in Requests, HelperWorks(r)
    PROVE  Told'
<1> USE DEF HelperWorks, reqVars, histVars
<1>1. PICK g \in H!HelperSteps(helper[r]) : helper' = [helper EXCEPT ![r] = g]
  OBVIOUS
<1>2. helper[r] \in H!Helpers /\ value[r] \in Seq(H!Tokens) /\ helper'[r] = g
  BY <1>1 DEF Typed, TypeOK
<1>3. /\ Fits(helper[r], Unread(r), verdicts[r])
      /\ kind[r] = "sign" \/ r \in check \/ NoSign(helper[r], Unread(r))
  BY DEF Told, Dialogue
<1>4. /\ Fits(g, value[r] \o g.out, verdicts[r])
      /\ NoSign(helper[r], value[r] \o helper[r].out) => NoSign(g, value[r] \o g.out)
  BY <1>2, <1>3, HelperStepFits DEF Unread
<1>5. Dialogue(r)'
  BY <1>2, <1>3, <1>4 DEF Dialogue, Unread
<1>6. Untold(r)' /\ OwnVerdicts(r)'
  BY DEF Told, Untold, OwnVerdicts
<1>7. ASSUME NEW q \in Requests, q # r PROVE Dialogue(q)' /\ Untold(q)' /\ OwnVerdicts(q)'
  BY <1>1, <1>7, SameTold DEF Typed, TypeOK
<1> QED
  BY <1>5, <1>6, <1>7 DEF Told

(* "data": what is read and left unread is what was there before, without  *)
(* some prompts; the answer in front, if there is one, is told or followed *)
(* by the register.                                                        *)
LEMMA DataTold ==
    ASSUME Told, Typed, Typed', NEW r \in Requests, NEW n, Data(r, n)
    PROVE  Told'
<1> DEFINE out == helper[r].out
           read == value[r] \o SubSeq(out, 1, n)
           v == Unprompted(read)
           rest == SubSeq(out, n + 1, Len(out))
           written == IF r \in check THEN AfterCheck(v[1]) ELSE <<>>
           understood == ~(v = <<>> \/ v[1] \notin H!Answers)
           told == verdicts[r]
           h == helper[r]
           g == helper'[r]
<1>1. h \in H!Helpers /\ value[r] \in Seq(H!Tokens) /\ out \in Seq(H!Tokens)
      /\ g \in H!Helpers /\ stage[r] = "running"
      /\ n \in 1 .. Len(out)
  BY DEF Typed, TypeOK, H!Helpers, Data
<1>2. UNCHANGED <<stage, kind>>
  BY DEF Data
<1>3. /\ rest \in Seq(H!Tokens) /\ read \in Seq(H!Tokens)
      /\ read \o rest = Unread(r)
  BY <1>1, CutConcat, ConcatProperties DEF Unread
<1> HIDE DEF read, rest
<1>4. v \in Seq(H!Tokens) /\ Rest(v, read)
  BY <1>3, UnpromptedRest
<1> HIDE DEF v
<1> DEFINE s == read \o rest
           w == v \o rest
<1>5. s \in Seq(H!Tokens) /\ w \in Seq(H!Tokens) /\ Rest(w, s)
  BY <1>3, <1>4, RestConcat, ConcatProperties
<1>6. Fits(h, s, told) /\ (kind[r] = "sign" \/ r \in check \/ NoSign(h, s))
  BY <1>1, <1>3 DEF Told, Dialogue
<1> HIDE DEF s
<1>7. Fits(h, w, told) /\ (NoSign(h, s) => NoSign(h, w))
  BY <1>5, <1>6, FitsOfRest
<1>8. ASSUME NEW q \in Requests, helper'[q] = helper[q], value'[q] = value[q],
             verdicts'[q] = verdicts[q], q \in check' <=> q \in check
      PROVE  Dialogue(q)' /\ Untold(q)' /\ OwnVerdicts(q)'
  BY <1>2, <1>8, SameTold
<1>9. Untold(r)'
  BY <1>1, <1>2 DEF Untold
<1>10. CASE ~understood
  <2>1. /\ value' = [value EXCEPT ![r] = v]
        /\ helper' = [helper EXCEPT ![r].out = rest]
        /\ UNCHANGED <<check, responded, verdicts>>
    BY <1>10 DEF Data, read, v, rest
  <2>2. g.op = h.op /\ g.inp = h.inp /\ g.exit = h.exit /\ Unread(r)' = w
    <3>1. g.op = h.op /\ g.inp = h.inp /\ g.exit = h.exit /\ g.out = rest
      BY <1>1, <2>1 DEF Typed, TypeOK, H!Helpers
    <3>2. value'[r] = v
      BY <2>1 DEF Typed, TypeOK
    <3> QED
      BY <3>1, <3>2 DEF Unread
  <2>3. Fits(g, w, told) /\ (NoSign(h, w) => NoSign(g, w))
    BY <1>7, <2>2, DeadFits
  <2>4. Dialogue(r)' /\ OwnVerdicts(r)'
    BY <1>2, <1>6, <1>7, <2>1, <2>2, <2>3 DEF Dialogue, OwnVerdicts, Told
  <2>5. \A q \in Requests \ {r} : helper'[q] = helper[q] /\ value'[q] = value[q]
    BY <2>1 DEF Typed, TypeOK
  <2> QED
    BY <1>8, <1>9, <2>1, <2>4, <2>5 DEF Told
<1>11. CASE understood
  <2> DEFINE a == v[1]
             x == Trimmed(v) \o rest
  <2>1. /\ value' = [value EXCEPT ![r] = Trimmed(v)]
        /\ helper' = [helper EXCEPT ![r].out = rest, ![r].inp = @ \o written]
        /\ check' = IF a = "err4" THEN check \ {r} ELSE check
        /\ IF r \notin check THEN Emit(r, a)
           ELSE IF a = "err4" THEN UNCHANGED verdicts
           ELSE Emit(r, CheckVerdict(a))
    BY <1>11 DEF Data, read, v, rest
  <2>2. \A q \in Requests \ {r} :
           helper'[q] = helper[q] /\ value'[q] = value[q] /\ (q \in check' <=> q \in check)
    BY <2>1 DEF Typed, TypeOK
  <2> HIDE DEF written
  <2>3. /\ g.op = h.op /\ g.exit = h.exit /\ g.inp = h.inp \o written
        /\ Unread(r)' = x
    <3>1. ASSUME NEW k \in H!Helpers, NEW i, NEW o
          PROVE  LET l == [k EXCEPT !.out = o, !.inp = i]
                 IN  l.op = k.op /\ l.exit = k.exit /\ l.inp = i /\ l.out = o
      BY DEF H!Helpers
    <3>2. DOMAIN helper = Requests
      BY DEF Typed, TypeOK
    <3>3. helper'[r] = [helper[r] EXCEPT !.out = rest, !.inp = helper[r].inp \o written]
      BY <1>1, <2>1, <3>2 DEF H!Helpers
    <3>4. g.op = h.op /\ g.exit = h.exit /\ g.inp = h.inp \o written /\ g.out = rest
      BY <1>1, <3>1, <3>3
    <3>5. value'[r] = Trimmed(v)
      BY <2>1 DEF Typed, TypeOK
    <3> QED
      BY <3>5, <3>4 DEF Unread
  <2>4. v # <<>> /\ a \in H!Answers
    BY <1>11
  <2>5. x \in Seq(H!Tokens) /\ Rest(x, w) /\ Len(x) < Len(w)
    <3>1. Trimmed(v) \in Seq(H!Tokens) /\ Rest(Trimmed(v), v) /\ Len(Trimmed(v)) = Len(v) - 1
      BY <1>4, <2>4, TailRest DEF Trimmed
    <3>2. Len(x) = Len(Trimmed(v)) + Len(rest) /\ Len(w) = Len(v) + Len(rest) /\ x \in Seq(H!Tokens)
      BY <1>3, <1>4, <3>1, Joined
    <3>3. Len(v) \in Nat /\ Len(rest) \in Nat
      BY <1>3, <1>4, LenProperties
    <3> QED
      BY <1>3, <1>4, <3>1, <3>2, <3>3, RestConcat
  <2>6. w # <<>> /\ w[1] = a
    <3>1. Len(v) \in Nat \ {0}
      BY <1>4, <2>4, LenProperties, EmptySeq
    <3>2. Len(w) = Len(v) + Len(rest) /\ w[1] = v[1] /\ Len(rest) \in Nat
      BY <1>3, <1>4, <3>1, Joined
    <3> QED
      BY <3>1, <3>2, EmptySeq
  <2> HIDE DEF x, w, a
  <2>7. /\ g.inp = h.inp \/ g.inp = h.inp \o <<"end">> => \A t : Fits(g, x, t)
        /\ a = "err4" /\ g.inp = h.inp \o <<"r", "end">> => Fits(g, x, told) /\ NoSign(g, x)
        /\ g.inp = h.inp /\ NoSign(h, w) => NoSign(g, x)
    <3>1. /\ h \in H!Helpers /\ g \in H!Helpers /\ g.op = h.op /\ g.exit = h.exit
          /\ w \in Seq(H!Tokens) /\ w # <<>> /\ w[1] \in H!Answers /\ Fits(h, w, told)
          /\ x \in Seq(H!Tokens) /\ Rest(x, w) /\ Len(x) < Len(w)
      BY <1>1, <1>5, <1>7, <2>3, <2>4, <2>5, <2>6
    <3> HIDE DEF h, g, told
    <3> QED
      BY <2>6, <3>1, AnswerFits
  <2>8. a \in Verdicts /\ CheckVerdict(a) \in Verdicts
    BY <2>4 DEF Verdicts, CheckVerdict
  <2>9. a \in Results => told = <<>>
    <3>1. Len(w) \in Nat /\ 1 \in 1 .. Len(w)
      BY <1>5, <2>6, LenProperties, EmptySeq
    <3> QED
      BY <1>7, <2>6, <3>1 DEF Fits, Holds
  <2>10. CASE r \notin check
    <3>1. g.inp = h.inp
      <4>1. h.inp \in Seq(H!Messages) /\ g.inp = h.inp \o <<>>
        BY <1>1, <2>3, <2>10 DEF written, H!Helpers
      <4> QED
        BY <4>1, ConcatEmptySeq
    <3>2. a = "err4" => kind[r] = "sign"
      <4> SUFFICES ASSUME a = "err4", NoSign(h, w) PROVE FALSE
        BY <1>6, <1>7, <2>10
      <4>1. Len(w) \in Nat /\ 1 \in 1 .. Len(w)
        BY <1>5, <2>6, LenProperties, EmptySeq
      <4> QED
        BY <2>6, <4>1 DEF NoSign, Holds
    <3>3. a # "registered"
      BY <2>4 DEF H!Answers
    <3>4. OwnVerdicts(r)' /\ \A q \in Requests \ {r} : verdicts'[q] = verdicts[q]
      BY <1>2, <2>1, <2>8, <2>9, <2>10, <3>2, <3>3, Tells DEF Told, Results
    <3>5. kind[r] = "sign" \/ NoSign(g, x)
      BY <1>6, <1>7, <2>7, <2>10, <3>1
    <3>6. Dialogue(r)'
      BY <1>2, <2>3, <2>7, <3>1, <3>5 DEF Dialogue
    <3> QED
      BY <1>8, <1>9, <2>2, <3>4, <3>6 DEF Told
  <2>11. CASE r \in check /\ a = "err4"
    <3>1. g.inp = h.inp \o <<"r", "end">> /\ UNCHANGED verdicts
      BY <2>1, <2>3, <2>11 DEF AfterCheck, a, written
    <3>2. Dialogue(r)'
      BY <1>2, <2>3, <2>7, <2>11, <3>1 DEF Dialogue
    <3>3. OwnVerdicts(r)'
      BY <1>2, <3>1 DEF Told, OwnVerdicts
    <3> QED
      BY <1>8, <1>9, <2>2, <3>1, <3>2, <3>3 DEF Told
  <2>12. CASE r \in check /\ a # "err4"
    <3>1. g.inp = h.inp \o <<"end">> /\ Emit(r, CheckVerdict(a)) /\ check' = check
      BY <2>1, <2>3, <2>12 DEF AfterCheck, a, written
    <3>2. Dialogue(r)'
      BY <1>2, <2>3, <2>7, <2>12, <3>1 DEF Dialogue
    <3>3. kind[r] = "checked"
      BY <2>12 DEF Typed, TypeOK
    <3>4. CheckVerdict(a) \in {"ok", "registered"} => verdicts[r] = <<>>
      BY <2>9 DEF CheckVerdict, Results
    <3>5. CheckVerdict(a) # "err4"
      BY DEF CheckVerdict
    <3>6. OwnVerdicts(r)
      BY DEF Told
    <3>7. OwnVerdicts(r)' /\ \A q \in Requests \ {r} : verdicts'[q] = verdicts[q]
      BY <1>2, <2>8, <3>1, <3>3, <3>4, <3>5, <3>6, Tells
    <3> QED
      BY <1>8, <1>9, <2>2, <3>2, <3>7 DEF Told
  <2> QED
    BY <2>10, <2>11, <2>12
<1> QED
  BY <1>10, <1>11

(* Nothing has been asked.                                                 *)
LEMMA InitTold == Init => Told
  BY EmptySeq DEF Init, Told, Dialogue, Untold, OwnVerdicts

(* Every event keeps the dialogues.                                        *)
LEMMA NextTold == Told /\ Typed /\ Typed' /\ [Next]_vars => Told'
<1> SUFFICES ASSUME Told, Typed, Typed', [Next]_vars PROVE Told'
  OBVIOUS
<1> USE DEF reqVars, activeVars, histVars, runVars
<1>1. ASSUME NEW r \in Requests, ExecBin(r) PROVE Told'
  <2>1. stage[r] = "idle" /\ verdicts[r] = <<>> /\ value[r] = <<>>
    BY <1>1 DEF ExecBin, Told, Untold
  <2>2. Dialogue(r)' /\ Untold(r)' /\ OwnVerdicts(r)'
    BY <1>1, <2>1 DEF ExecBin, Dialogue, Untold, OwnVerdicts, Typed, TypeOK
  <2>3. ASSUME NEW q \in Requests, q # r PROVE Dialogue(q)' /\ Untold(q)' /\ OwnVerdicts(q)'
    <3>1. stage'[q] = stage[q] /\ kind'[q] = kind[q]
      BY <1>1, <2>3 DEF ExecBin, Typed, TypeOK
    <3> QED
      BY <1>1, <3>1, SameTold DEF ExecBin
  <2> QED
    BY <2>2, <2>3 DEF Told
<1>2. ASSUME NEW r \in Requests, stage[r] \in {"validating", "checking"},
             NEW to \in {"checking", "rejected"}, stage' = [stage EXCEPT ![r] = to],
             UNCHANGED <<kind, owner, check, runVars, activeVars, detached, histVars>>
      PROVE  Told'
  <2>1. ASSUME NEW q \in Requests PROVE Dialogue(q)' /\ Untold(q)' /\ OwnVerdicts(q)'
    <3>1. Dialogue(q)'
      BY <1>2 DEF Typed, TypeOK, Told, Dialogue, Unread
    <3>2. Untold(q)' /\ OwnVerdicts(q)'
      BY <1>2 DEF Typed, TypeOK, Told, Untold, OwnVerdicts
    <3> QED
      BY <3>1, <3>2
  <2> QED
    BY <2>1 DEF Told
<1>3. ASSUME NEW r \in Requests, Validated(r) PROVE Told'
  BY <1>2, <1>3, ExecTold DEF Validated, Reject
<1>4. ASSUME NEW r \in Requests, CheckValidated(r) PROVE Told'
  BY <1>2, <1>4, ExecTold DEF CheckValidated, Reject
<1>5. ASSUME NEW r \in Requests, SomeData(r) PROVE Told'
  BY <1>5, DataTold DEF SomeData
<1>6. ASSUME NEW r \in Requests, SpawnError(r) PROVE Told'
  BY <1>6, SpawnErrorTold
<1>7. ASSUME NEW r \in Requests, Exit(r) PROVE Told'
  BY <1>7, ExitTold
<1>8. ASSUME NEW armed, KillExe(armed), UNCHANGED <<reqVars, value, responded, histVars>>
      PROVE  Told'
  BY <1>8, KillTold DEF Told
<1>9. ASSUME UNCHANGED <<reqVars, runVars, histVars>> PROVE Told'
  BY <1>9, SameTold DEF Told
<1>10. ASSUME NEW r \in Requests, Timer(r) PROVE Told'
  BY <1>8, <1>10 DEF Timer
<1>11. ASSUME NEW w \in Workers, Detach(w) PROVE Told'
  BY <1>8, <1>9, <1>11 DEF Detach
<1>12. ASSUME NEW r \in Requests, HelperWorks(r) PROVE Told'
  BY <1>12, HelperTold
<1>13. CASE UNCHANGED vars
  BY <1>9, <1>13 DEF vars
<1> QED
  BY <1>1, <1>3, <1>4, <1>5, <1>6, <1>7, <1>10, <1>11, <1>12, <1>13 DEF Next

LEMMA ToldHolds == Spec => []Told
  BY InitTold, NextTold, TypedHolds, PTL DEF Spec

(* However the prints of the helpers are divided and whichever requests    *)
(* overlap: a register waits for its check, and the page hears about its   *)
(* own question - no code 4 for a register, no "already registered" for a  *)
(* sign, success first or not at all (index.js:129-185).                   *)
THEOREM AnswersFitAlways == Spec => []AnswersFit
<1>1. Told /\ TypeOK => VerdictsFit
  <2> SUFFICES ASSUME Told, TypeOK, NEW r \in Requests, NEW k \in DOMAIN verdicts[r]
               PROVE  /\ verdicts[r][k] = "err4" => kind[r] = "sign"
                      /\ verdicts[r][k] = "registered" => kind[r] = "checked"
                      /\ verdicts[r][k] \in {"ok", "registered"} => k = 1
    BY DEF VerdictsFit
  <2>1. k \in 1 .. Len(verdicts[r])
    BY LenProperties DEF TypeOK
  <2> QED
    BY <2>1 DEF Told, OwnVerdicts
<1> QED
  BY <1>1, ToldHolds, TypeCorrect, RegisterWaits, PTL DEF AnswersFit

=============================================================================

-------------------------- MODULE ExtensionProofs --------------------------
(***************************************************************************)
(* Proofs about the extension.  ContentScript, for every number of calls   *)
(* the page makes and of responses it gets: the state invariants follow    *)
(* from IInv, which adds to them that calls not yet made have not been     *)
(* answered and that a settled call has no entry.  AppIdValidator, for     *)
(* every number of challenges: CheckInv says what has been found and       *)
(* counted.                                                                *)
(***************************************************************************)
EXTENDS ContentScript, MCAppIdValidator, Functions, FiniteSetTheorems, SequenceTheorems,
        WellFoundedInduction, TLAPS

IInv ==
    /\ TypeOK
    /\ Accounting
    /\ TimerGuards
    /\ \A id \in Ids : id >= nextCallbackID => calls[id] = 0
    /\ settled \cap callbacks = {}

-----------------------------------------------------------------------------
(* The entries are finitely many, so that they can be counted.             *)
LEMMA CallbacksFinite ==
    ASSUME TypeOK
    PROVE  IsFiniteSet(callbacks) /\ Cardinality(callbacks) \in Nat
<1>1. IsFiniteSet(0 .. MaxRequests - 1)
  BY FS_Interval, MaxRequestsAssumption
<1>2. callbacks \subseteq 0 .. MaxRequests - 1
  BY DEF TypeOK, Asked, Ids
<1> QED
  BY <1>1, <1>2, FS_Subset, FS_CardinalityType

(* Sequences over a set are sequences over any larger one.                 *)
LEMMA SeqMonotone ==
    ASSUME NEW S, NEW T, S \subseteq T, NEW s \in Seq(S)
    PROVE  s \in Seq(T)
  BY Zenon, SeqDef, SMT

-----------------------------------------------------------------------------
(* The page has made no call.                                              *)
LEMMA InitIInv == Init => IInv
<1> SUFFICES ASSUME Init PROVE IInv
  OBVIOUS
<1> USE DEF Init
<1>1. TypeOK
  BY MaxRequestsAssumption, MaxAnswersAssumption DEF TypeOK, Asked, Ids
<1>2. Accounting
  BY FS_EmptySet DEF Accounting
<1> QED
  BY <1>1, <1>2 DEF IInv, TimerGuards

(* A new entry: one more call is counted and its timeout is armed.         *)
LEMMA SendToChromeIInv ==
    ASSUME IInv, SendToChrome
    PROVE  IInv'
<1> USE DEF IInv, SendToChrome
<1>1. nextCallbackID \in Nat /\ nextCallbackID \in Ids /\ nextCallbackID \notin callbacks
  BY MaxRequestsAssumption DEF TypeOK, Ids, Asked
<1>2. Asked \subseteq Asked' /\ nextCallbackID \in Asked'
  BY <1>1 DEF TypeOK, Asked, Ids
<1>3. TypeOK'
  <2>1. port' \in Seq(Asked')
    BY <1>2, SeqMonotone DEF TypeOK
  <2> QED
    BY <1>1, <1>2, <2>1, MaxRequestsAssumption DEF TypeOK, ArmTimer, StartListening
<1>4. Accounting'
  <2>1. Cardinality(callbacks') = Cardinality(callbacks) + 1
    BY <1>1, CallbacksFinite, FS_AddElement
  <2>2. Cardinality(callbacks) \in Nat /\ throws \in Nat /\ activeRequests \in Int
        /\ listening \in BOOLEAN /\ activeRequests = Cardinality(callbacks) - throws
        /\ (listening <=> activeRequests > 0)
    BY CallbacksFinite DEF TypeOK, Accounting
  <2>3. activeRequests' = activeRequests + 1 /\ throws' = throws
        /\ (listening' <=> (listening \/ activeRequests = 0))
    BY DEF StartListening
  <2> HIDE DEF IInv, SendToChrome
  <2>4. activeRequests' = Cardinality(callbacks') - throws'
    BY <2>1, <2>2, <2>3
  <2>5. listening' <=> activeRequests' > 0
    <3>1. activeRequests > 0 \/ activeRequests = 0 <=> activeRequests + 1 > 0
      BY <2>2
    <3> QED
      BY <2>2, <2>3, <3>1
  <2> QED
    BY <2>4, <2>5 DEF Accounting
<1>5. TimerGuards'
  BY <1>1 DEF TypeOK, TimerGuards, ArmTimer
<1>6. \A id \in Ids : id >= nextCallbackID' => calls'[id] = 0
  BY <1>1 DEF Ids
<1>7. settled' \cap callbacks' = {}
  BY <1>1 DEF TypeOK, Asked
<1> QED
  BY <1>3, <1>4, <1>5, <1>6, <1>7

(* The callback runs, may throw, and may have made a call of its own.      *)
LEMMA RunCallbackIInv ==
    ASSUME IInv, NEW id \in Ids, NEW asks \in BOOLEAN, NEW threw \in BOOLEAN,
           RunCallback(id, asks, threw), port' \in Seq(Asked), UNCHANGED answers
    PROVE  IInv'
<1> USE DEF IInv, RunCallback
<1>1. nextCallbackID \in Nat /\ nextCallbackID \notin callbacks /\ id \in callbacks
  BY MaxRequestsAssumption DEF TypeOK, Asked
<1>2. asks => nextCallbackID \in Ids
  BY <1>1, MaxRequestsAssumption DEF Ids
<1>3. Asked \subseteq Asked' /\ (asks => nextCallbackID \in Asked')
  BY <1>1, <1>2 DEF TypeOK, Asked, Ids
<1>4. TypeOK'
  <2>1. port' \in Seq(Asked')
    BY <1>3, SeqMonotone
  <2>2. callbacks' \subseteq Asked'
    BY <1>3 DEF TypeOK, EntriesAfter
  <2>3. timers' \subseteq callbacks'
    BY DEF TypeOK, EntriesAfter, ArmTimer, ClearTimer
  <2>4. settled' \subseteq Asked'
    BY <1>1, <1>3 DEF TypeOK
  <2>5. calls' \in [Ids -> Nat]
    BY DEF TypeOK
  <2>6. nextCallbackID' \in 0 .. MaxRequests /\ activeRequests' \in Int
        /\ listening' \in BOOLEAN /\ throws' \in Nat
    BY <1>1, MaxRequestsAssumption DEF TypeOK, StopListening, StartListening
  <2> QED
    BY <2>1, <2>2, <2>3, <2>4, <2>5, <2>6 DEF TypeOK
<1>5. Accounting'
  <2> DEFINE kept == EntriesAfter(id, threw)
  <2>1. IsFiniteSet(kept) /\ Cardinality(kept) \in Nat
        /\ Cardinality(kept) = Cardinality(callbacks) - (IF threw THEN 0 ELSE 1)
    BY <1>1, CallbacksFinite, FS_RemoveElement, FS_CardinalityType DEF EntriesAfter
  <2>2. nextCallbackID \notin kept
    BY <1>1 DEF EntriesAfter
  <2>3. Cardinality(kept \cup {nextCallbackID}) = Cardinality(kept) + 1
    BY <2>1, <2>2, FS_AddElement
  <2>4. callbacks' = IF asks THEN kept \cup {nextCallbackID} ELSE kept
    OBVIOUS
  <2>5. Cardinality(callbacks') = Cardinality(kept) + (IF asks THEN 1 ELSE 0)
    <3>1. CASE asks
      BY <2>3, <2>4, <3>1
    <3>2. CASE ~asks
      <4>1. callbacks' = kept
        BY <2>4, <3>2
      <4>2. Cardinality(callbacks') = Cardinality(kept)
        BY ONLY <4>1, Zenon
      <4> QED
        BY <2>1, <3>2, <4>2
    <3> QED
      BY <3>1, <3>2
  <2>6. activeRequests' = Cardinality(callbacks') - throws'
    <3>1. Cardinality(callbacks) \in Nat /\ throws \in Nat
          /\ activeRequests = Cardinality(callbacks) - throws
      BY CallbacksFinite DEF TypeOK, Accounting
    <3>2. activeRequests' = (IF asks THEN activeRequests ELSE activeRequests - 1)
          /\ throws' = (IF threw THEN throws + 1 ELSE throws)
      OBVIOUS
    <3> HIDE DEF kept, IInv, RunCallback
    <3> QED
      BY <2>1, <2>5, <3>1, <3>2
  <2>7. listening' <=> activeRequests' > 0
    BY DEF TypeOK, Accounting, StopListening, StartListening
  <2> QED
    BY <2>6, <2>7 DEF Accounting
<1>6. TimerGuards'
  BY <1>1, <1>2 DEF TypeOK, TimerGuards, EntriesAfter, ArmTimer, ClearTimer
<1>7. \A i \in Ids : i >= nextCallbackID' => calls'[i] = 0
  BY <1>1 DEF TypeOK, Asked, Ids
<1>8. settled' \cap callbacks' = {}
  BY <1>1 DEF TypeOK, Asked, EntriesAfter
<1> QED
  BY <1>4, <1>5, <1>6, <1>7, <1>8

(* A response without an entry changes nothing but the port.               *)
LEMMA IgnoreResponseIInv ==
    ASSUME IInv, NEW id, IgnoreResponse(id), port' \in Seq(Asked), UNCHANGED answers
    PROVE  IInv'
<1> USE DEF IInv, IgnoreResponse
<1>1. TypeOK'
  BY DEF TypeOK, Asked
<1>2. Accounting' /\ TimerGuards'
  BY DEF Accounting, TimerGuards
<1> QED
  BY <1>1, <1>2

(* IInv is inductive.                                                      *)
LEMMA NextIInv == IInv /\ [Next]_vars => IInv'
<1> SUFFICES ASSUME IInv, [Next]_vars PROVE IInv'
  OBVIOUS
<1>1. CASE SendToChrome
  BY <1>1, SendToChromeIInv
<1>2. CASE ProcessChromeResponse
  <2>1. Head(port) \in Ids /\ port' \in Seq(Asked)
    BY <1>2 DEF ProcessChromeResponse, IInv, TypeOK, Asked
  <2> QED
    BY <1>2, <2>1, RunCallbackIInv, IgnoreResponseIInv
       DEF ProcessChromeResponse, DeliverResponse
<1>3. CASE DropResponse
  <2>1. port' \in Seq(Asked) /\ Asked' = Asked
    BY <1>3 DEF DropResponse, IInv, TypeOK, Asked
  <2> QED
    BY <1>3, <2>1 DEF DropResponse, IInv, TypeOK, Accounting, TimerGuards
<1>4. ASSUME NEW id \in Ids, HandleTimeout(id) PROVE IInv'
  <2>1. port' \in Seq(Asked)
    BY <1>4 DEF HandleTimeout, IInv, TypeOK
  <2> QED
    BY <1>4, <2>1, RunCallbackIInv, IgnoreResponseIInv
       DEF HandleTimeout, DeliverResponse
<1>5. ASSUME NEW id \in Ids, ChromeAnswers(id) PROVE IInv'
  <2>1. port' \in Seq(Asked) /\ Asked' = Asked
    BY <1>5 DEF ChromeAnswers, IInv, TypeOK, Asked
  <2>2. answers' \in [Ids -> 0 .. MaxAnswers]
    BY <1>5, MaxAnswersAssumption DEF ChromeAnswers, IInv, TypeOK
  <2> QED
    BY <1>5, <2>1, <2>2 DEF ChromeAnswers, IInv, TypeOK, Accounting, TimerGuards
<1>6. CASE UNCHANGED vars
  BY <1>6 DEF vars, IInv, TypeOK, Asked, Accounting, TimerGuards
<1> QED
  BY <1>1, <1>2, <1>3, <1>4, <1>5, <1>6 DEF Next

LEMMA IInvHolds == Spec => []IInv
  BY InitIInv, NextIInv, PTL DEF Spec

-----------------------------------------------------------------------------
(* The variables of the content script keep their types; in particular a   *)
(* timeout is armed only for a call that has an entry.                     *)
THEOREM TypeCorrect == Spec => []TypeOK
<1>1. IInv => TypeOK
  BY DEF IInv
<1> QED
  BY <1>1, IInvHolds, PTL

(* activeRequests is the number of entries less the callback calls that    *)
(* threw, and the listener is registered exactly while it is positive.     *)
THEOREM AccountingHolds == Spec => []Accounting
<1>1. IInv => Accounting
  BY DEF IInv
<1> QED
  BY <1>1, IInvHolds, PTL

(* The timeout of a call is armed exactly until its callback first runs.   *)
THEOREM TimersGuardCalls == Spec => []TimerGuards
<1>1. IInv => TimerGuards
  BY DEF IInv
<1> QED
  BY <1>1, IInvHolds, PTL

(* A callback that has returned is never called again.                     *)
THEOREM SettledOnceHolds == Spec => SettledOnce
<1> DEFINE Quiet == \A id \in settled : calls'[id] = calls[id] /\ id \notin callbacks'
<1>1. IInv /\ IInv' /\ [Next]_vars => [Quiet]_vars
  <2> SUFFICES ASSUME IInv, IInv', Next PROVE Quiet
    OBVIOUS
  <2>1. ASSUME NEW id \in settled PROVE calls'[id] = calls[id] /\ id \notin callbacks'
    <3>1. id \in settled'
      BY <2>1 DEF Next, SendToChrome, ProcessChromeResponse, DropResponse, HandleTimeout,
                  ChromeAnswers, DeliverResponse, IgnoreResponse, RunCallback
    <3>2. id \notin callbacks'
      BY <3>1 DEF IInv
    <3>3. ASSUME NEW other, NEW asks, NEW threw, RunCallback(other, asks, threw)
          PROVE  calls'[id] = calls[id]
      BY <2>1, <3>3 DEF RunCallback, IInv, TypeOK, Asked, Ids
    <3>4. calls' = calls \/ \E other, asks, threw : RunCallback(other, asks, threw)
      BY DEF Next, SendToChrome, ProcessChromeResponse, DropResponse, HandleTimeout,
             ChromeAnswers, DeliverResponse, IgnoreResponse
    <3> QED
      BY <3>2, <3>3, <3>4
  <2> QED
    BY <2>1
<1> QED
  BY <1>1, IInvHolds, PTL DEF Spec, SettledOnce

-----------------------------------------------------------------------------
(* One call of allValidAppIds.                                             *)
(* A set of numbers has a least one.                                       *)
LEMMA Least ==
    ASSUME NEW S \in SUBSET Nat, S # {}
    PROVE  \E m \in S : \A n \in S : m <= n
<1>1. \E m \in S : \A n \in S : ~(<<n, m>> \in OpToRel(<, Nat))
  BY WFMin, NatLessThanWellFounded, Zenon
<1>2. PICK m \in S : \A n \in S : ~(<<n, m>> \in OpToRel(<, Nat))
  BY <1>1
<1>3. \A n \in S : ~(n < m)
  BY <1>2 DEF OpToRel
<1> QED
  BY <1>3

(* The two Range of module Functions are the same.                         *)
LEMMA SameRange == \A f : Validator!Range(f) = Range(f)
  BY DEF Range, Validator!Range

Distinct(s) == \A j, k \in DOMAIN s : s[j] = s[k] => j = k

(* A set of numbers can be counted in their order.                         *)
LEMMA InOrder ==
    ASSUME NEW n \in Nat, NEW S \in SUBSET Nat, IsFiniteSet(S), Cardinality(S) = n
    PROVE  \E s \in [1 .. n -> S] : Range(s) = S /\ Validator!Ascending(s)
<1> DEFINE Listed(m, T) ==
              IsFiniteSet(T) /\ Cardinality(T) = m =>
                  \E s \in [1 .. m -> T] : Range(s) = T /\ Validator!Ascending(s)
           Bad == {m \in Nat : \E T \in SUBSET Nat : ~Listed(m, T)}
<1>1. ASSUME NEW m \in Nat, \A k \in Nat : k < m => k \notin Bad, NEW T \in SUBSET Nat
      PROVE  Listed(m, T)
  <2> SUFFICES ASSUME IsFiniteSet(T), Cardinality(T) = m
               PROVE  \E s \in [1 .. m -> T] : Range(s) = T /\ Validator!Ascending(s)
    OBVIOUS
  <2>1. CASE m = 0
    <3>1. T = {}
      BY <2>1, FS_EmptySet
    <3>2. <<>> \in [1 .. m -> T] /\ Range(<<>>) = T /\ Validator!Ascending(<<>>)
      BY <2>1, <3>1 DEF Range, Validator!Ascending
    <3> QED
      BY <3>2
  <2>2. CASE m # 0
    <3>1. PICK b \in T : \A c \in T : b <= c
      BY <2>2, FS_EmptySet, Least
    <3>2. IsFiniteSet(T \ {b}) /\ Cardinality(T \ {b}) = m - 1
      BY FS_RemoveElement
    <3>3. m - 1 \in Nat /\ m - 1 < m /\ T \ {b} \in SUBSET Nat
      BY <2>2
    <3>4. Listed(m - 1, T \ {b})
      BY <1>1, <3>3
    <3>5. PICK s \in [1 .. m - 1 -> T \ {b}] : Range(s) = T \ {b} /\ Validator!Ascending(s)
      BY <3>2, <3>4
    <3> DEFINE t == [k \in 1 .. m |-> IF k = 1 THEN b ELSE s[k - 1]]
    <3>6. t \in [1 .. m -> T]
      BY <3>3
    <3>7. Range(t) = T
      <4>1. \A c \in T : \E k \in 1 .. m : t[k] = c
        <5> SUFFICES ASSUME NEW c \in T PROVE \E k \in 1 .. m : t[k] = c
          OBVIOUS
        <5>1. CASE c = b
          BY <2>2, <5>1
        <5>2. CASE c # b
          <6>1. PICK k \in 1 .. m - 1 : s[k] = c
            BY <3>5, <5>2 DEF Range
          <6> QED
            BY <2>2, <6>1
        <5> QED
          BY <5>1, <5>2
      <4> HIDE DEF t
      <4> QED
        BY <3>6, <4>1 DEF Range
    <3>8. Validator!Ascending(t)
      <4> SUFFICES ASSUME NEW j \in 1 .. m, NEW k \in 1 .. m, j < k PROVE t[j] < t[k]
        BY DEF Validator!Ascending
      <4>1. k - 1 \in 1 .. m - 1 /\ t[k] = s[k - 1] /\ s[k - 1] \in T \ {b}
        OBVIOUS
      <4>2. CASE j = 1
        <5>1. t[j] = b /\ b \in Nat /\ s[k - 1] \in Nat /\ b <= s[k - 1] /\ b # s[k - 1]
          BY <3>1, <4>1, <4>2
        <5> HIDE DEF t
        <5> QED
          BY <4>1, <5>1
      <4>3. CASE j # 1
        BY <3>5, <4>1, <4>3 DEF Validator!Ascending
      <4> QED
        BY <4>2, <4>3
    <3> HIDE DEF t
    <3> QED
      BY <3>6, <3>7, <3>8
  <2> QED
    BY <2>1, <2>2
<1> HIDE DEF Listed
<1>2. Bad = {}
  <2> SUFFICES ASSUME Bad # {} PROVE FALSE
    OBVIOUS
  <2>1. PICK m \in Bad : \A k \in Bad : m <= k
    BY Least
  <2>2. \A k \in Nat : k < m => k \notin Bad
    BY <2>1
  <2> QED
    BY <1>1, <2>1, <2>2
<1>3. Listed(n, S)
  BY <1>2
<1> QED
  BY <1>3 DEF Listed

LEMMA CountedUpTo ==
    ASSUME NEW n \in Nat PROVE IsFiniteSet(1 .. n) /\ Cardinality(1 .. n) = n
<1>1. /\ IsFiniteSet(1 .. n)
      /\ Cardinality(1 .. n) = IF 1 > n THEN 0 ELSE n - 1 + 1
  BY FS_Interval
<1> QED
  BY <1>1

(* Sorting what is there once puts it in order.                            *)
LEMMA SortedFits ==
    ASSUME NEW g \in Seq(Nat), Distinct(g)
    PROVE  /\ Validator!Sorted(g) \in Seq(Range(g)) /\ Validator!Ascending(Validator!Sorted(g))
           /\ Range(Validator!Sorted(g)) = Range(g)
<1>1. Len(g) \in Nat /\ DOMAIN g = 1 .. Len(g) /\ g \in [1 .. Len(g) -> Nat]
  BY LenProperties
<1>2. Range(g) \in SUBSET Nat /\ g \in Bijection(1 .. Len(g), Range(g))
  BY <1>1 DEF Range, Distinct, Bijection, Injection, Surjection, IsInjective
<1>3. IsFiniteSet(Range(g)) /\ Cardinality(Range(g)) = Len(g)
  <2>1. IsFiniteSet(1 .. Len(g)) /\ Cardinality(1 .. Len(g)) = Len(g)
    BY <1>1, CountedUpTo
  <2>2. ExistsBijection(1 .. Len(g), Range(g))
    BY <1>2 DEF ExistsBijection
  <2> QED
    BY <2>1, <2>2, FS_Bijection
<1>4. \E s \in [DOMAIN g -> Range(g)] : Range(s) = Range(g) /\ Validator!Ascending(s)
  BY <1>1, <1>2, <1>3, InOrder
<1> DEFINE Fits(s) == Validator!Range(s) = Validator!Range(g) /\ Validator!Ascending(s)
<1>s. Validator!Sorted(g) = CHOOSE s \in [DOMAIN g -> Validator!Range(g)] : Fits(s)
  BY DEF Validator!Sorted
<1>f. \E s \in [DOMAIN g -> Validator!Range(g)] : Fits(s)
  BY <1>4, SameRange
<1> HIDE DEF Fits
<1>c. Validator!Sorted(g) \in [DOMAIN g -> Validator!Range(g)] /\ Fits(Validator!Sorted(g))
  BY <1>s, <1>f
<1>5. /\ Validator!Sorted(g) \in [DOMAIN g -> Range(g)]
      /\ Range(Validator!Sorted(g)) = Range(g) /\ Validator!Ascending(Validator!Sorted(g))
  BY <1>c, SameRange DEF Fits
<1>6. Validator!Sorted(g) \in Seq(Range(g))
  BY <1>1, <1>5, SeqDef
<1> QED
  BY <1>5, <1>6


-----------------------------------------------------------------------------
(* What a check has found is what was there to find; a handler has run for *)
(* settled checks only, and pushed the valid ones, each once; the others   *)
(* are still counted, and without a handler for every challenge the count  *)
(* does not come to its end.                                               *)
Found ==
    \A i \in Validator!Challenges :
        /\ promise[i] = "pending" => finds[i] \in {"listed", "unlisted", "nolist"}
        /\ promise[i] = "fulfilled" => finds[i] \in Validator!Valid
        /\ promise[i] = "rejected" => finds[i] \notin Validator!Valid

Pushed ==
    /\ \A i \in handled : promise[i] \in {"fulfilled", "rejected"}
    /\ Distinct(goodValues)
    /\ Range(goodValues) = {i \in handled : promise[i] = "fulfilled"}

Counting ==
    /\ IsFiniteSet(handled)
    /\ state = "start" => attached = {} /\ result = <<>>
    /\ state # "start" => count = Len(finds) - Cardinality(handled)
    /\ state = "threw" => attached # Validator!Challenges
    /\ state = "resolved" => handled = Validator!Challenges

CheckInv == Validator!TypeOK /\ Found /\ Pushed /\ Counting /\ Validator!ResultExact

LEMMA CheckInitially ==
    ASSUME MaxChallenges \in Nat, Validator!Init PROVE CheckInv
<1>1. PICK n \in 0 .. MaxChallenges : finds \in [1 .. n -> Validator!Finds]
  BY DEF Validator!Init
<1>2. n \in Nat /\ Len(finds) = n /\ DOMAIN finds = 1 .. n /\ finds \in Seq(Validator!Finds)
  BY <1>1, SeqDef, LenProperties
<1>3. /\ promise = [i \in Validator!Challenges |-> "none"] /\ attached = {} /\ handled = {}
      /\ goodValues = <<>> /\ count = 0 /\ state = "start" /\ result = <<>>
  BY DEF Validator!Init
<1>4. Validator!TypeOK
  BY <1>1, <1>2, <1>3, EmptySeq DEF Validator!TypeOK, Validator!Challenges
<1>5. Found
  BY <1>3 DEF Found
<1>6. Pushed
  BY <1>3, EmptySeq DEF Pushed, Distinct, Range
<1>7. Counting
  BY <1>3, FS_EmptySet DEF Counting
<1> QED
  BY <1>3, <1>4, <1>5, <1>6, <1>7 DEF CheckInv, Validator!ResultExact

LEMMA AllChecksStart ==
    ASSUME MaxChallenges \in Nat, CheckInv, Validator!AllValidAppIds PROVE CheckInv'
<1>1. /\ UNCHANGED <<finds, handled, goodValues, result>> /\ state = "start"
      /\ attached = {} /\ handled = {} /\ goodValues \in Seq(Validator!Challenges)
      /\ result = <<>> /\ count' = Len(finds)
      /\ Validator!Challenges = 1 .. Len(finds) /\ Len(finds) \in Nat
      /\ attached' \subseteq Validator!Challenges
      /\ \A i \in Validator!Challenges : finds[i] \in Validator!Finds
  BY DEF Validator!AllValidAppIds, CheckInv, Validator!TypeOK, Counting, Pushed
<1> DEFINE broken == {i \in Validator!Challenges : finds[i] = "malformed"}
<1>2. /\ promise' = [i \in Validator!Challenges |-> Validator!Returned(finds[i])]
      /\ attached' = {i \in Validator!Challenges : \A b \in broken : i < b}
      /\ state' = CASE finds = <<>> -> "resolved"
                    [] broken # {} -> "threw"
                    [] OTHER -> "waiting"
  BY DEF Validator!AllValidAppIds
<1>3. Validator!Challenges' = Validator!Challenges
  BY <1>1 DEF Validator!Challenges
<1>4. Validator!TypeOK'
  <2>1. promise' \in [Validator!Challenges -> {"none", "pending", "stuck", "fulfilled", "rejected"}]
    BY <1>2 DEF Validator!Returned
  <2>2. state' \in {"start", "waiting", "threw", "resolved"}
    BY <1>2
  <2> QED
    BY <1>1, <1>3, <2>1, <2>2 DEF CheckInv, Validator!TypeOK
<1>5. Found'
  BY <1>1, <1>2, <1>3 DEF Found, Validator!Returned, Validator!Finds, Validator!Valid
<1>6. Pushed'
  BY <1>1 DEF CheckInv, Pushed, Distinct
<1>7. Counting'
  <2>1. IsFiniteSet(handled') /\ Cardinality(handled') = 0
    BY <1>1, FS_EmptySet
  <2>2. state' # "start"
    BY <1>2
  <2>3. ASSUME state' = "threw" PROVE attached' # Validator!Challenges
    <3>1. PICK b \in broken : TRUE
      BY <1>2, <2>3
    <3> QED
      BY <1>1, <1>2, <3>1
  <2>4. ASSUME state' = "resolved" PROVE handled' = Validator!Challenges
    <3>1. finds = <<>>
      BY <1>2, <2>4
    <3>2. Len(finds) = 0
      BY <3>1, EmptySeq
    <3> QED
      BY <1>1, <3>2
  <2> QED
    BY <1>1, <1>3, <2>1, <2>2, <2>3, <2>4 DEF Counting
<1>8. Validator!ResultExact'
  <2> SUFFICES ASSUME state' = "resolved"
               PROVE  /\ Validator!Ascending(result')
                      /\ Validator!Range(result') = {i \in Validator!Challenges' : finds'[i] \in Validator!Valid}
    BY DEF Validator!ResultExact
  <2>1. Validator!Challenges = {} /\ result' = <<>>
    <3>1. finds = <<>>
      BY <1>2
    <3> QED
      BY <1>1, <3>1, EmptySeq DEF Validator!Challenges
  <2> QED
    BY <1>3, <2>1 DEF Validator!Ascending, Validator!Range
<1> QED
  BY <1>4, <1>5, <1>6, <1>7, <1>8 DEF CheckInv

LEMMA FetchEnds ==
    ASSUME CheckInv, NEW i \in Validator!Challenges, Validator!Fetch(i) PROVE CheckInv'
<1>1. /\ UNCHANGED <<finds, attached, handled, goodValues, count, state, result>>
      /\ promise[i] = "pending" /\ promise' = [promise EXCEPT ![i] = Validator!Fetched(finds[i])]
      /\ finds[i] \in {"listed", "unlisted", "nolist"}
      /\ promise \in [Validator!Challenges -> {"none", "pending", "stuck", "fulfilled", "rejected"}]
  BY DEF Validator!Fetch, CheckInv, Found, Validator!TypeOK
<1>2. Validator!Challenges' = Validator!Challenges
  BY <1>1 DEF Validator!Challenges
<1>3. /\ promise'[i] \in {"fulfilled", "rejected", "stuck"}
      /\ promise'[i] = "fulfilled" <=> finds[i] = "listed"
      /\ promise'[i] = "rejected" <=> finds[i] = "unlisted"
      /\ \A j \in Validator!Challenges : j # i => promise'[j] = promise[j]
      /\ promise' \in [Validator!Challenges -> {"none", "pending", "stuck", "fulfilled", "rejected"}]
  BY <1>1 DEF Validator!Fetched
<1>4. Validator!TypeOK'
  BY <1>1, <1>2, <1>3 DEF CheckInv, Validator!TypeOK
<1>5. Found'
  BY <1>1, <1>2, <1>3 DEF CheckInv, Found, Validator!Valid
<1>6. i \notin handled /\ handled \subseteq Validator!Challenges
  BY <1>1 DEF CheckInv, Pushed, Validator!TypeOK
<1>7. Pushed'
  BY <1>1, <1>3, <1>6 DEF CheckInv, Pushed, Distinct
<1>8. Counting'
  BY <1>1, <1>2 DEF CheckInv, Counting
<1>9. Validator!ResultExact'
  BY <1>1, <1>2 DEF CheckInv, Validator!ResultExact
<1> QED
  BY <1>4, <1>5, <1>7, <1>8, <1>9 DEF CheckInv

LEMMA HandlerRuns ==
    ASSUME CheckInv, NEW i \in Validator!Challenges, Validator!Handle(i) PROVE CheckInv'
<1>1. /\ UNCHANGED <<finds, promise, attached>>
      /\ i \in attached /\ i \notin handled /\ handled' = handled \cup {i}
      /\ promise[i] \in {"fulfilled", "rejected"}
      /\ goodValues' = IF promise[i] = "fulfilled" THEN Append(goodValues, i) ELSE goodValues
      /\ count' = count - 1
      /\ IF count' # 0 THEN UNCHANGED <<state, result>>
         ELSE state' = "resolved" /\ result' = Validator!Sorted(goodValues')
  BY DEF Validator!Handle, Validator!Finished, Validator!Counted
<1>2. /\ Validator!Challenges' = Validator!Challenges /\ Validator!Challenges = 1 .. Len(finds)
      /\ Len(finds) \in Nat /\ goodValues \in Seq(Validator!Challenges)
      /\ handled \subseteq attached /\ attached \subseteq Validator!Challenges
  BY <1>1 DEF CheckInv, Validator!TypeOK, Validator!Challenges
<1>3. state # "start" /\ count = Len(finds) - Cardinality(handled)
  BY <1>1 DEF CheckInv, Counting
<1>4. /\ IsFiniteSet(handled') /\ Cardinality(handled') = Cardinality(handled) + 1
      /\ Cardinality(handled) \in Nat
  BY <1>1, FS_AddElement, FS_CardinalityType DEF CheckInv, Counting
<1>5. IsFiniteSet(Validator!Challenges) /\ Cardinality(Validator!Challenges) = Len(finds)
  <2>1. IsFiniteSet(1 .. Len(finds)) /\ Cardinality(1 .. Len(finds)) = Len(finds)
    BY <1>2, CountedUpTo
  <2> QED
    BY <1>2, <2>1
<1>6. /\ Cardinality(handled') <= Len(finds)
      /\ Cardinality(handled') = Len(finds) => handled' = Validator!Challenges
  BY <1>1, <1>2, <1>4, <1>5, FS_Subset
<1>7. goodValues' \in Seq(Validator!Challenges) /\ Distinct(goodValues')
      /\ Range(goodValues') = {j \in handled' : promise[j] = "fulfilled"}
  <2>1. Distinct(goodValues) /\ Range(goodValues) = {j \in handled : promise[j] = "fulfilled"}
    BY DEF CheckInv, Pushed
  <2>2. CASE promise[i] = "fulfilled"
    <3>1. /\ goodValues' = Append(goodValues, i) /\ Len(goodValues) \in Nat
          /\ DOMAIN goodValues = 1 .. Len(goodValues)
      BY <1>1, <1>2, <2>2, LenProperties
    <3>2. /\ goodValues' \in Seq(Validator!Challenges)
          /\ DOMAIN goodValues' = 1 .. Len(goodValues) + 1
          /\ \A k \in 1 .. Len(goodValues) : goodValues'[k] = goodValues[k]
          /\ goodValues'[Len(goodValues) + 1] = i
      BY <1>2, <3>1, AppendProperties, LenProperties
    <3>3. \A k \in DOMAIN goodValues : goodValues[k] # i
      BY <1>1, <2>1 DEF Range
    <3>4. Distinct(goodValues')
      BY <2>1, <3>1, <3>2, <3>3 DEF Distinct
    <3>5. Range(goodValues') = Range(goodValues) \cup {i}
      BY <3>1, <3>2 DEF Range
    <3> QED
      BY <1>1, <2>1, <2>2, <3>2, <3>4, <3>5
  <2>3. CASE promise[i] # "fulfilled"
    BY <1>1, <1>2, <2>1, <2>3
  <2> QED
    BY <2>2, <2>3
<1>8. Pushed'
  BY <1>1, <1>7 DEF CheckInv, Pushed
<1>9. Found'
  BY <1>1, <1>2 DEF CheckInv, Found
<1>10. count' \in Nat /\ (count' = 0 => handled' = Validator!Challenges /\ attached = Validator!Challenges)
  <2>1. count' = Len(finds) - Cardinality(handled')
    BY <1>1, <1>2, <1>3, <1>4
  <2>2. Cardinality(handled') \in Nat
    BY <1>4
  <2>3. count' \in Nat /\ (count' = 0 => Cardinality(handled') = Len(finds))
    BY <1>2, <1>6, <2>1, <2>2
  <2>4. handled' = Validator!Challenges => attached = Validator!Challenges
    BY <1>1, <1>2
  <2> QED
    BY <1>6, <2>3, <2>4
<1>11. Counting'
  BY <1>1, <1>2, <1>3, <1>4, <1>10, SMTT(20) DEF CheckInv, Counting
<1>12. ASSUME count' = 0
       PROVE  /\ result' \in Seq(Validator!Challenges) /\ Validator!Ascending(result')
              /\ Range(result') = {j \in Validator!Challenges : finds[j] \in Validator!Valid}
  <2>1. goodValues' \in Seq(Nat)
    BY <1>2, <1>7, SeqMonotone
  <2>2. /\ result' \in Seq(Range(goodValues')) /\ Validator!Ascending(result')
        /\ Range(result') = Range(goodValues')
    BY <1>1, <1>7, <1>12, <2>1, SortedFits
  <2>3. result' \in Seq(Validator!Challenges)
    <3>1. Range(goodValues') \subseteq Validator!Challenges
      BY <1>1, <1>2, <1>7
    <3> QED
      BY <2>2, <3>1, SeqMonotone
  <2>4. \A j \in Validator!Challenges :
            promise[j] \in {"fulfilled", "rejected"}
            /\ (promise[j] = "fulfilled" <=> finds[j] \in Validator!Valid)
    BY <1>1, <1>10, <1>12 DEF CheckInv, Pushed, Found
  <2> QED
    BY <1>7, <1>10, <1>12, <2>2, <2>3, <2>4
<1>13. Validator!TypeOK'
  <2>1. result' \in Seq(Validator!Challenges) /\ state' \in {"start", "waiting", "threw", "resolved"}
    BY <1>1, <1>12 DEF CheckInv, Validator!TypeOK
  <2> QED
    BY <1>1, <1>2, <1>7, <1>10, <2>1 DEF CheckInv, Validator!TypeOK
<1>14. Validator!ResultExact'
  <2>1. CASE count' = 0
    BY <1>1, <1>2, <1>12, <2>1, SameRange DEF Validator!ResultExact
  <2>2. CASE count' # 0
    BY <1>1, <1>2, <2>2 DEF CheckInv, Validator!ResultExact
  <2> QED
    BY <2>1, <2>2
<1> QED
  BY <1>8, <1>9, <1>11, <1>13, <1>14 DEF CheckInv

(* Whatever order the fetches end and the handlers run in, the promise of  *)
(* allValidAppIds is resolved with exactly the valid challenges, in the    *)
(* order of the request: for any number of challenges.                     *)
THEOREM ExactAlways == Validator!Spec => []Exact
<1> USE ChallengesAssumption DEF Validator!MaxChallengesAssumption
<1>1. Validator!Init => CheckInv
  BY CheckInitially
<1>2. CheckInv /\ [Validator!Next]_Validator!vars => CheckInv'
  <2> SUFFICES ASSUME CheckInv, [Validator!Next]_Validator!vars PROVE CheckInv'
    OBVIOUS
  <2>1. CASE UNCHANGED Validator!vars
    BY <2>1 DEF Validator!vars, CheckInv, Validator!TypeOK, Validator!Challenges, Found, Pushed, Distinct,
       Counting, Validator!ResultExact
  <2>2. CASE Validator!Next
    BY <2>2, AllChecksStart, FetchEnds, HandlerRuns DEF Validator!Next
  <2> QED
    BY <2>1, <2>2
<1>3. CheckInv => Exact
  BY DEF CheckInv, Exact
<1> QED
  BY <1>1, <1>2, <1>3, PTL DEF Validator!Spec

=============================================================================

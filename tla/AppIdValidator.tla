--------------------------- MODULE AppIdValidator ---------------------------
(***************************************************************************)
(* One call of allValidAppIds (ext/appIdValidator.js): every challenge of  *)
(* a request is checked against the page's origin, some at once and some   *)
(* after fetching a list of trusted facets, and the promise that is        *)
(* returned resolves with the valid ones when all checks are over.         *)
(*                                                                         *)
(* Promise reactions and fetches complete in any order.  A challenge is    *)
(* its index; what its check will find is chosen at the start.             *)
(***************************************************************************)
EXTENDS Naturals, Sequences, FiniteSets, Functions

CONSTANT MaxChallenges      \* bound: challenges of one call

MaxChallengesAssumption == MaxChallenges \in Nat

Finds ==
    {"same",        \* no appId, or one of the page's own origin
     "other",       \* another scheme, path or domain: rejected at once
     "listed",      \* the fetched list names the page's origin
     "unlisted",    \* it does not
     "nolist",      \* fetchTrustedFacetsList rejects, or what it gives throws
     "malformed"}   \* no object or URL: the catch clause returns no promise

Valid == {"same", "listed"}

VARIABLES
    finds,          \* what the check of each challenge finds
    promise,        \* what hasValidAppId returned for each challenge
    attached,       \* the challenges allValid has attached its handlers to
    handled,        \* those whose handlers have run
    goodValues,     \* the valid ones, in the order their handlers ran
    count,          \* valuesLeft.count
    state,          \* of the call: "start", "waiting", "threw" or "resolved"
    result          \* what the returned promise was resolved with

vars == <<finds, promise, attached, handled, goodValues, count, state, result>>

Challenges == DOMAIN finds
Indices == 1 .. MaxChallenges

TypeOK ==
    /\ Challenges = 1 .. Len(finds) /\ Len(finds) <= MaxChallenges
    /\ \A i \in Challenges : finds[i] \in Finds
    /\ promise \in [Challenges -> {"none", "pending", "stuck",
                                   "fulfilled", "rejected"}]
    /\ attached \subseteq Challenges
    /\ handled \subseteq attached
    /\ goodValues \in Seq(Challenges)
    /\ count \in Nat
    /\ state \in {"start", "waiting", "threw", "resolved"}
    /\ result \in Seq(Challenges)

Init ==
    /\ \E n \in 0 .. MaxChallenges : finds \in [1 .. n -> Finds]
    /\ promise = [i \in Challenges |-> "none"]
    /\ attached = {}
    /\ handled = {}
    /\ goodValues = <<>>
    /\ count = 0
    /\ state = "start"
    /\ result = <<>>

-----------------------------------------------------------------------------
(* What hasValidAppId returns.                                             *)
Returned(find) ==
    CASE find = "same" -> "fulfilled"
      [] find = "other" -> "rejected"
      [] find = "malformed" -> "none"
      [] OTHER -> "pending"

(* How the promise of a fetching check ends; "stuck" is neither fulfilled  *)
(* nor rejected: nobody handles the rejection of the fetch.                *)
Fetched(find) ==
    CASE find = "listed" -> "fulfilled"
      [] find = "unlisted" -> "rejected"
      [] find = "nolist" -> "stuck"

(* allValidAppIds up to its return: all checks are started, then allValid  *)
(* attaches its handlers one by one, until it meets what is no promise.    *)
AllValidAppIds ==
    LET broken == {i \in Challenges : finds[i] = "malformed"}
    IN  /\ state = "start"
        /\ promise' = [i \in Challenges |-> Returned(finds[i])]
        /\ attached' = {i \in Challenges : \A b \in broken : i < b}
        /\ count' = Len(finds)
        /\ state' = CASE finds = <<>> -> "resolved"
                      [] broken # {} -> "threw"
                      [] OTHER -> "waiting"
        /\ UNCHANGED <<finds, handled, goodValues, result>>

(* fetchTrustedFacetsList is over.                                         *)
Fetch(i) ==
    /\ promise[i] = "pending"
    /\ promise' = [promise EXCEPT ![i] = Fetched(finds[i])]
    /\ UNCHANGED <<finds, attached, handled, goodValues, count, state, result>>

(* What the handlers wait for, sort (no challenge is pushed twice) and     *)
(* count.                                                                  *)
(* Each is preceded by a faulty variant that only shows a property notices.*)
Ascending(values) == \A j, k \in DOMAIN values : j < k => values[j] < values[k]

AsPushed(values) == values
Sorted(values) ==
    CHOOSE s \in [DOMAIN values -> Range(values)] :
        Range(s) = Range(values) /\ Ascending(s)

FulfilledCounted(i) == IF promise[i] = "fulfilled" THEN count - 1 ELSE count
Counted(i) == count - 1

(* finished().                                                             *)
Finished(i, values) ==
    /\ count' = Counted(i)
    /\ IF count' # 0
       THEN UNCHANGED <<state, result>>
       ELSE /\ state' = "resolved"
            /\ result' = Sorted(values)

(* The handler of a settled promise runs: then or catch.                   *)
Handle(i) ==
    /\ i \in attached \ handled
    /\ promise[i] \in {"fulfilled", "rejected"}
    /\ handled' = handled \cup {i}
    /\ goodValues' = IF promise[i] = "fulfilled" THEN Append(goodValues, i)
                     ELSE goodValues
    /\ Finished(i, goodValues')
    /\ UNCHANGED <<finds, promise, attached>>

Next ==
    \/ AllValidAppIds
    \/ \E i \in Challenges : Fetch(i) \/ Handle(i)

(* Handlers of settled promises run, and fetches end.                      *)
Fairness ==
    /\ WF_vars(AllValidAppIds)
    /\ \A i \in Indices : WF_vars(i \in Challenges /\ (Fetch(i) \/ Handle(i)))

Spec == Init /\ [][Next]_vars
FairSpec == Spec /\ Fairness

-----------------------------------------------------------------------------
(* The promise is resolved with exactly the valid challenges, in the order *)
(* of the request, in whatever order the checks end; it is not resolved    *)
(* while one is missing.                                                   *)
ResultExact ==
    state = "resolved" =>
        Ascending(result) /\ Range(result) = {i \in Challenges : finds[i] \in Valid}

(* The promise is resolved, unless a list could not be fetched or a        *)
(* challenge is malformed: a rejected check does not hold up the others.   *)
Resolves ==
    <>(\/ state = "resolved"
       \/ state = "threw"
       \/ \E i \in Challenges : promise[i] = "stuck")

=============================================================================

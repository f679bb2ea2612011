-------------------------- MODULE MCAppIdValidator --------------------------
(***************************************************************************)
(* Model of AppIdValidator for TLC.                                        *)
(***************************************************************************)
EXTENDS Naturals

CONSTANT MaxChallenges      \* bound: challenges of one call

VARIABLES finds, promise, attached, handled, goodValues, count, state, result

Validator == INSTANCE AppIdValidator

ASSUME ChallengesAssumption == Validator!MaxChallengesAssumption

ValidatorSpec == Validator!FairSpec

-----------------------------------------------------------------------------
(* The variables have their types, and the promise is resolved with        *)
(* exactly the valid challenges, in the order of the request, in whatever  *)
(* order the checks end.                                                   *)
Exact == Validator!TypeOK /\ Validator!ResultExact

(* The promise is resolved, unless a list could not be fetched or a        *)
(* challenge is malformed: a rejected check does not hold up the others.   *)
Resolves == Validator!Resolves

=============================================================================

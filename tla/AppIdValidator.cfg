\* Up to three challenges of any kind, their checks in any order.
SPECIFICATION ValidatorSpec
CONSTANTS
    MaxChallenges = 3
INVARIANTS
    Exact
PROPERTIES
    Resolves
\* The call is over.
CHECK_DEADLOCK FALSE

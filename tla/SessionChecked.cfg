\* Two overlapping registers of one page, each preceded by its check.
SPECIFICATION Spec
CONSTANTS
    r1 = r1
    r2 = r2
    r3 = r3
    w1 = w1
    w2 = w2
    NoRequest = NoRequest
    Requests = {r1, r2}
    Workers = {w1}
    KindsAsked = {"checked"}
    MaxPrompts = 1
INVARIANTS
    AnswersFit
SYMMETRY Symmetry
\* The pages may stop asking: the system really may stop.
CHECK_DEADLOCK FALSE

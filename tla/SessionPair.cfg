\* Two requests of two pages, with prompts.
SPECIFICATION Spec
CONSTANTS
    r1 = r1
    r2 = r2
    r3 = r3
    w1 = w1
    w2 = w2
    NoRequest = NoRequest
    Requests = {r1, r2}
    Workers = {w1, w2}
    KindsAsked = {"register"}
    MaxPrompts = 1
INVARIANTS
    NotesRemovable
PROPERTIES
    DetachKills
SYMMETRY Symmetry
\* The pages may stop asking: the system really may stop.
CHECK_DEADLOCK FALSE

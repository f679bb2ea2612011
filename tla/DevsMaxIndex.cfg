\* What the comment on max_index says, over three discoveries.
SPECIFICATION Spec
CONSTANTS
    p1 = p1
    p2 = p2
    Paths = {p1, p2}
    NoPath = NoPath
    MaxPlugs = 2
    MaxCalls = 3
INVARIANTS
    MaxIndexCounts
SYMMETRY Symmetry
\* The caller may stop calling discover.
CHECK_DEADLOCK FALSE

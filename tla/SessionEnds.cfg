\* One request of any kind, and two overlapping ones of one page.
SPECIFICATION FairSpec
INVARIANTS
    VerdictsFit
PROPERTIES
    VerdictOrKill
    EveryHelperReaped
\* The pages may stop asking: the system really may stop.
CHECK_DEADLOCK FALSE

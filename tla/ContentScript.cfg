\* One page, three calls, up to two responses per call (index.js may send two).
SPECIFICATION FairSpec
CONSTANTS
    MaxRequests = 3
    MaxAnswers = 2
INVARIANTS
    TypeOK
    Accounting
    TimerGuards
PROPERTIES
    SettledOnce
    EveryCallAnswered
\* The page may stop calling u2f.*: the system really may stop.
CHECK_DEADLOCK FALSE

\* One part after another, each under the fairness of its module.
CONSTANTS
    \* messages and answers of one to three frames
    InitData = 17
    ContData = 20
    HidTimeout = 2
    MaxTimeout = 4
    SendLens = {9, 17, 18, 38}
    AnswerLens = {2, 17, 18, 77}
    InputReports = 2
    MaxCalls = 4
    \* three devices, up to three rounds
    NumDevices = 3
    RoundLimit = 2
    \* the sizes of the code, and lengths up to them and above, of the code too
    FieldSize = 256
    OutSize = 2048
    HandleSize = 128
    AnswerMax = 1022
    TextLengths = {0, 170, 171, 255, 256}
    DataLengths = {2, 1533, 1534, 2047, 2048}
    \* room for two challenges, of up to three that are written
    Modulus = 4
    SenderMax = 3
    ReaderMax = 3
    WireRequests <- MCWireRequests
    \* four reports, a queue that keeps three
    QueueLimit = 1
    MaxReports = 4
    \* six reports, and a ring of two, so that it is overrun during a read
    RingSize = 2
    WinReports = 6
SPECIFICATION FairSpec
INVARIANTS
    AnswersMatch
    OneDeviceActs
    Balanced
    Delivered
    ReadsOrdered
PROPERTIES
    QueuesReports
    CallsReturn
\* Calls return and programs end.
CHECK_DEADLOCK FALSE

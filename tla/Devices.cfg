\* One part after another, each with all that its environment may do to it.
SPECIFICATION Spec
CONSTANTS
    \* three devices, each of one of the kinds a backend tells apart
    HidrawCount = 3
    HidrawKinds <- MCHidrawKinds
    HidrawCallers <- MCHidrawCallers
    WinCount = 3
    WinKinds <- MCWinKinds
    WinCallers <- MCWinCallers
    LibusbCount = 2
    LibusbKinds <- MCLibusbKinds
    \* two paths, three discoveries, devices replugged twice
    TablePaths = {path1, path2}
    Nowhere = Nowhere
    MaxPlugs = 2
    MaxDiscoveries = 3
    \* a main item without data, usage pages of one and two bytes, a usage,
    \* a report ID and a long item
    Bytes = {0, 5, 6, 9, 133, 254}
    MaxSize = 5
    Walkers = {"u2f", "libusb", "numbered"}
    \* two programs that make four calls, with answers of one or two frames
    Programs = {p1, p2}
    InitData = 17
    ContData = 20
    HidTimeout = 2
    MaxTimeout = 4
    SendLens = {9}
    AnswerLens = {18}
    InputReports = 2
    MaxCalls = 4
    \* two devices on one context, three reports each, a queue of two
    Readers = {d1, d2}
    NoDevice = NoDevice
    QueueLimit = 0
    MaxReports = 3
SYMMETRY Symmetry
INVARIANTS
    TypeOK
    ListExact
    OpensWanted
    EntriesOwned
    ResultFits
    NothingLeft
    DescriptorExact
    ChannelsApart
    NoUseAfterFree
PROPERTIES
    QueuesReports
\* Calls return and programs end.
CHECK_DEADLOCK FALSE

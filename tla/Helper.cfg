\* One helper under the extension's protocol, up to four prompts.
SPECIFICATION FairSpec
CONSTANTS
    MaxPrompts = 4
    NumChallenges = 2
    PollLimit = 2
INVARIANTS
    Owned
    PromptsConsistent
PROPERTIES
    ImplementsHelperSpec
    AnsweredOrWaiting
\* The process ends.
CHECK_DEADLOCK FALSE

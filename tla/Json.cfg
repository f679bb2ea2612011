\* The parser over all the texts, and the table through all additions and deletions.
SPECIFICATION Spec
CONSTANTS
    Keys <- MCKeys
    Values = {"u", "w"}
    FirstSize = 3
    Hashes <- MCHashes
INVARIANTS
    AsGrammar
    MapExact
PROPERTIES
    ImplementsMap
\* The parser stops, and the object is deleted in the end.
CHECK_DEADLOCK FALSE

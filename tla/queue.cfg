SPECIFICATION FairSpec
CONSTANTS
    Inserters = {p1}
    Getters = {g1, g2}
    Entries = {e1, e2, e3}
    Sockets = {s1, s2, s3}
    NULL = NULL
INVARIANTS
    TypeOK
    ListsRepresentQueue
    EntryHasOneOwner
PROPERTIES
    ImplementsFifo
    EveryInsertReturns
    EveryEntryTaken
CHECK_DEADLOCK TRUE

SPECIFICATION Spec
CONSTANTS
    Clients = {c1, c2}
    NumFds = 2
    num_workers = 2
    MAXEVENTS = 2
    ipc_type = "COMM_TCP"
    DataLens = {0, 2}
    MaxRequests = 1
    MaxSent = 2
    Pipelining = FALSE
    Closing = TRUE
    Faults = {}
    NULL = NULL
SYMMETRY ClientSymmetry
INVARIANTS
    TypeOK
    FdHasOneHolder
    EventsAreCurrent
    AnswersGoToAsker
CHECK_DEADLOCK TRUE

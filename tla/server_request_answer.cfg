SPECIFICATION FairSpec
CONSTANTS
    Clients = {c1, c2}
    NumFds = 2
    num_workers = 2
    MAXEVENTS = 2
    ipc_type = "COMM_TCP"
    DataLens = {1}
    MaxRequests = 1
    MaxSent = 2
    Pipelining = FALSE
    Closing = FALSE
    Faults = {}
    NULL = NULL
INVARIANTS
    NoStrandedData
PROPERTIES
    EveryConnectionServed
    ImplementsFairService
CHECK_DEADLOCK TRUE

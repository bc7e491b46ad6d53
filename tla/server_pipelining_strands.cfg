SPECIFICATION Spec
CONSTANTS
    Clients = {c1}
    NumFds = 1
    num_workers = 2
    MAXEVENTS = 2
    ipc_type = "COMM_TCP"
    DataLens = {1}
    MaxRequests = 2
    MaxSent = 2
    Pipelining = TRUE
    Closing = FALSE
    Faults = {}
    NULL = NULL
INVARIANTS
    NoStrandedData
CHECK_DEADLOCK TRUE

SPECIFICATION Spec
CONSTANTS
    Clients = {c1, c2, c3}
    NumFds = 1
    num_workers = 2
    MAXEVENTS = 1
    ipc_type = "COMM_UNIX"
    DataLens = {2}
    MaxRequests = 2
    MaxSent = 2
    Pipelining = TRUE
    Closing = TRUE
    Faults = {"pthread_create", "epoll_create1", "epoll_ctl", "epoll_wait",
              "accept"}
    NULL = NULL
SYMMETRY ClientSymmetry
INVARIANTS
    FdHasOneHolder
    EventsAreCurrent
    RequestsInOrder
PROPERTIES
    ImplementsService
CHECK_DEADLOCK FALSE

SPECIFICATION FairSpec
CONSTANTS
    ipc_types = {"COMM_TCP", "COMM_UNIX"}
    HeaderLen = 2
    MaxLen = 2
    Capacity = 2
    MaxMsgs = 1
    Closing = TRUE
    NULL = NULL
INVARIANTS
    TypeOK
    BufferHoldsMessage
    ReceiveResult
    SendResult
PROPERTIES
    EveryCallReturns
    EveryRequestAnswered
CHECK_DEADLOCK FALSE

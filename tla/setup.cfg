SPECIFICATION FairSpec
CONSTANTS
    Servers = {s1, s2}
    Clients = {c1, c2}
    ipc_types = {"COMM_UNIX", "COMM_TCP"}
    Nobody = Nobody
    MaxFaults = 2
INVARIANTS
    SomebodyServes
PROPERTY
    ConnectedIsAccepted
CHECK_DEADLOCK FALSE

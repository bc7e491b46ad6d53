SPECIFICATION Spec
CONSTANTS
    Components <- Components3
    t1 = t1
    t2 = t2
    Threads = {t1, t2}
    Names = {"a"}
    Destinations = {"p", ""}
    Buffers = {"buffer"}
    Faults = {"malloc", "setspecific"}
    EmergDebug = FALSE
    MaxChanges = 2
SYMMETRY Symmetry
INVARIANTS
    RecursionBounded
    NamesKept
    MessagesArrive
    DefaultReachesAll

SPECIFICATION Spec
CONSTANTS
    Formats <- Pairs
    Tails <- TextOrNot
    Registered = {0, 1, 2}
INVARIANTS
    ArgumentsInStep
    WritesWhatIsAsked
CHECK_DEADLOCK FALSE

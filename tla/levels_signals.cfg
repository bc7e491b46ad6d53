SPECIFICATION Spec
CONSTANTS
    COMPONENT_COUNT = 3
    InitialLevel <- Compiled
    Environment <- Environments
    LevelsAsked <- Asked
    Handlers = {h1, h2}
SYMMETRY HandlersSymmetry
INVARIANTS
    ChangesAddUp

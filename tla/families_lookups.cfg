SPECIFICATION Spec
CONSTANTS
    MAX_NUM_FAMILY = 4
    NameParts = 3
    Readers = {r}
    NumbersAdded <- AddedNumbers
    NumbersAsked = {0, 1, 2}
    MaxAdds = 4
INVARIANTS
    LookupsFindFamilies
PROPERTY
    FamiliesStay

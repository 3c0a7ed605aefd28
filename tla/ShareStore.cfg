\* Two processes store and delete the shares of two participants in one directory, and die in the middle.
CONSTANTS
    p1 = p1
    p2 = p2
    Processes = {p1, p2}
    ParticipantIds = {0, 1}
    MaxStores = 3
SYMMETRY ProcessSymmetry
SPECIFICATION StoreSpec
CHECK_DEADLOCK FALSE

INVARIANTS
    LoadIntact

\* Every contribution to a key over five scalars; up to three messages, repeated, lost, reordered and altered.
CONSTANTS
    P = 5
    SessionBindings <- Opened
    Senders = {1, 2}
    Rounds = {1, 2, 99}
    LastRound = 3
    MaxMessages = 3
    MaxSent = 2
SPECIFICATION Spec
CHECK_DEADLOCK FALSE

INVARIANTS
    AgreedIsSigned
    ChecksCatchFaults
PROPERTIES
    QuorumsSign

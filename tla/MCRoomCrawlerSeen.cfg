SPECIFICATION Spec
CONSTANTS
    a = a
    b = b
    old = old
    Rooms = {a, b, old}
    Creation <- MCCreation
    Mentions <- MCMentions
    EventWindow = 1
    MessageWindow = 2
    MaxNew = 1
    ListWindow = 1
    MaxRequests = 4
    MaxAttempts = 2
    CheckpointEvery = 2
    MaxFaults = 1
INVARIANTS
    SeenRoomsAreIndexed

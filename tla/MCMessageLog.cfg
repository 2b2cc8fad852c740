SPECIFICATION Spec
CONSTANTS
    busy = 3
    quiet = 2
    RoomIds <- MCRoomIds
    Private <- MCPrivate
    Rooms <- MCRooms
    Malformed <- MCMalformed
    Limit = 2
    Retries = 1
    MaxSeq <- MCMaxSeq
    MaxKills = 2
INVARIANTS
    TypeOK
    LogIncreasing
    GapsAreExact
PROPERTIES
    SweepEnds
    CatchesUp

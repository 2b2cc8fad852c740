SPECIFICATION Spec
CONSTANTS
    busy = 3
    quiet = 2
    RoomIds <- MCRoomIds
    Private <- MCPrivate
    Rooms <- MCRooms
    Malformed <- MCWellFormed
    Limit = 2
    Retries = 1
    MaxSeq <- MCMaxSeq
    MaxKills = 0
INVARIANTS
    EveryLossRecorded

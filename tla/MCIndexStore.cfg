SPECIFICATION Spec
CONSTANTS
    c1 = c1
    c2 = c2
    one = one
    two = two
    none = none
    u1 = u1
    u2 = u2
    NoDoc = NoDoc
    Callers = {c1, c2}
    Docs = {one, two, none}
    Urls = {u1, u2}
    ChunkCount <- MCChunkCount
SYMMETRY MCSymmetry
INVARIANTS
    TypeOK
    AllOrNothing
    OneLiveVersionPerUrl
    TablesAgree
    OneWinner
PROPERTIES
    LiveReplacedOnlyByNewer
    ImplementsVersions

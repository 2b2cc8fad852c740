SPECIFICATION Spec
CONSTANTS
    a = a
    b = b
    a1 = a1
    a2 = a2
    a3 = a3
    b1 = b1
    b2 = b2
    x = x
    NoPage = NoPage
    Pages = {a1, a2, a3, b1, b2, x}
    Hosts = {a, b}
    HostOf <- MCHostOf
    Links <- MCLinks
    Allowed = {a1, a2, a3, b1, b2}
    Seeds <- MCSeeds
    Caps = {1, 2}
    CheckpointEvery = 2
    MaxStarts = 3
INVARIANTS
    NothingDropped
\* After MaxStarts invocations nobody starts another one.
CHECK_DEADLOCK FALSE

\* Three processes store and read one blob and no write is cut short: when a file is
\* incomplete, and that what put has stored becomes readable for good.
SPECIFICATION FairSpec
CONSTANTS
    Blobs = {a}
    Procs = {p1, p2, p3}
    Inodes = {i1, i2, i3, i4, i5}
    Chunks = 2
    Hole = Hole
    NoFile = NoFile
    MaxFaults = 0
    HostileDisk = FALSE
INVARIANTS
    TornOnlyWhileWritten
PROPERTIES
    StoredStaysReadable

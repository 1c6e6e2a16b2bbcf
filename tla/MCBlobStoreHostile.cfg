\* Two blobs, kills, failing calls and an overwriting disk: what get and put mean.
SPECIFICATION Spec
CONSTANTS
    Blobs = {a, b}
    Procs = {p1, p2}
    Inodes = {i1, i2, i3, i4, i5, i6}
    Chunks = 2
    Hole = Hole
    NoFile = NoFile
    MaxFaults = 2
    HostileDisk = TRUE
SYMMETRY Symmetry
INVARIANTS
    TypeOK
    FailedPutIsStored
PROPERTIES
    RestingFileIsFinal
    ImplementsContentStore

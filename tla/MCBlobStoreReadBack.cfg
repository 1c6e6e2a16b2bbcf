\* A put returns Ok while another put of the same bytes is in progress.
SPECIFICATION Spec
CONSTANTS
    Blobs = {a}
    Procs = {p1, p2}
    Inodes = {i1, i2, i3, i4}
    Chunks = 2
    Hole = Hole
    NoFile = NoFile
    MaxFaults = 0
    HostileDisk = FALSE
INVARIANTS
    PutOkIsReadable

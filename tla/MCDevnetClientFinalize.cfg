\* Two commands finalize with two results, over both transports, while the
\* owner may cancel.  The system stops once the clock and the sends are used up.
SPECIFICATION ClientSpec
CONSTANTS
    Mints = {m1}
    Users = {u1}
    Operators = {op1}
    InputHashes = {in1}
    ResultHashes = {res1, res2}
    ZeroHash = ZeroHash
    KeyVersions = {1}
    Lifetimes = {2}
    ResultKinds = {policy}
    PolicyResult = policy
    DefaultKey = DefaultKey
    Absent = Absent
    RequestFiles = {}
    U64Max = 2
    MaxSignatures = 2
    Procs = {p1, p2}
    None = None
    MaxSends = 3
    MaxPolls = 0
    Commands = {"submit", "finalize"}
    Transports = {"direct", "openzeppelin"}
    Disturbances = {"cancel"}
CHECK_DEADLOCK FALSE
SYMMETRY Symmetry
INVARIANTS
    ClientTypeOK
    FinalizeOkIsTrue

\* The owner submits again before finalize has looked at the account.
SPECIFICATION ClientSpec
CONSTANTS
    Mints = {m1}
    Users = {u1}
    Operators = {op1}
    InputHashes = {in1}
    ResultHashes = {res1}
    ZeroHash = ZeroHash
    KeyVersions = {1}
    Lifetimes = {2}
    ResultKinds = {policy}
    PolicyResult = policy
    DefaultKey = DefaultKey
    Absent = Absent
    RequestFiles = {}
    U64Max = 2
    MaxSignatures = 1
    Procs = {p1, p2}
    None = None
    MaxSends = 3
    MaxPolls = 0
    Commands = {"submit", "finalize"}
    Transports = {"direct"}
    Disturbances = {}
CHECK_DEADLOCK FALSE
INVARIANTS
    StillPendingIsThisRequest

\* Two commands submit and fetch; requests expire and demo runs meanwhile.
\* The system stops once the clock and the sends are used up.
SPECIFICATION ClientSpec
CONSTANTS
    Mints = {m1}
    Users = {u1}
    Operators = {op1}
    InputHashes = {in1, in2}
    ResultHashes = {res1}
    ZeroHash = ZeroHash
    KeyVersions = {1}
    Lifetimes = {1}
    ResultKinds = {policy}
    PolicyResult = policy
    DefaultKey = DefaultKey
    Absent = Absent
    RequestFiles <- DemoRequest
    U64Max = 2
    MaxSignatures = 0
    Procs = {p1, p2}
    None = None
    MaxSends = 2
    MaxPolls = 0
    Commands = {"submit", "fetch"}
    Transports = {"direct"}
    Disturbances = {"expire", "demo"}
CHECK_DEADLOCK FALSE
SYMMETRY Symmetry
INVARIANTS
    SubmitOkIsOwn
    DataDirGenuine
PROPERTIES
    VerifiedIsCurrent

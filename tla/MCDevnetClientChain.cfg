\* One machine with every command and a worker, from the first command on, while
\* others create what it wants to create and administer, and workers are handed
\* other files, also one that is not of this chain.  The system stops once the
\* clock and the sends are used up.
SPECIFICATION FairClientSpec
CONSTANTS
    Mints = {m1}
    Users = {u1}
    Operators = {op1}
    InputHashes = {in1}
    ResultHashes = {res1}
    ZeroHash = ZeroHash
    KeyVersions = {1}
    Lifetimes = {1, 2}
    ResultKinds = {policy}
    PolicyResult = policy
    DefaultKey = DefaultKey
    Absent = Absent
    RequestFiles <- DemoRequest
    U64Max = 2
    MaxSignatures = 1
    Procs = {p1}
    None = None
    MaxSends = 4
    MaxPolls = 1
    Commands = {"initialize", "create", "submit", "fetch", "finalize"}
    Transports = {"direct", "openzeppelin"}
    Disturbances = {"create", "administer", "worker"}
CHECK_DEADLOCK FALSE
PROPERTIES
    CommandsReturn
    CommandsAdvance
INVARIANTS
    StateFileGenuine
    SetUpOkIsOwn
    FinalizeSendsItsOwn

\* One account of one mint with every administrative action around it: the
\* longest histories of a single account, up to the u64 limit.
SPECIFICATION Spec
CONSTANTS
    Mints = {m1}
    Users = {u1}
    Operators = {op1, op2}
    InputHashes = {in1}
    ResultHashes = {res1, res2}
    ZeroHash = ZeroHash
    KeyVersions = {1, 2}
    Lifetimes = {0, 1}
    ResultKinds = {policy, other}
    PolicyResult = policy
    DefaultKey = DefaultKey
    Absent = Absent
    RequestFiles <- SecondRequests
    U64Max = 3
    MaxSignatures = 1
SYMMETRY Symmetry
INVARIANTS
    TypeOK
    RecordsAtHome
    LockCoherence
    NonceAccounting
    LockReleasable
    RequestUsesAccountKeyVersion
    FinalizedByBoundOperator
PROPERTIES
    RotationRevokes
    SettledIsFinal

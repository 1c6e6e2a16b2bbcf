\* The key version is bumped and put back while a request is pending.
SPECIFICATION ClaimSpec
CONSTANTS
    Mints = {m1}
    Users = {u1}
    Operators = {op1}
    InputHashes = {in1}
    ResultHashes = {res1}
    ZeroHash = ZeroHash
    KeyVersions = {1, 2}
    Lifetimes = {1}
    ResultKinds = {policy, other}
    PolicyResult = policy
    DefaultKey = DefaultKey
    Absent = Absent
    RequestFiles = {}
    U64Max = 1
    MaxSignatures = 1
INVARIANTS
    RekeyedRequestNeverFinalized

\* Two users of one mint, two requests each: the ledger the program implements,
\* signatures presented for every other request, and somebody who sends expire.
\* No symmetry: TLC must not merge states when it checks liveness.
SPECIFICATION FairSpec
CONSTANTS
    Mints = {m1}
    Users = {u1, u2}
    Operators = {op1}
    InputHashes = {in1}
    ResultHashes = {res1}
    ZeroHash = ZeroHash
    KeyVersions = {1}
    Lifetimes = {1}
    ResultKinds = {policy, other}
    PolicyResult = policy
    DefaultKey = DefaultKey
    Absent = Absent
    RequestFiles <- FirstRequest
    U64Max = 2
    MaxSignatures = 1
INVARIANTS
    NoAttestationReplay
PROPERTIES
    ImplementsLedger
    EveryRequestSettles

\* Two commands at a time, two setups, one ciphertext from elsewhere.
SPECIFICATION Spec
CONSTANTS
    Procs = {p1, p2}
    Generations = {g1, g2}
    KeyVersions = {1}
    MaxElsewhere = 1
    None = None
SYMMETRY Symmetry
INVARIANTS
    TypeOK
    SetupIsWhole
    EncryptedAsLabelled
    SignedMeansOutcome
    DecryptedIsOutcome

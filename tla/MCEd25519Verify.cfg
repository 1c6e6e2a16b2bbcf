SPECIFICATION Spec
CONSTANTS
    Bytes <- MCBytes
    Transactions <- MCTransactions
    Signatures <- MCSignatures
    PubkeySize = 1
    SignatureSize = 1
    Header <- MCHeader
    U16Max = 9
INVARIANTS
    AttestationGenuine
    CheckedPayloadAccepted
\* a transaction ends
CHECK_DEADLOCK FALSE
